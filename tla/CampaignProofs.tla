--------------------------- MODULE CampaignProofs ---------------------------
(***************************************************************************)
(* Theorems about the records of a campaign, for any tabs, characters,     *)
(* groups, grants and shares: the shape of the rows, the session's advance,*)
(* the membership history, single grants and shares, and what a player's   *)
(* save leaves alone.                                                      *)
(***************************************************************************)
EXTENDS Campaign, TLAPS

-----------------------------------------------------------------------------
(* Shapes *)

RowsTyped ==
    /\ chars \in [Characters -> Character]
    /\ players \subseteq Characters
    /\ members \in [Groups -> SUBSET Characters]
    /\ history \in [Groups -> [Characters -> Entry \cup {NoRow}]]
    /\ place \in Location
    /\ grants \in [RowIds -> Targets \cup {NoRow}]
    /\ shares \in [RowIds -> Characters \cup {NoRow}]
    /\ served \in Nat /\ overlapped \in BOOLEAN

\* A session being advanced, and the row it is about to save: its participant's,
\* with the day the session moves it to.
Advance ==
    [kind: {"advance"}, delta: Int, snap: UNION {[C -> Nat] : C \in SUBSET Characters},
     done: SUBSET Characters, touched: SUBSET Characters,
     next: Characters \cup {NoRow}, row: Character \cup {NoRow}]

IsAdvance(r) ==
    /\ r \in Advance
    /\ r.done \subseteq DOMAIN r.snap
    /\ r.next # NoRow => /\ r.next \in DOMAIN r.snap \ r.done
                         /\ r.row \in Character
                         /\ r.row.day = r.snap[r.next] + r.delta

WellFormed(r) == IsRequest(r) /\ (r.kind = "advance" => IsAdvance(r))

ReqTyped == DOMAIN req = Tabs /\ \A t \in Tabs : Busy(t) => WellFormed(req[t])

Typed == RowsTyped /\ ReqTyped

LEMMA TypedImpliesTypeOK == Typed => TypeOK
BY DEF Typed, RowsTyped, ReqTyped, WellFormed, TypeOK

LEMMA TypedInit == Init => Typed
<1> SUFFICES ASSUME Init PROVE Typed
  OBVIOUS
<1>1. chars \in [Characters -> Character] /\ place \in Location
  <2>1. Days \subseteq Nat /\ 0 \in Days
    BY ConstantsAssumption DEF Days
  <2>2. [name: Names, day: Days, here: {FALSE}] \subseteq Character
    BY <2>1 DEF Character
  <2>3. chars \in [Characters -> Character]
    BY <2>2 DEF Init
  <2>4. place \in Location
    BY <2>1 DEF Init, Location
  <2> QED
    BY <2>3, <2>4
<1> QED
  BY <1>1 DEF Init, Typed, RowsTyped, ReqTyped, Busy

\* Taking up a well-formed request, and ending one, keep the shapes.
LEMMA TakesTyped ==
    ASSUME Typed, NEW t \in Tabs, NEW r, WellFormed(r), Takes(t, r)
    PROVE  Typed'
BY DEF Typed, RowsTyped, ReqTyped, WellFormed, Takes, Busy, rows, IsRequest, IsAdvance

LEMMA EndsTyped ==
    ASSUME ReqTyped, NEW t \in Tabs, Ends(t)
    PROVE  ReqTyped'
BY DEF ReqTyped, WellFormed, Ends, Busy, IsRequest, IsAdvance

\* Sessions that note a save keep their shape and all but their notes.
LEMMA NotedTyped ==
    ASSUME ReqTyped, NEW t \in Tabs, NEW c \in Characters, NEW u \in Tabs, Busy(u)
    PROVE  /\ Noted(t, c)[u] # Idle => WellFormed(Noted(t, c)[u])
           /\ Noted(t, c)[u].kind = req[u].kind
           /\ req[u].kind # "advance" => Noted(t, c)[u] = req[u]
           /\ req[u].kind = "advance" =>
                /\ Noted(t, c)[u].snap = req[u].snap /\ Noted(t, c)[u].done = req[u].done
                /\ Noted(t, c)[u].delta = req[u].delta
                /\ req[u].touched \subseteq Noted(t, c)[u].touched
                /\ u # t => c \in Noted(t, c)[u].touched
<1>1. WellFormed(req[u])
  BY DEF ReqTyped
<1>2. CASE u # t /\ req[u].kind = "advance"
  <2> DEFINE r == [req[u] EXCEPT !.touched = @ \cup {c}]
  <2>1. Noted(t, c)[u] = r
    BY <1>2 DEF Noted, Doing
  <2>2. IsAdvance(req[u])
    BY <1>1, <1>2 DEF WellFormed
  <2>3. r \in Advance /\ r.kind = "advance" /\ r.snap = req[u].snap /\ r.done = req[u].done
        /\ r.delta = req[u].delta /\ r.next = req[u].next /\ r.row = req[u].row
        /\ r.touched = req[u].touched \cup {c}
    BY <2>2 DEF IsAdvance, Advance
  <2>4. IsAdvance(r)
    BY <2>2, <2>3 DEF IsAdvance
  <2>5. IsRequest(r)
    <3>1. r.delta \in Int /\ DOMAIN r.snap \subseteq Characters
          /\ \A d \in DOMAIN r.snap : r.snap[d] \in Nat
      BY <2>3 DEF Advance
    <3> QED
      BY <2>3, <2>4, <3>1 DEF IsRequest, IsAdvance, Advance
  <2> QED
    BY <1>2, <2>1, <2>3, <2>4, <2>5 DEF WellFormed
<1>3. CASE ~(u # t /\ req[u].kind = "advance")
  <2>1. Noted(t, c)[u] = req[u]
    BY <1>3 DEF Noted, Doing
  <2> QED
    BY <1>1, <1>3, <2>1
<1> QED
  BY <1>2, <1>3

-----------------------------------------------------------------------------
(* Shapes, one action at a time *)

LEMMA ReadsTyped ==
    ASSUME Typed, NEW t \in Tabs,
           \/ \E c \in Characters, name \in Names \cup {Keep}, n \in Days \cup {Keep} :
                ReadCharacter(t, c, name, n)
           \/ \E c \in Characters, here \in BOOLEAN : ReadAssign(t, c, here)
           \/ \E c \in Characters : ReadAddParticipant(t, c) \/ ReadRemoveParticipant(t, c)
           \/ \E delta \in {-1, 1}, C \in SUBSET Characters : ReadAdvance(t, delta, C)
           \/ \E g \in Groups, c \in Characters : ReadJoin(t, g, c) \/ ReadLeave(t, g, c)
           \/ \E n \in Days \cup {Keep}, open \in Texts \cup {Keep}, secret \in Texts \cup {Keep} :
                ReadLocation(t, n, open, secret)
           \/ \E target \in Targets : ReadGrant(t, target)
           \/ \E c \in Characters : ReadShare(t, c)
    PROVE  Typed'
<1> USE DEF WellFormed, IsRequest
<1>0. Days \subseteq Nat /\ RowsTyped
  BY ConstantsAssumption DEF Days, Typed
<1>1. ASSUME NEW c \in Characters, NEW name \in Names \cup {Keep}, NEW n \in Days \cup {Keep},
             ReadCharacter(t, c, name, n)
      PROVE  Typed'
  <2>1. [chars[c] EXCEPT !.name = Set(@, name), !.day = Set(@, n)] \in Character
        /\ chars[c] \in Character
    BY <1>0 DEF RowsTyped, Character, Set
  <2> QED
    BY <1>1, <2>1, TakesTyped DEF ReadCharacter
<1>2. ASSUME NEW c \in Characters, NEW here \in BOOLEAN, ReadAssign(t, c, here)
      PROVE  Typed'
  <2>1. [chars[c] EXCEPT !.here = here] \in Character /\ chars[c] \in Character
    BY <1>0 DEF RowsTyped, Character
  <2> QED
    BY <1>2, <2>1, TakesTyped DEF ReadAssign
<1>3. ASSUME NEW c \in Characters, ReadAddParticipant(t, c) \/ ReadRemoveParticipant(t, c)
      PROVE  Typed'
  BY <1>0, <1>3, TakesTyped DEF ReadAddParticipant, ReadRemoveParticipant, RowsTyped
<1>4. ASSUME NEW delta \in {-1, 1}, NEW C \in SUBSET Characters, ReadAdvance(t, delta, C)
      PROVE  Typed'
  <2> DEFINE snap == [c \in C |-> chars[c].day]
             r == [kind |-> "advance", delta |-> delta, snap |-> snap,
                   done |-> {}, touched |-> {}, next |-> NoRow, row |-> NoRow]
  <2>1. snap \in [C -> Nat] /\ DOMAIN snap = C
    BY <1>0 DEF RowsTyped, Character
  <2>2. r \in Advance
    BY <2>1 DEF Advance
  <2>3. WellFormed(r)
    BY <2>1, <2>2 DEF IsAdvance
  <2> QED
    BY <1>4, <2>3, TakesTyped DEF ReadAdvance
<1>5. ASSUME NEW g \in Groups, NEW c \in Characters, ReadJoin(t, g, c) \/ ReadLeave(t, g, c)
      PROVE  Typed'
  <2>1. membershipEntry(chars[c], "joined") \in Entry /\ membershipEntry(chars[c], "left") \in Entry
        /\ members[g] \subseteq Characters
    BY <1>0 DEF membershipEntry, Entry, RowsTyped, Character
  <2> QED
    BY <1>5, <2>1, TakesTyped DEF ReadJoin, ReadLeave
<1>6. ASSUME NEW n \in Days \cup {Keep}, NEW open \in Texts \cup {Keep},
             NEW secret \in Texts \cup {Keep}, ReadLocation(t, n, open, secret)
      PROVE  Typed'
  <2> DEFINE merged == mergeLocationSections(t, place, open, secret)
             row == [merged EXCEPT !.day = Set(@, n)]
  <2>1. place \in Location
    BY <1>0 DEF RowsTyped
  <2>2. merged \in Location
    BY <2>1 DEF mergeLocationSections, Location, Set
  <2>3. row \in Location
    BY <2>2 DEF Location, Set
  <2> HIDE DEF merged
  <2>4. WellFormed([kind |-> "location", read |-> place, row |-> row])
    BY <2>1, <2>3
  <2>5. Takes(t, [kind |-> "location", read |-> place, row |-> row])
    BY <1>6 DEF ReadLocation, merged
  <2> QED
    BY <2>4, <2>5, TakesTyped
<1>7. ASSUME NEW target \in Targets, ReadGrant(t, target)
      PROVE  Typed'
  BY <1>7, TakesTyped DEF ReadGrant
<1>8. ASSUME NEW c \in Characters, ReadShare(t, c)
      PROVE  Typed'
  BY <1>8, TakesTyped DEF ReadShare
<1> QED
  BY <1>1, <1>2, <1>3, <1>4, <1>5, <1>6, <1>7, <1>8

\* What a request in flight holds, by its kind.
LEMMA Held ==
    ASSUME Typed, NEW t \in Tabs, Busy(t)
    PROVE  /\ req[t].kind = "character" => req[t].of \in Characters /\ req[t].row \in Character
           /\ req[t].kind \in {"add", "remove", "share"} => req[t].of \in Characters
           /\ req[t].kind = "add" => req[t].loaded \subseteq Characters
           /\ req[t].kind = "advance" => IsAdvance(req[t])
           /\ req[t].kind \in {"join", "leave"} =>
                req[t].in \in Groups /\ req[t].of \in Characters /\ req[t].entry \in Entry
           /\ req[t].kind = "join" => req[t].loaded \subseteq Characters
           /\ req[t].kind = "location" => req[t].row \in Location
           /\ req[t].kind = "grant" => req[t].of \in Targets
BY DEF Typed, ReqTyped, WellFormed, IsRequest

LEMMA WritesTyped ==
    ASSUME Typed, NEW t \in Tabs,
           \/ AddParticipant(t) \/ RemoveParticipant(t) \/ Join(t) \/ Leave(t)
           \/ SaveLocation(t) \/ Grant(t) \/ Share(t) \/ Abandon(t) \/ AdvanceEnds(t)
           \/ \E i \in RowIds : RevokeAccess(t, i) \/ RevokeShare(t, i)
    PROVE  Typed'
<1>0. RowsTyped /\ ReqTyped
  BY DEF Typed
<1>1. CASE AddParticipant(t)
  BY <1>0, <1>1, Held, EndsTyped DEF AddParticipant, Append, Typed, RowsTyped, Doing
<1>2. CASE RemoveParticipant(t)
  BY <1>0, <1>2, EndsTyped DEF RemoveParticipant, Typed, RowsTyped
<1>3. CASE Join(t)
  <2>1. req[t].in \in Groups /\ req[t].of \in Characters /\ req[t].entry \in Entry
        /\ req[t].loaded \subseteq Characters
    BY <1>3, Held DEF Join, Doing
  <2>2. PICK after \in Append(members[req[t].in], req[t].loaded, req[t].of) :
            members' = [members EXCEPT ![req[t].in] = after]
    BY <1>3 DEF Join
  <2>3. after \subseteq Characters
    BY <1>0, <2>1, <2>2 DEF Append, RowsTyped
  <2>4. members' \in [Groups -> SUBSET Characters]
    BY <1>0, <2>1, <2>2, <2>3 DEF RowsTyped
  <2>5. history' \in [Groups -> [Characters -> Entry \cup {NoRow}]]
    BY <1>0, <1>3, <2>1 DEF Join, RowsTyped
  <2> QED
    BY <1>0, <1>3, <2>4, <2>5, EndsTyped DEF Join, Typed, RowsTyped
<1>4. CASE Leave(t)
  <2>1. req[t].in \in Groups /\ req[t].of \in Characters /\ req[t].entry \in Entry
    BY <1>4, Held DEF Leave, Doing
  <2>2. members' \in [Groups -> SUBSET Characters]
    BY <1>0, <1>4, <2>1 DEF Leave, RowsTyped
  <2>3. history' \in [Groups -> [Characters -> Entry \cup {NoRow}]]
    BY <1>0, <1>4, <2>1 DEF Leave, RowsTyped
  <2> QED
    BY <1>0, <1>4, <2>2, <2>3, EndsTyped DEF Leave, Typed, RowsTyped
<1>5. CASE SaveLocation(t)
  BY <1>0, <1>5, Held, EndsTyped DEF SaveLocation, Typed, RowsTyped, Doing
<1>6. CASE Grant(t)
  <2>1. req[t].of \in Targets
    BY <1>6, Held DEF Grant, Doing
  <2> QED
    BY <1>0, <1>6, <2>1, EndsTyped DEF Grant, Typed, RowsTyped
<1>7. CASE Share(t)
  <2>1. req[t].of \in Characters
    BY <1>7, Held DEF Share, Doing
  <2> QED
    BY <1>0, <1>7, <2>1, EndsTyped DEF Share, Typed, RowsTyped
<1>8. CASE Abandon(t) \/ AdvanceEnds(t)
  BY <1>0, <1>8, EndsTyped DEF Abandon, AdvanceEnds, Typed, RowsTyped, rows
<1>9. ASSUME NEW i \in RowIds, RevokeAccess(t, i) \/ RevokeShare(t, i)
      PROVE  Typed'
  <2>1. ReqTyped'
    BY <1>0, <1>9 DEF RevokeAccess, RevokeShare, ReqTyped, Busy, WellFormed, IsRequest, IsAdvance
  <2> QED
    BY <1>0, <1>9, <2>1 DEF RevokeAccess, RevokeShare, Typed, RowsTyped
<1> QED
  BY <1>1, <1>2, <1>3, <1>4, <1>5, <1>6, <1>7, <1>8, <1>9

\* A request list in which the sessions took note of a save of c, and tab t
\* holds r.
LEMMA NotedWith ==
    ASSUME ReqTyped, NEW t \in Tabs, NEW c \in Characters, NEW r,
           r = Idle \/ WellFormed(r), req' = [Noted(t, c) EXCEPT ![t] = r]
    PROVE  ReqTyped'
<1>1. DOMAIN req' = Tabs /\ req'[t] = r /\ \A u \in Tabs \ {t} : req'[u] = Noted(t, c)[u]
  BY DEF Noted
<1>2. ASSUME NEW u \in Tabs \ {t}, req'[u] # Idle
      PROVE  WellFormed(req'[u])
  <2>1. CASE Busy(u)
    BY <1>1, <1>2, <2>1, NotedTyped
  <2>2. CASE ~Busy(u) /\ ~Doing(u, "advance")
    BY <1>1, <1>2, <2>2 DEF Noted, Busy
  <2> QED
    BY <2>1, <2>2 DEF Doing
<1>3. \A u \in Tabs : req'[u] # Idle => WellFormed(req'[u])
  BY <1>1, <1>2
<1> QED
  BY <1>1, <1>3 DEF ReqTyped, Busy, WellFormed, IsRequest, IsAdvance

LEMMA SaveCharacterTyped ==
    ASSUME Typed, NEW t \in Tabs, SaveCharacter(t)
    PROVE  Typed'
<1>1. req[t].of \in Characters /\ req[t].row \in Character
  BY Held DEF SaveCharacter, Doing
<1>2. ReqTyped'
  BY <1>1, NotedWith DEF SaveCharacter, Typed
<1> QED
  BY <1>1, <1>2 DEF SaveCharacter, Typed, RowsTyped

\* The row of the next participant, loaded with the session's new day.
LEMMA AdvanceNextHolds ==
    ASSUME Typed, NEW t \in Tabs, NEW c \in Characters, AdvanceNext(t, c)
    PROVE  /\ IsAdvance(req'[t]) /\ req'[t].kind = "advance"
           /\ req'[t].snap = req[t].snap /\ req'[t].done = req[t].done
           /\ req'[t].delta = req[t].delta /\ req'[t].touched = req[t].touched
           /\ \A u \in Tabs \ {t} : req'[u] = req[u]
           /\ DOMAIN req' = Tabs
<1> DEFINE r == req[t]
           row == [chars[c] EXCEPT !.day = NewDay(r, c)]
           s == [r EXCEPT !.next = c, !.row = row]
<1>1. IsAdvance(r) /\ c \in DOMAIN r.snap \ r.done /\ NewDay(r, c) \in Nat
  BY Held, ConstantsAssumption DEF AdvanceNext, Doing, NotNegative, Days
<1>2. row \in Character /\ row.day = r.snap[c] + r.delta
  BY <1>1 DEF Typed, RowsTyped, Character, NewDay
<1>3. req' = [req EXCEPT ![t] = s]
  BY DEF AdvanceNext
<1>4. s \in Advance /\ s.kind = "advance" /\ s.snap = r.snap /\ s.done = r.done
      /\ s.delta = r.delta /\ s.touched = r.touched /\ s.next = c /\ s.row = row
  BY <1>1, <1>2 DEF IsAdvance, Advance
<1>5. IsAdvance(s)
  BY <1>1, <1>2, <1>4 DEF IsAdvance
<1>6. req'[t] = s /\ DOMAIN req' = Tabs /\ \A u \in Tabs \ {t} : req'[u] = req[u]
  BY <1>3 DEF Typed, ReqTyped
<1> QED
  BY <1>4, <1>5, <1>6

LEMMA IsAdvanceWellFormed ==
    ASSUME NEW r, IsAdvance(r)
    PROVE  WellFormed(r)
<1>1. r.kind = "advance" /\ r.delta \in Int /\ DOMAIN r.snap \subseteq Characters
      /\ r.touched \subseteq Characters
      /\ \A d \in DOMAIN r.snap : r.snap[d] \in Nat
  BY DEF IsAdvance, Advance
<1> QED
  BY <1>1 DEF WellFormed, IsRequest, IsAdvance

LEMMA AdvanceNextTyped ==
    ASSUME Typed, NEW t \in Tabs, NEW c \in Characters, AdvanceNext(t, c)
    PROVE  Typed'
<1>1. WellFormed(req'[t]) /\ DOMAIN req' = Tabs /\ \A u \in Tabs \ {t} : req'[u] = req[u]
  BY AdvanceNextHolds, IsAdvanceWellFormed
<1>2. \A u \in Tabs : req'[u] # Idle => WellFormed(req'[u])
  BY <1>1 DEF Typed, ReqTyped, Busy
<1>3. ReqTyped'
  BY <1>1, <1>2 DEF ReqTyped, Busy, WellFormed, IsRequest, IsAdvance
<1>4. RowsTyped'
  BY DEF AdvanceNext, Typed, RowsTyped, rows
<1> QED
  BY <1>3, <1>4 DEF Typed

\* A participant is saved with the day the session moves it to.
LEMMA AdvanceSaveHolds ==
    ASSUME Typed, NEW t \in Tabs, AdvanceSave(t)
    PROVE  /\ req[t].next \in DOMAIN req[t].snap \ req[t].done
           /\ req[t].next \in Characters /\ req[t].row \in Character
           /\ req[t].row.day = req[t].snap[req[t].next] + req[t].delta
           /\ IsAdvance(req'[t]) /\ req'[t].kind = "advance"
           /\ req'[t].snap = req[t].snap /\ req'[t].delta = req[t].delta
           /\ req'[t].done = req[t].done \cup {req[t].next}
           /\ req'[t].touched = req[t].touched
           /\ req' = [Noted(t, req[t].next) EXCEPT ![t] = req'[t]]
           /\ chars' = [chars EXCEPT ![req[t].next] = req[t].row]
<1> DEFINE r == req[t]
           s == [r EXCEPT !.done = @ \cup {r.next}, !.next = NoRow, !.row = NoRow]
<1>1. IsAdvance(r) /\ r.next # NoRow
  BY Held DEF AdvanceSave, Doing
<1>2. /\ r.next \in DOMAIN r.snap \ r.done /\ r.next \in Characters /\ r.row \in Character
      /\ r.row.day = r.snap[r.next] + r.delta
  BY <1>1 DEF IsAdvance, Advance
<1>3. req' = [Noted(t, r.next) EXCEPT ![t] = s]
  BY DEF AdvanceSave
<1>4. s \in Advance /\ s.kind = "advance" /\ s.snap = r.snap /\ s.delta = r.delta
      /\ s.done = r.done \cup {r.next} /\ s.touched = r.touched /\ s.next = NoRow
  BY <1>1, <1>2 DEF IsAdvance, Advance
<1>5. IsAdvance(s)
  BY <1>1, <1>2, <1>4 DEF IsAdvance
<1>6. req'[t] = s
  BY <1>3 DEF Noted
<1>7. chars' = [chars EXCEPT ![r.next] = r.row]
  BY DEF AdvanceSave
<1> QED
  BY <1>2, <1>3, <1>4, <1>5, <1>6, <1>7

LEMMA AdvanceSaveTyped ==
    ASSUME Typed, NEW t \in Tabs, AdvanceSave(t)
    PROVE  Typed'
<1>1. ReqTyped'
  BY AdvanceSaveHolds, IsAdvanceWellFormed, NotedWith DEF Typed
<1>2. RowsTyped'
  <2>1. chars' \in [Characters -> Character]
    BY AdvanceSaveHolds DEF Typed, RowsTyped
  <2> QED
    BY <2>1 DEF AdvanceSave, Typed, RowsTyped
<1> QED
  BY <1>1, <1>2 DEF Typed

\* Next, split into the requests taken up and the writes of those in flight.
Taken(t) ==
    \/ \E c \in Characters, name \in Names \cup {Keep}, n \in Days \cup {Keep} :
         ReadCharacter(t, c, name, n)
    \/ \E c \in Characters, here \in BOOLEAN : ReadAssign(t, c, here)
    \/ \E c \in Characters : ReadAddParticipant(t, c) \/ ReadRemoveParticipant(t, c)
    \/ \E delta \in {-1, 1}, C \in SUBSET Characters : ReadAdvance(t, delta, C)
    \/ \E g \in Groups, c \in Characters : ReadJoin(t, g, c) \/ ReadLeave(t, g, c)
    \/ \E n \in Days \cup {Keep}, open \in Texts \cup {Keep}, secret \in Texts \cup {Keep} :
         ReadLocation(t, n, open, secret)
    \/ \E target \in Targets : ReadGrant(t, target)
    \/ \E c \in Characters : ReadShare(t, c)

Written(t) ==
    \/ AddParticipant(t) \/ RemoveParticipant(t) \/ Join(t) \/ Leave(t)
    \/ SaveLocation(t) \/ Grant(t) \/ Share(t) \/ Abandon(t) \/ AdvanceEnds(t)
    \/ \E i \in RowIds : RevokeAccess(t, i) \/ RevokeShare(t, i)

LEMMA NextSplit ==
    ASSUME Next
    PROVE  \E t \in Tabs : \/ Taken(t) \/ Written(t) \/ SaveCharacter(t)
                           \/ \E c \in Characters : AdvanceNext(t, c)
                           \/ AdvanceSave(t)
BY DEF Next, Taken, Written

LEMMA TypedStep ==
    ASSUME Typed, [Next]_vars
    PROVE  Typed'
<1>1. CASE UNCHANGED vars
  BY <1>1 DEF vars, rows, Typed, RowsTyped, ReqTyped, Busy, WellFormed, IsRequest, IsAdvance
<1>2. CASE Next
  <2>1. PICK t \in Tabs : \/ Taken(t) \/ Written(t) \/ SaveCharacter(t)
                          \/ \E c \in Characters : AdvanceNext(t, c)
                          \/ AdvanceSave(t)
    BY <1>2, NextSplit
  <2>2. CASE Taken(t)
    BY <2>2, ReadsTyped DEF Taken
  <2>3. CASE Written(t)
    BY <2>3, WritesTyped DEF Written
  <2> QED
    BY <2>1, <2>2, <2>3, SaveCharacterTyped, AdvanceNextTyped, AdvanceSaveTyped
<1> QED
  BY <1>1, <1>2

\* Every row and every request keeps its shape, and no game day is negative
\* (characters.go, sessions.go, groups.go, locations.go).
THEOREM TypeCorrect == Spec => []TypeOK
<1>1. Typed /\ [Next]_vars => Typed'
  BY TypedStep
<1>2. Spec => []Typed
  BY <1>1, TypedInit, PTL DEF Spec
<1> QED
  BY <1>2, TypedImpliesTypeOK, PTL

-----------------------------------------------------------------------------
(* What a step leaves of the requests in flight *)

\* A request taken up changes no row and no other request.
LEMMA TakesFrame ==
    ASSUME Typed, NEW t \in Tabs, NEW r, Takes(t, r)
    PROVE  /\ req'[t] = r /\ \A u \in Tabs \ {t} : req'[u] = req[u]
           /\ UNCHANGED rows
           /\ ~overlapped' => ~overlapped /\ \A u \in Tabs : ~Busy(u)
BY DEF Takes, Typed, ReqTyped, RowsTyped

\* Whatever else happens, a request in flight was in flight before, and is as it
\* was unless it advances a session.
Kept ==
    /\ \A u \in Tabs : Busy(u)' =>
        /\ Busy(u) /\ req'[u].kind = req[u].kind
        /\ req[u].kind # "advance" => req'[u] = req[u]
    /\ overlapped' = overlapped

LEMMA WrittenKeeps ==
    ASSUME Typed, NEW t \in Tabs, Written(t)
    PROVE  Kept /\ (\A u \in Tabs : req'[u] = req[u] \/ ~Busy(u)') /\ UNCHANGED chars
<1>1. CASE \E i \in RowIds : RevokeAccess(t, i) \/ RevokeShare(t, i)
  BY <1>1 DEF RevokeAccess, RevokeShare, Kept, Busy
<1>2. CASE Ends(t) /\ overlapped' = overlapped /\ UNCHANGED chars
  BY <1>2 DEF Ends, Kept, Busy, Typed, ReqTyped
<1> QED
  BY <1>1, <1>2 DEF Written, AddParticipant, RemoveParticipant, Join, Leave, SaveLocation, Grant,
                    Share, Abandon, AdvanceEnds, rows

LEMMA SaveCharacterKeeps ==
    ASSUME Typed, NEW t \in Tabs, SaveCharacter(t)
    PROVE  /\ Kept /\ ~Busy(t)'
           /\ \A u \in Tabs \ {t} : req'[u] = Noted(t, req[t].of)[u]
           /\ req[t].of \in Characters
<1>1. req[t].of \in Characters /\ ReqTyped
  BY Held DEF SaveCharacter, Doing, Typed
<1>2. /\ req'[t] = Idle /\ DOMAIN req' = Tabs
      /\ \A u \in Tabs \ {t} : req'[u] = Noted(t, req[t].of)[u]
  BY DEF SaveCharacter, Noted
<1>3. ASSUME NEW u \in Tabs \ {t}, req'[u] # Idle
      PROVE  /\ Busy(u) /\ req'[u].kind = req[u].kind
             /\ req[u].kind # "advance" => req'[u] = req[u]
  <2>1. Busy(u)
    BY <1>2, <1>3 DEF Noted, Doing, Busy
  <2> QED
    BY <1>1, <1>2, <2>1, NotedTyped
<1> QED
  BY <1>1, <1>2, <1>3 DEF SaveCharacter, Kept, Busy

LEMMA AdvanceNextKeeps ==
    ASSUME Typed, NEW t \in Tabs, NEW c \in Characters, AdvanceNext(t, c)
    PROVE  Kept /\ UNCHANGED rows
<1>1. Busy(t) /\ req[t].kind = "advance"
  BY DEF AdvanceNext, Doing
<1> QED
  BY <1>1, AdvanceNextHolds DEF Kept, Busy, AdvanceNext

LEMMA AdvanceSaveKeeps ==
    ASSUME Typed, NEW t \in Tabs, AdvanceSave(t)
    PROVE  /\ Kept
           /\ \A u \in Tabs \ {t} : req'[u] = Noted(t, req[t].next)[u]
<1>1. Busy(t) /\ req[t].kind = "advance" /\ ReqTyped
  BY DEF AdvanceSave, Doing, Typed
<1>2. \A u \in Tabs \ {t} : req'[u] = Noted(t, req[t].next)[u]
  <2>1. req' = [Noted(t, req[t].next) EXCEPT ![t] = req'[t]]
    BY AdvanceSaveHolds
  <2> QED
    BY <2>1 DEF Noted
<1>3. ASSUME NEW u \in Tabs \ {t}, req'[u] # Idle
      PROVE  /\ Busy(u) /\ req'[u].kind = req[u].kind
             /\ req[u].kind # "advance" => req'[u] = req[u]
  <2>1. Busy(u)
    BY <1>2, <1>3 DEF Noted, Doing, Busy
  <2> QED
    BY <1>1, <1>2, <2>1, NotedTyped, AdvanceSaveHolds
<1>4. req'[t].kind = "advance"
  BY AdvanceSaveHolds
<1> QED
  BY <1>1, <1>2, <1>3, <1>4 DEF AdvanceSave, Kept, Busy

\* What a request in flight never says otherwise: a player's row keeps the day
\* and the GM-only sections it was read with, an entry names what is done.
Holds(t, r) ==
    /\ r.kind = "character" /\ t \notin GMTabs => r.row.day = r.read.day
    /\ r.kind = "location" /\ t \notin GMTabs =>
            r.row.secret = r.read.secret /\ r.row.day = r.read.day
    /\ r.kind = "join" => r.entry.action = "joined"
    /\ r.kind = "leave" => r.entry.action = "left"

\* What it says of the groups, the grants and the shares while no other request
\* comes between.
Current(r) ==
    /\ r.kind = "join" => r.loaded = members[r.in] /\ r.of \notin members[r.in]
    /\ r.kind = "leave" => r.of \in members[r.in]
    /\ r.kind = "grant" => NoneYet(grants, r.of)
    /\ r.kind = "share" => NoneYet(shares, r.of)

\* A session that has just loaded its participants.
Fresh(r) ==
    r.kind = "advance" => r.done = {} /\ \A c \in DOMAIN r.snap : r.snap[c] = chars[c].day

LEMMA TakenHolds ==
    ASSUME Typed, NEW t \in Tabs, Taken(t)
    PROVE  \E r : Takes(t, r) /\ Holds(t, r) /\ Current(r) /\ Fresh(r)
<1> USE DEF Holds, Current, Fresh
<1>1. ASSUME NEW c \in Characters, NEW name \in Names \cup {Keep}, NEW n \in Days \cup {Keep},
             ReadCharacter(t, c, name, n)
      PROVE  \E r : Takes(t, r) /\ Holds(t, r) /\ Current(r) /\ Fresh(r)
  <2> DEFINE row == [chars[c] EXCEPT !.name = Set(@, name), !.day = Set(@, n)]
             r == [kind |-> "character", of |-> c, read |-> chars[c], row |-> row]
  <2>1. t \notin GMTabs => row.day = chars[c].day
    BY <1>1 DEF ReadCharacter, DayOk, Set, Typed, RowsTyped, Character
  <2>2. Takes(t, r)
    BY <1>1 DEF ReadCharacter
  <2>3. r.kind = "character" /\ r.row = row /\ r.read = chars[c]
    OBVIOUS
  <2> HIDE DEF r, row
  <2> QED
    BY <2>1, <2>2, <2>3
<1>2. ASSUME NEW c \in Characters, NEW here \in BOOLEAN, ReadAssign(t, c, here)
      PROVE  \E r : Takes(t, r) /\ Holds(t, r) /\ Current(r) /\ Fresh(r)
  <2> DEFINE row == [chars[c] EXCEPT !.here = here]
             r == [kind |-> "character", of |-> c, read |-> chars[c], row |-> row]
  <2>1. row.day = chars[c].day
    BY DEF Typed, RowsTyped, Character
  <2>2. Takes(t, r)
    BY <1>2 DEF ReadAssign
  <2>3. r.kind = "character" /\ r.row = row /\ r.read = chars[c]
    OBVIOUS
  <2> HIDE DEF r, row
  <2> QED
    BY <2>1, <2>2, <2>3
<1>3. ASSUME NEW c \in Characters, ReadAddParticipant(t, c) \/ ReadRemoveParticipant(t, c)
      PROVE  \E r : Takes(t, r) /\ Holds(t, r) /\ Current(r) /\ Fresh(r)
  BY <1>3 DEF ReadAddParticipant, ReadRemoveParticipant
<1>4. ASSUME NEW delta \in {-1, 1}, NEW C \in SUBSET Characters, ReadAdvance(t, delta, C)
      PROVE  \E r : Takes(t, r) /\ Holds(t, r) /\ Current(r) /\ Fresh(r)
  BY <1>4 DEF ReadAdvance
<1>5. ASSUME NEW g \in Groups, NEW c \in Characters, ReadJoin(t, g, c) \/ ReadLeave(t, g, c)
      PROVE  \E r : Takes(t, r) /\ Holds(t, r) /\ Current(r) /\ Fresh(r)
  BY <1>5 DEF ReadJoin, ReadLeave, membershipEntry
<1>6. ASSUME NEW n \in Days \cup {Keep}, NEW open \in Texts \cup {Keep},
             NEW secret \in Texts \cup {Keep}, ReadLocation(t, n, open, secret)
      PROVE  \E r : Takes(t, r) /\ Holds(t, r) /\ Current(r) /\ Fresh(r)
  <2> DEFINE merged == mergeLocationSections(t, place, open, secret)
             row == [merged EXCEPT !.day = Set(@, n)]
             r == [kind |-> "location", read |-> place, row |-> row]
  <2>1. ASSUME t \notin GMTabs PROVE row.secret = place.secret /\ row.day = place.day
    <3>1. n = Keep /\ place \in Location
      BY <1>6, <2>1 DEF ReadLocation, DayOk, Typed, RowsTyped
    <3>2. merged \in Location /\ merged.secret = place.secret /\ merged.day = place.day
      BY <2>1, <3>1 DEF mergeLocationSections, Location, Set
    <3> HIDE DEF merged
    <3> QED
      BY <3>1, <3>2 DEF Location, Set
  <2>2. Takes(t, r)
    BY <1>6 DEF ReadLocation
  <2>3. r.kind = "location" /\ r.row = row /\ r.read = place
    OBVIOUS
  <2> HIDE DEF r, row
  <2> QED
    BY <2>1, <2>2, <2>3
<1>7. ASSUME NEW target \in Targets, ReadGrant(t, target)
      PROVE  \E r : Takes(t, r) /\ Holds(t, r) /\ Current(r) /\ Fresh(r)
  BY <1>7 DEF ReadGrant, GrantExistsNot
<1>8. ASSUME NEW c \in Characters, ReadShare(t, c)
      PROVE  \E r : Takes(t, r) /\ Holds(t, r) /\ Current(r) /\ Fresh(r)
  BY <1>8 DEF ReadShare, ShareExistsNot
<1> QED
  BY <1>1, <1>2, <1>3, <1>4, <1>5, <1>6, <1>7, <1>8 DEF Taken

-----------------------------------------------------------------------------
(* The session's advance *)

\* What the advance of every session rests on, from one state to the next.
LEMMA AdvanceCarries ==
    ASSUME AdvanceExact,
           \A t \in Tabs : Doing(t, "advance")' =>
              /\ Doing(t, "advance")
              /\ req'[t].snap = req[t].snap /\ req'[t].delta = req[t].delta
              /\ req'[t].done = req[t].done /\ req[t].touched \subseteq req'[t].touched
              /\ \A c \in DOMAIN req[t].snap \ req'[t].touched : chars'[c].day = chars[c].day
    PROVE  AdvanceExact'
BY DEF AdvanceExact

LEMMA ReadAdvanceExact ==
    ASSUME Typed, AdvanceExact, NEW t \in Tabs, Taken(t)
    PROVE  AdvanceExact'
<1>2. PICK r : Takes(t, r) /\ Fresh(r)
  BY TakenHolds
<1>3. /\ req'[t] = r /\ \A u \in Tabs \ {t} : req'[u] = req[u]
      /\ chars' = chars
  BY <1>2, TakesFrame DEF rows
<1>4. ASSUME NEW u \in Tabs, Doing(u, "advance")', NEW c \in DOMAIN req'[u].snap \ req'[u].touched
      PROVE  chars'[c].day = req'[u].snap[c] + (IF c \in req'[u].done THEN req'[u].delta ELSE 0)
  <2>1. CASE u = t
    <3>1. WellFormed(r)
      BY <1>3, <1>4, <2>1, ReadsTyped DEF Taken, Typed, ReqTyped, Doing, Busy
    <3>2. r.snap[c] \in Nat
      BY <1>3, <1>4, <2>1, <3>1 DEF WellFormed, IsRequest, Doing
    <3> QED
      BY <1>2, <1>3, <1>4, <2>1, <3>2 DEF Doing, Fresh
  <2>2. CASE u # t
    BY <1>3, <1>4, <2>2 DEF AdvanceExact, Doing, Busy
  <2> QED
    BY <2>1, <2>2
<1> QED
  BY <1>4 DEF AdvanceExact

LEMMA SaveCharacterExact ==
    ASSUME Typed, AdvanceExact, NEW t \in Tabs, SaveCharacter(t)
    PROVE  AdvanceExact'
<1>1. /\ ~Busy(t)' /\ req[t].of \in Characters /\ Kept
      /\ \A u \in Tabs \ {t} : req'[u] = Noted(t, req[t].of)[u]
  BY SaveCharacterKeeps
<1>2. chars' = [chars EXCEPT ![req[t].of] = req[t].row]
  BY DEF SaveCharacter
<1>3. ASSUME NEW u \in Tabs, Doing(u, "advance")'
      PROVE  /\ Doing(u, "advance")
             /\ req'[u].snap = req[u].snap /\ req'[u].delta = req[u].delta
             /\ req'[u].done = req[u].done /\ req[u].touched \subseteq req'[u].touched
             /\ \A c \in DOMAIN req[u].snap \ req'[u].touched : chars'[c].day = chars[c].day
  <2>1. u # t /\ Doing(u, "advance") /\ ReqTyped
    BY <1>1, <1>3 DEF Kept, Doing, Typed
  <2>2. /\ req'[u].snap = req[u].snap /\ req'[u].delta = req[u].delta
        /\ req'[u].done = req[u].done /\ req[u].touched \subseteq req'[u].touched
        /\ req[t].of \in req'[u].touched
    BY <1>1, <2>1, NotedTyped DEF Doing
  <2>3. \A c \in Characters : c # req[t].of => chars'[c] = chars[c]
    BY <1>2 DEF Typed, RowsTyped
  <2>4. DOMAIN req[u].snap \subseteq Characters
    BY <2>1, Held DEF Doing, IsAdvance, Advance
  <2> QED
    BY <2>1, <2>2, <2>3, <2>4
<1> QED
  BY <1>3, AdvanceCarries

LEMMA AdvanceSaveExact ==
    ASSUME Typed, AdvanceExact, NEW t \in Tabs, AdvanceSave(t)
    PROVE  AdvanceExact'
<1>1. /\ Kept /\ ReqTyped
      /\ \A u \in Tabs \ {t} : req'[u] = Noted(t, req[t].next)[u]
  BY AdvanceSaveKeeps DEF Typed
<1> DEFINE r == req[t]
<1>2. /\ r.next \in DOMAIN r.snap \ r.done /\ r.next \in Characters
      /\ r.row.day = r.snap[r.next] + r.delta
      /\ req'[t].snap = r.snap /\ req'[t].delta = r.delta
      /\ req'[t].done = r.done \cup {r.next} /\ req'[t].touched = r.touched
      /\ chars' = [chars EXCEPT ![r.next] = r.row]
      /\ Doing(t, "advance")
  BY AdvanceSaveHolds DEF AdvanceSave
<1>3. /\ chars'[r.next] = r.row
      /\ \A c \in Characters : c # r.next => chars'[c] = chars[c]
  BY <1>2 DEF Typed, RowsTyped
<1>4. ASSUME NEW u \in Tabs, Doing(u, "advance")', NEW c \in DOMAIN req'[u].snap \ req'[u].touched
      PROVE  chars'[c].day = req'[u].snap[c] + (IF c \in req'[u].done THEN req'[u].delta ELSE 0)
  <2>1. CASE u = t
    <3>1. DOMAIN r.snap \subseteq Characters
      BY <1>2, Held DEF Doing, IsAdvance, Advance
    <3>2. c \in DOMAIN r.snap \ r.touched /\ c \in Characters
      BY <1>2, <1>4, <2>1, <3>1
    <3>3. CASE c = r.next
      BY <1>2, <1>3, <2>1, <3>3
    <3>4. CASE c # r.next
      BY <1>2, <1>3, <2>1, <3>2, <3>4 DEF AdvanceExact
    <3> QED
      BY <3>3, <3>4
  <2>2. CASE u # t
    <3>1. Doing(u, "advance")
      BY <1>1, <1>4 DEF Kept, Doing
    <3>2. /\ req'[u].snap = req[u].snap /\ req'[u].delta = req[u].delta
          /\ req'[u].done = req[u].done /\ req[u].touched \subseteq req'[u].touched
          /\ r.next \in req'[u].touched
      BY <1>1, <1>2, <2>2, <3>1, NotedTyped DEF Doing
    <3>3. DOMAIN req[u].snap \subseteq Characters
      BY <3>1, Held DEF Doing, IsAdvance, Advance
    <3>4. c \in DOMAIN req[u].snap \ req[u].touched /\ chars'[c] = chars[c]
      BY <1>3, <1>4, <3>2, <3>3
    <3> QED
      BY <3>1, <3>2, <3>4 DEF AdvanceExact
  <2> QED
    BY <2>1, <2>2
<1> QED
  BY <1>4 DEF AdvanceExact

LEMMA ExactStep ==
    ASSUME Typed, AdvanceExact, [Next]_vars
    PROVE  AdvanceExact'
<1>1. CASE UNCHANGED vars
  BY <1>1 DEF vars, rows, AdvanceExact, Doing, Busy
<1>2. CASE Next
  <2>1. PICK t \in Tabs : \/ Taken(t) \/ Written(t) \/ SaveCharacter(t)
                          \/ \E c \in Characters : AdvanceNext(t, c)
                          \/ AdvanceSave(t)
    BY <1>2, NextSplit
  <2>2. CASE Taken(t)
    BY <2>2, ReadAdvanceExact
  <2>3. CASE Written(t)
    <3>1. (\A u \in Tabs : req'[u] = req[u] \/ ~Busy(u)') /\ chars' = chars
      BY <2>3, WrittenKeeps
    <3> QED
      BY <3>1, AdvanceCarries DEF Doing, Busy
  <2>4. CASE SaveCharacter(t)
    BY <2>4, SaveCharacterExact
  <2>5. ASSUME NEW c \in Characters, AdvanceNext(t, c)
        PROVE  AdvanceExact'
    <3>1. /\ req'[t].snap = req[t].snap /\ req'[t].done = req[t].done
          /\ req'[t].delta = req[t].delta /\ req'[t].touched = req[t].touched
          /\ \A u \in Tabs \ {t} : req'[u] = req[u]
      BY <2>5, AdvanceNextHolds
    <3>2. chars' = chars /\ Doing(t, "advance")
      BY <2>5 DEF AdvanceNext, rows
    <3> QED
      BY <3>1, <3>2, AdvanceCarries DEF Doing, Busy
  <2>6. CASE AdvanceSave(t)
    BY <2>6, AdvanceSaveExact
  <2> QED
    BY <2>1, <2>2, <2>3, <2>4, <2>5, <2>6
<1> QED
  BY <1>1, <1>2

\* A session moves each participant by its delta once, or not at all, wherever
\* it stops and whatever else is saved (sessions.go, AdvanceGameDay).
THEOREM AdvanceAlwaysExact == Spec => []AdvanceExact
<1>1. Init => AdvanceExact
  BY DEF Init, AdvanceExact, Doing, Busy
<1>2. Typed /\ AdvanceExact /\ [Next]_vars => Typed' /\ AdvanceExact'
  BY TypedStep, ExactStep
<1> QED
  BY <1>1, <1>2, TypedInit, PTL DEF Spec

-----------------------------------------------------------------------------
(* What a player's save leaves alone *)

RequestsHold == \A t \in Tabs : Busy(t) => Holds(t, req[t])

LEMMA KeptHolds ==
    ASSUME RequestsHold, Kept
    PROVE  RequestsHold'
<1>1. ASSUME NEW u \in Tabs, Busy(u)'
      PROVE  Holds(u, req'[u])
  <2>1. /\ Busy(u) /\ req'[u].kind = req[u].kind
        /\ req[u].kind # "advance" => req'[u] = req[u]
    BY <1>1 DEF Kept
  <2>2. Holds(u, req[u])
    BY <2>1 DEF RequestsHold
  <2> QED
    BY <2>1, <2>2 DEF Holds
<1> QED
  BY <1>1 DEF RequestsHold, Holds

LEMMA HoldsStep ==
    ASSUME Typed, RequestsHold, [Next]_vars
    PROVE  RequestsHold'
<1>1. CASE UNCHANGED vars
  BY <1>1 DEF vars, RequestsHold, Busy, Holds
<1>2. CASE Next
  <2>1. PICK t \in Tabs : \/ Taken(t) \/ Written(t) \/ SaveCharacter(t)
                          \/ \E c \in Characters : AdvanceNext(t, c)
                          \/ AdvanceSave(t)
    BY <1>2, NextSplit
  <2>2. CASE Taken(t)
    <3>1. PICK r : Takes(t, r) /\ Holds(t, r)
      BY <2>2, TakenHolds
    <3>2. req'[t] = r /\ \A u \in Tabs \ {t} : req'[u] = req[u]
      BY <3>1, TakesFrame
    <3>3. \A u \in Tabs : Busy(u)' => Holds(u, req'[u])
      BY <3>1, <3>2 DEF RequestsHold, Busy
    <3> QED
      BY <3>3 DEF RequestsHold, Holds
  <2> QED
    BY <2>1, <2>2, KeptHolds, WrittenKeeps, SaveCharacterKeeps, AdvanceNextKeeps, AdvanceSaveKeeps
<1> QED
  BY <1>1, <1>2

\* A player's own save of a character or of the location moves no game day, sets
\* no reveal day and keeps the GM-only sections, as long as the row is still as
\* it was read (characters.go, Update; locations.go, AssignCharacter and Update).
THEOREM PlayersAlwaysKeepToTheirOwn == Spec => PlayersKeepToTheirOwn
<1>1. Init => RequestsHold
  BY DEF Init, RequestsHold, Busy
<1>2. ASSUME Typed, RequestsHold
      PROVE  \A t \in Tabs \ GMTabs :
                /\ SaveCharacter(t) /\ chars[req[t].of] = req[t].read =>
                        \A c \in Characters : chars'[c].day = chars[c].day
                /\ SaveLocation(t) /\ place = req[t].read =>
                        place'.secret = place.secret /\ place'.day = place.day
  <2>1. ASSUME NEW t \in Tabs \ GMTabs, SaveCharacter(t), chars[req[t].of] = req[t].read,
               NEW c \in Characters
        PROVE  chars'[c].day = chars[c].day
    <3>1. Holds(t, req[t]) /\ req[t].kind = "character"
      BY <1>2, <2>1 DEF SaveCharacter, Doing, RequestsHold
    <3>2. req[t].row.day = chars[req[t].of].day
      BY <2>1, <3>1 DEF Holds
    <3>3. chars' = [chars EXCEPT ![req[t].of] = req[t].row] /\ DOMAIN chars = Characters
      BY <1>2, <2>1 DEF SaveCharacter, Typed, RowsTyped
    <3> QED
      BY <3>2, <3>3
  <2>2. ASSUME NEW t \in Tabs \ GMTabs, SaveLocation(t), place = req[t].read
        PROVE  place'.secret = place.secret /\ place'.day = place.day
    BY <1>2, <2>2 DEF SaveLocation, Doing, RequestsHold, Holds
  <2> QED
    BY <2>1, <2>2
<1>3. Typed /\ RequestsHold /\ [Next]_vars => Typed' /\ RequestsHold'
  BY TypedStep, HoldsStep
<1> QED
  BY <1>1, <1>2, <1>3, TypedInit, PTL DEF Spec, PlayersKeepToTheirOwn

-----------------------------------------------------------------------------
(* One request at a time *)

\* Until requests overlap, the one in flight still finds what it loaded.
Serial ==
    ~overlapped =>
        \A t \in Tabs : Busy(t) => (\A u \in Tabs : Busy(u) => u = t) /\ Current(req[t])

\* Steps that end the request of t, or leave the lists alone.
LEMMA SerialKept ==
    ASSUME Serial, Kept, NEW t \in Tabs,
           \/ Busy(t) /\ ~Busy(t)'
           \/ UNCHANGED <<members, grants, shares>>
    PROVE  Serial'
<1>1. ASSUME ~overlapped', NEW u \in Tabs, Busy(u)'
      PROVE  (\A v \in Tabs : Busy(v)' => v = u) /\ Current(req[u])'
  <2>1. /\ ~overlapped /\ Busy(u) /\ req'[u].kind = req[u].kind
        /\ req[u].kind # "advance" => req'[u] = req[u]
        /\ \A v \in Tabs : Busy(v)' => Busy(v)
    BY <1>1 DEF Kept
  <2>2. (\A v \in Tabs : Busy(v) => v = u) /\ Current(req[u])
    BY <2>1 DEF Serial
  <2>3. UNCHANGED <<members, grants, shares>>
    BY <1>1, <2>2
  <2>4. CASE req[u].kind = "advance"
    BY <2>1, <2>2, <2>4 DEF Current
  <2>5. CASE req[u].kind # "advance"
    BY <2>1, <2>2, <2>3, <2>5 DEF Current, NoneYet
  <2> QED
    BY <2>1, <2>2, <2>4, <2>5
<1> QED
  BY <1>1 DEF Serial

\* A revocation takes rows away only.
LEMMA SerialRevoked ==
    ASSUME Typed, Serial, NEW t \in Tabs, NEW i \in RowIds, RevokeAccess(t, i) \/ RevokeShare(t, i)
    PROVE  Serial'
<1>1. /\ UNCHANGED <<members, req, overlapped>>
      /\ \A j \in RowIds : grants'[j] = grants[j] \/ grants'[j] = NoRow
      /\ \A j \in RowIds : shares'[j] = shares[j] \/ shares'[j] = NoRow
  BY DEF RevokeAccess, RevokeShare, Typed, RowsTyped
<1>2. ASSUME NEW u \in Tabs, Busy(u), Current(req[u])
      PROVE  Current(req[u])'
  <2>1. req[u].kind \in {"grant", "share"} => req[u].of \in Targets
    BY <1>2, Held DEF Targets
  <2>2. req[u].kind \in {"grant", "share"} => req[u].of # NoRow
    BY <2>1, ConstantsAssumption
  <2> QED
    BY <1>1, <1>2, <2>2 DEF Current, NoneYet
<1> QED
  BY <1>1, <1>2 DEF Serial, Busy

LEMMA SerialStep ==
    ASSUME Typed, Serial, [Next]_vars
    PROVE  Serial'
<1>1. CASE UNCHANGED vars
  BY <1>1 DEF vars, rows, Serial, Busy, Current, NoneYet
<1>2. CASE Next
  <2>1. PICK t \in Tabs : \/ Taken(t) \/ Written(t) \/ SaveCharacter(t)
                          \/ \E c \in Characters : AdvanceNext(t, c)
                          \/ AdvanceSave(t)
    BY <1>2, NextSplit
  <2>2. CASE Taken(t)
    <3>1. PICK r : Takes(t, r) /\ Current(r)
      BY <2>2, TakenHolds
    <3>2. /\ req'[t] = r /\ \A u \in Tabs \ {t} : req'[u] = req[u]
          /\ UNCHANGED <<members, grants, shares>>
          /\ ~overlapped' => \A u \in Tabs : ~Busy(u)
      BY <3>1, TakesFrame DEF rows
    <3>3. Current(r)'
      BY <3>1, <3>2 DEF Current, NoneYet
    <3> QED
      BY <3>2, <3>3 DEF Serial, Busy
  <2>3. ASSUME NEW i \in RowIds, RevokeAccess(t, i) \/ RevokeShare(t, i)
        PROVE  Serial'
    BY <2>3, SerialRevoked
  <2>4. CASE Written(t) /\ ~(\E i \in RowIds : RevokeAccess(t, i) \/ RevokeShare(t, i))
    <3>1. Busy(t) /\ ~Busy(t)'
      BY <2>4 DEF Written, AddParticipant, RemoveParticipant, Join, Leave, SaveLocation, Grant, Share,
                  Abandon, AdvanceEnds, Doing, Busy, Ends, Typed, ReqTyped
    <3> QED
      BY <2>4, <3>1, WrittenKeeps, SerialKept
  <2>5. CASE SaveCharacter(t)
    BY <2>5, SaveCharacterKeeps, SerialKept DEF SaveCharacter
  <2>6. ASSUME NEW c \in Characters, AdvanceNext(t, c)
        PROVE  Serial'
    BY <2>6, AdvanceNextKeeps, SerialKept DEF rows
  <2>7. CASE AdvanceSave(t)
    BY <2>7, AdvanceSaveKeeps, SerialKept DEF AdvanceSave
  <2> QED
    BY <2>1, <2>2, <2>3, <2>4, <2>5, <2>6, <2>7
<1> QED
  BY <1>1, <1>2

-----------------------------------------------------------------------------
(* The membership history *)

LEMMA JoinKeepsHistory ==
    ASSUME Typed, Serial, RequestsHold, MembershipHistory, NEW t \in Tabs, Join(t)
    PROVE  MembershipHistory'
<1> DEFINE r == req[t]
<1>1. /\ r.in \in Groups /\ r.of \in Characters /\ r.entry \in Entry
      /\ r.entry.action = "joined" /\ r.entry # NoRow
      /\ ~overlapped => r.loaded = members[r.in]
  <2>1. Busy(t) /\ r.kind = "join"
    BY DEF Join, Doing
  <2> QED
    BY <2>1, Held, ConstantsAssumption DEF RequestsHold, Holds, Serial, Current
<1>2. PICK after \in Append(members[r.in], r.loaded, r.of) :
          members' = [members EXCEPT ![r.in] = after]
  BY DEF Join
<1>3. /\ history' = [history EXCEPT ![r.in][r.of] = r.entry]
      /\ overlapped' = overlapped
  BY DEF Join
<1>4. /\ \A g \in Groups, c \in Characters : c \in members[g] => c \in members'[g]
      /\ r.of \in members'[r.in]
      /\ ~overlapped => \A g \in Groups, c \in Characters :
            ~(g = r.in /\ c = r.of) => (c \in members'[g] <=> c \in members[g])
  BY <1>1, <1>2 DEF Append, Typed, RowsTyped
<1>5. /\ history'[r.in][r.of] = r.entry
      /\ \A g \in Groups, c \in Characters :
            ~(g = r.in /\ c = r.of) => history'[g][c] = history[g][c]
  BY <1>1, <1>3 DEF Typed, RowsTyped
<1> QED
  BY <1>1, <1>3, <1>4, <1>5 DEF MembershipHistory

LEMMA LeaveKeepsHistory ==
    ASSUME Typed, RequestsHold, MembershipHistory, NEW t \in Tabs, Leave(t)
    PROVE  MembershipHistory'
<1> DEFINE r == req[t]
<1>1. /\ r.in \in Groups /\ r.of \in Characters /\ r.entry.action = "left"
  <2>1. Busy(t) /\ r.kind = "leave"
    BY DEF Leave, Doing
  <2> QED
    BY <2>1, Held DEF RequestsHold, Holds
<1>2. /\ members' = [members EXCEPT ![r.in] = @ \ {r.of}]
      /\ history' = [history EXCEPT ![r.in][r.of] = r.entry]
      /\ overlapped' = overlapped
  BY DEF Leave
<1>3. /\ r.of \notin members'[r.in]
      /\ \A g \in Groups, c \in Characters :
            ~(g = r.in /\ c = r.of) => (c \in members'[g] <=> c \in members[g])
  BY <1>1, <1>2 DEF Typed, RowsTyped
<1>4. /\ history'[r.in][r.of] = r.entry
      /\ \A g \in Groups, c \in Characters :
            ~(g = r.in /\ c = r.of) => history'[g][c] = history[g][c]
  BY <1>1, <1>2 DEF Typed, RowsTyped
<1> QED
  BY <1>1, <1>2, <1>3, <1>4 DEF MembershipHistory

\* Only Join and Leave touch the members, only Grant, Share and the revocations
\* the rows of access.
LEMMA ListsKept ==
    ASSUME Typed, [Next]_vars
    PROVE  /\ overlapped => overlapped'
           /\ \/ UNCHANGED <<members, history>>
              \/ \E t \in Tabs : Join(t) \/ Leave(t)
           /\ \/ UNCHANGED <<grants, shares>>
              \/ \E t \in Tabs : Grant(t) \/ Share(t)
              \/ \E t \in Tabs, i \in RowIds : RevokeAccess(t, i) \/ RevokeShare(t, i)
<1>1. CASE UNCHANGED vars
  BY <1>1 DEF vars, rows
<1>2. CASE Next
  <2>1. PICK t \in Tabs : \/ Taken(t) \/ Written(t) \/ SaveCharacter(t)
                          \/ \E c \in Characters : AdvanceNext(t, c)
                          \/ AdvanceSave(t)
    BY <1>2, NextSplit
  <2>2. CASE Taken(t)
    <3>1. PICK r : Takes(t, r)
      BY <2>2, TakenHolds
    <3> QED
      BY <3>1 DEF Takes, rows
  <2>3. CASE \/ AddParticipant(t) \/ RemoveParticipant(t) \/ SaveLocation(t)
             \/ Abandon(t) \/ AdvanceEnds(t)
    BY <2>3 DEF AddParticipant, RemoveParticipant, SaveLocation, Abandon, AdvanceEnds, rows
  <2>4. CASE Join(t) \/ Leave(t)
    BY <2>4 DEF Join, Leave
  <2>5. CASE Grant(t) \/ Share(t)
    BY <2>5 DEF Grant, Share
  <2>6. ASSUME NEW i \in RowIds, RevokeAccess(t, i) \/ RevokeShare(t, i)
        PROVE  /\ UNCHANGED <<members, history, overlapped>>
               /\ \E u \in Tabs, j \in RowIds : RevokeAccess(u, j) \/ RevokeShare(u, j)
    <3>1. UNCHANGED <<members, history, overlapped>>
      BY <2>6 DEF RevokeAccess, RevokeShare
    <3> QED
      BY <2>6, <3>1
  <2>7. CASE SaveCharacter(t)
    BY <2>7 DEF SaveCharacter
  <2>8. CASE AdvanceSave(t)
    BY <2>8 DEF AdvanceSave
  <2>9. ASSUME NEW c \in Characters, AdvanceNext(t, c)
        PROVE  UNCHANGED <<members, history, grants, shares, overlapped>>
    BY <2>9 DEF AdvanceNext, rows
  <2> QED
    BY <2>1, <2>2, <2>3, <2>4, <2>5, <2>6, <2>7, <2>8, <2>9 DEF Written
<1> QED
  BY <1>1, <1>2

LEMMA HistoryStep ==
    ASSUME Typed, Serial, RequestsHold, MembershipHistory, [Next]_vars
    PROVE  MembershipHistory'
<1>1. CASE UNCHANGED <<members, history>>
  BY <1>1, ListsKept DEF MembershipHistory
<1> QED
  BY <1>1, ListsKept, JoinKeepsHistory, LeaveKeepsHistory

\* Who is no longer a member has an entry that says so, whatever overlaps; and
\* while requests come one at a time the entries tell who is a member
\* (groups.go, Join and Leave).
THEOREM HistoryAlwaysTells == Spec => []MembershipHistory
<1>1. Init => Serial /\ RequestsHold /\ MembershipHistory
  BY DEF Init, Serial, RequestsHold, MembershipHistory, Busy
<1>2. Typed /\ Serial /\ RequestsHold /\ MembershipHistory /\ [Next]_vars
        => Typed' /\ Serial' /\ RequestsHold' /\ MembershipHistory'
  BY TypedStep, SerialStep, HoldsStep, HistoryStep
<1> QED
  BY <1>1, <1>2, TypedInit, PTL DEF Spec

-----------------------------------------------------------------------------
(* Grants and shares *)

\* Distinct rows stay distinct when a row is taken away, and when one is added
\* for whom there was none.
LEMMA StillOne ==
    ASSUME NEW table, NEW after, NEW i \in RowIds, NEW target,
           table \in [RowIds -> Targets \cup {NoRow}],
           \A j, k \in RowIds : j # k => (table[j] # NoRow => table[j] # table[k]),
           after = [table EXCEPT ![i] = target],
           target = NoRow \/ NoneYet(table, target)
    PROVE  \A j, k \in RowIds : j # k => (after[j] # NoRow => after[j] # after[k])
BY DEF NoneYet

LEMMA OneRowStep ==
    ASSUME Typed, Serial, OneRowEach, [Next]_vars
    PROVE  OneRowEach'
<1> SUFFICES ASSUME ~overlapped' PROVE OneRowEach'
  BY DEF OneRowEach
<1>0. /\ ~overlapped
      /\ grants \in [RowIds -> Targets \cup {NoRow}] /\ shares \in [RowIds -> Targets \cup {NoRow}]
      /\ \A j, k \in RowIds : j # k => (grants[j] # NoRow => grants[j] # grants[k])
      /\ \A j, k \in RowIds : j # k => (shares[j] # NoRow => shares[j] # shares[k])
  BY ListsKept DEF OneRowEach, Typed, RowsTyped, Targets
<1>1. CASE UNCHANGED <<grants, shares>>
  BY <1>0, <1>1 DEF OneRowEach
<1>2. ASSUME NEW t \in Tabs, Grant(t)
      PROVE  OneRowEach'
  <2>1. PICK i \in RowIds : grants' = [grants EXCEPT ![i] = req[t].of]
    BY <1>2 DEF Grant
  <2>2. NoneYet(grants, req[t].of) /\ shares' = shares
    BY <1>0, <1>2 DEF Grant, Doing, Serial, Current
  <2>3. \A j, k \in RowIds : j # k => (grants'[j] # NoRow => grants'[j] # grants'[k])
    BY <1>0, <2>1, <2>2, StillOne
  <2> QED
    BY <1>0, <2>2, <2>3 DEF OneRowEach
<1>3. ASSUME NEW t \in Tabs, Share(t)
      PROVE  OneRowEach'
  <2>1. PICK i \in RowIds : shares' = [shares EXCEPT ![i] = req[t].of]
    BY <1>3 DEF Share
  <2>2. NoneYet(shares, req[t].of) /\ grants' = grants
    BY <1>0, <1>3 DEF Share, Doing, Serial, Current
  <2>3. \A j, k \in RowIds : j # k => (shares'[j] # NoRow => shares'[j] # shares'[k])
    BY <1>0, <2>1, <2>2, StillOne
  <2> QED
    BY <1>0, <2>2, <2>3 DEF OneRowEach
<1>4. ASSUME NEW t \in Tabs, NEW i \in RowIds, RevokeAccess(t, i)
      PROVE  OneRowEach'
  <2>1. grants' = [grants EXCEPT ![i] = NoRow] /\ shares' = shares
    BY <1>4 DEF RevokeAccess
  <2>2. \A j, k \in RowIds : j # k => (grants'[j] # NoRow => grants'[j] # grants'[k])
    BY <1>0, <2>1, StillOne
  <2> QED
    BY <1>0, <2>1, <2>2 DEF OneRowEach
<1>5. ASSUME NEW t \in Tabs, NEW i \in RowIds, RevokeShare(t, i)
      PROVE  OneRowEach'
  <2>1. shares' = [shares EXCEPT ![i] = NoRow] /\ grants' = grants
    BY <1>5 DEF RevokeShare
  <2>2. \A j, k \in RowIds : j # k => (shares'[j] # NoRow => shares'[j] # shares'[k])
    BY <1>0, <2>1, StillOne
  <2> QED
    BY <1>0, <2>1, <2>2 DEF OneRowEach
<1> QED
  BY <1>1, <1>2, <1>3, <1>4, <1>5, ListsKept

\* While requests come one at a time, one row stands for each grant and each
\* share, and revoking it ends the access (locations.go, GrantAccess;
\* documents_sharing.go, ShareWithCharacter).
THEOREM AlwaysOneRowEach == Spec => []OneRowEach
<1>1. Init => Serial /\ OneRowEach
  BY DEF Init, Serial, OneRowEach, Busy
<1>2. Typed /\ Serial /\ OneRowEach /\ [Next]_vars => Typed' /\ Serial' /\ OneRowEach'
  BY TypedStep, SerialStep, OneRowStep
<1> QED
  BY <1>1, <1>2, TypedInit, PTL DEF Spec

=============================================================================
