-------------------------- MODULE VisibilityProofs --------------------------
(***************************************************************************)
(* Theorems about who sees what, for any users, characters, groups,        *)
(* repositories, documents and locations and any number of changes.  Each  *)
(* is a fact about the gates in one campaign (or in two that follow each   *)
(* other), and holds always because the campaign keeps its shape.          *)
(***************************************************************************)
EXTENDS Visibility, WellFoundedInduction, TLAPS

-----------------------------------------------------------------------------
(* The campaign keeps its shape *)


LEMMA ChangeTyped ==
    ASSUME world \in World, Next
    PROVE  world' \in World
<1>1. CASE UNCHANGED world
  BY <1>1
<1>2. ASSUME NEW c \in Characters, NEW n \in Days, SetGameDay(c, n)
      PROVE  world' \in World
  BY <1>2 DEF SetGameDay, Change, World
<1>3. ASSUME NEW g \in Groups, NEW c \in Characters, Join(g, c) \/ Leave(g, c)
      PROVE  world' \in World
  BY <1>3 DEF Join, Leave, Change, World
<1>4. ASSUME NEW d \in DocIds, NEW c \in Characters, NEW n \in Days, ShareWithCharacter(d, c, n)
      PROVE  world' \in World
  BY <1>4 DEF ShareWithCharacter, Change, World, Share
<1>5. ASSUME NEW s \in world.shares, RevokeShare(s)
      PROVE  world' \in World
  BY <1>5 DEF RevokeShare, Change, World
<1>6. ASSUME NEW l \in Locations, NEW t \in Characters \cup Groups, GrantAccess(l, t)
      PROVE  world' \in World
  BY <1>6 DEF GrantAccess, Change, World, Grant
<1>7. ASSUME NEW a \in world.grants, RevokeAccess(a)
      PROVE  world' \in World
  BY <1>7 DEF RevokeAccess, Change, World
<1>8. ASSUME NEW l \in Locations, NEW n \in Days, SetPlaceDay(l, n)
      PROVE  world' \in World
  BY <1>8 DEF SetPlaceDay, Change, World
<1>9. ASSUME NEW d \in DocIds, NEW row \in Doc, CreateDocument(d, row)
      PROVE  world' \in World
  BY <1>9 DEF CreateDocument, Change, World
<1>10. ASSUME NEW d \in DocIds, NEW n \in Days, NEW text \in Matches, UpdateDocument(d, n, text)
       PROVE  world' \in World
  <2>1. world.docs[d] \in Doc
    BY <1>10 DEF UpdateDocument, World
  <2>2. [world.docs[d] EXCEPT !.day = n, !.text = text] \in Doc
    BY <2>1 DEF Doc
  <2> QED
    BY <1>10, <2>2 DEF UpdateDocument, Change, World
<1>11. ASSUME NEW d \in DocIds, NEW r \in Repos, NEW n \in Days, ShareToGroup(d, r, n)
       PROVE  world' \in World
  <2>1. world.docs[d] \in Doc
    BY <1>11 DEF ShareToGroup, World
  <2>2. [world.docs[d] EXCEPT !.repo = r, !.day = n] \in Doc
    BY <2>1 DEF Doc
  <2> QED
    BY <1>11, <2>2 DEF ShareToGroup, Change, World
<1>12. ASSUME NEW d \in DocIds, DeleteDocument(d)
       PROVE  world' \in World
  BY <1>12 DEF DeleteDocument, Change, World
<1>13. UNCHANGED world
          \/ ~((\E u \in Users, ask \in Asks : Begin(u, ask)) \/ ReadCharacters \/ ReadGroupIDs
                \/ ReadGroups \/ ReadShares \/ ReadDocuments \/ Respond)
  BY DEF Begin, ReadCharacters, ReadGroupIDs, ReadGroups, ReadShares, ReadDocuments, Queried,
         Respond
<1> QED
  BY <1>1, <1>2, <1>3, <1>4, <1>5, <1>6, <1>7, <1>8, <1>9, <1>10, <1>11, <1>12, <1>13 DEF Next

\* The campaign has its shape in every state.
THEOREM WorldTyped == Spec => [](world \in World)
<1>1. Init => world \in World
  BY ConstantsAssumption DEF Init
<1>2. world \in World /\ [Next]_vars => (world \in World)'
  BY ChangeTyped DEF vars
<1> QED
  BY <1>1, <1>2, PTL DEF Spec

-----------------------------------------------------------------------------
(* The furthest game day *)

\* A non-empty set of days has a latest one.
LEMMA LatestDay ==
    ASSUME NEW S \in SUBSET Days, S # {}
    PROVE  \E n \in S : \A m \in S : n >= m
<1> DEFINE T == {MaxDay - n : n \in S}
<1>1. MaxDay \in Nat
  BY ConstantsAssumption
<1>2. T \subseteq Nat /\ T # {}
  <2>1. \A n \in S : MaxDay - n \in Nat
    BY <1>1 DEF Days
  <2> QED
    BY <2>1
<1>3. PICK x \in T : \A y \in T : <<y, x>> \notin OpToRel(<, Nat)
  BY <1>2, WFMin, NatLessThanWellFounded
<1>4. \A y \in T : y >= x
  <2>1. \A y \in Nat, z \in Nat : y < z => <<y, z>> \in OpToRel(<, Nat)
    BY DEF OpToRel
  <2>2. \A y \in T : y \in Nat /\ x \in Nat /\ ~(y < x)
    BY <1>2, <1>3, <2>1
  <2> HIDE DEF T
  <2> QED
    BY <2>2
<1>5. PICK n \in S : x = MaxDay - n
  BY <1>3
<1>6. \A m \in S : MaxDay - m \in T
  OBVIOUS
<1> HIDE DEF T
<1> QED
  BY <1>1, <1>4, <1>5, <1>6 DEF Days

\* FurthestGameDay is the day of one of the characters, and of none before it.
LEMMA Furthest ==
    ASSUME NEW C \in SUBSET Characters, NEW day \in [Characters -> Days]
    PROVE  /\ C = {} => FurthestGameDay(C, day) = Never
           /\ C # {} => /\ FurthestGameDay(C, day) \in {day[c] : c \in C}
                        /\ FurthestGameDay(C, day) \in Days
           /\ \A c \in C : FurthestGameDay(C, day) >= day[c]
<1> DEFINE S == {day[c] : c \in C}
<1>1. CASE C = {}
  BY <1>1 DEF FurthestGameDay
<1>2. CASE C # {}
  <2>1. S \in SUBSET Days /\ S # {}
    BY <1>2
  <2>2. \E n \in S : \A m \in S : n >= m
    BY <2>1, LatestDay
  <2>3. FurthestGameDay(C, day) = CHOOSE n \in S : \A c \in C : n >= day[c]
    BY <1>2 DEF FurthestGameDay
  <2>4. \E n \in S : \A c \in C : n >= day[c]
    BY <2>2
  <2>5. /\ FurthestGameDay(C, day) \in S
        /\ \A c \in C : FurthestGameDay(C, day) >= day[c]
    BY <2>3, <2>4
  <2> QED
    BY <1>2, <2>1, <2>5
<1> QED
  BY <1>1, <1>2

\* Whoever reaches a day does so with one of their characters.
LEMMA FurthestReaches ==
    ASSUME NEW C \in SUBSET Characters, NEW day \in [Characters -> Days], NEW n \in Days
    PROVE  FurthestGameDay(C, day) >= n <=> \E c \in C : day[c] >= n
<1>1. CASE C = {}
  <2>1. FurthestGameDay(C, day) = Never
    BY <1>1, Furthest
  <2>2. ~(Never >= n)
    BY ConstantsAssumption DEF Never, Days
  <2> QED
    BY <1>1, <2>1, <2>2
<1>2. CASE C # {}
  <2>1. PICK c \in C : FurthestGameDay(C, day) = day[c]
    BY <1>2, Furthest
  <2>2. \A d \in C : FurthestGameDay(C, day) >= day[d] /\ day[d] \in Int
    BY Furthest, ConstantsAssumption DEF Days
  <2>3. n \in Int /\ FurthestGameDay(C, day) \in Int
    BY <2>1, <2>2, ConstantsAssumption DEF Days
  <2> QED
    BY <2>1, <2>2, <2>3
<1> QED
  BY <1>1, <1>2

\* More characters, on later days, reach no less far.
LEMMA FurthestGrows ==
    ASSUME NEW C \in SUBSET Characters, NEW E \in SUBSET Characters, C \subseteq E,
           NEW day \in [Characters -> Days], NEW later \in [Characters -> Days],
           \A c \in Characters : later[c] >= day[c],
           NEW n \in Days, FurthestGameDay(C, day) >= n
    PROVE  FurthestGameDay(E, later) >= n
<1>1. PICK c \in C : day[c] >= n
  BY FurthestReaches
<1>2. later[c] >= n
  BY <1>1, ConstantsAssumption DEF Days
<1> QED
  BY <1>1, <1>2, FurthestReaches

-----------------------------------------------------------------------------
(* The ways to a thing agree *)

\* The campaign of one moment, as the gates read it.
LEMMA NowTyped ==
    ASSUME world \in World, NEW u \in Users
    PROVE  /\ Now(u).day = world.day /\ Now(u).members = world.members
           /\ Now(u).docs = world.docs /\ Now(u).shares = world.shares
           /\ Now(u).grants = world.grants /\ Now(u).places = world.places
           /\ Now(u).groupIDs = GroupIDsForCharacters(requesterCharacters(u), world.members)
           /\ world.day \in [Characters -> Days]
           /\ world.members \in [Groups -> SUBSET Characters]
           /\ world.docs \in [DocIds -> Doc \cup {NoDoc}]
           /\ world.shares \subseteq Share /\ world.grants \subseteq Grant
           /\ world.places \in [Locations -> Days]
           /\ requesterCharacters(u) \in SUBSET Characters
BY DEF World, Now, WithGroupIDs, requesterCharacters

\* The repositories a player's list finds are those that open for the player.
LEMMA ListsWhatOpens ==
    ASSUME NEW u \in Users, NEW r \in Repos, NEW w
    PROVE  r \in RepoList(u, w) <=> RepoGet(u, r, w)
BY ConstantsAssumption
   DEF RepoList, RepoGet, ListVisible, accessible, requesterCharacters

\* ReadersAgree holds of every campaign.
LEMMA ReadersAgreeNow ==
    ASSUME world \in World
    PROVE  ReadersAgree
<1> SUFFICES ASSUME NEW u \in Users, NEW d \in DocIds, world.docs[d] # NoDoc
             PROVE  /\ getAccessible(u, d, Now(u)) <=>
                          \/ d \in ListByRepository(u, world.docs[d].repo, Now(u))
                          \/ d \in ListSharedWithMe(u, Now(u))
                    /\ d \in Search(u, Now(u)) <=>
                          /\ getAccessible(u, d, Now(u))
                          /\ \/ "visible" \in world.docs[d].text
                             \/ u \in GMs /\ "gmOnly" \in world.docs[d].text
  BY DEF ReadersAgree
<1> DEFINE w == Now(u)
           r == world.docs[d].repo
<1>1. /\ w.docs = world.docs /\ r \in Repos /\ world.docs[d].day \in Days
      /\ world.docs[d].text \subseteq {"visible", "gmOnly"}
  BY NowTyped, ConstantsAssumption DEF Doc
<1>2. r \in RepoList(u, w) <=> RepoGet(u, r, w)
  BY <1>1, ListsWhatOpens
<1>3. world.docs[d].day \in Int /\ world.docs[d].day > Never
  BY <1>1, ConstantsAssumption DEF Days, Never
<1> HIDE DEF w
<1>4. d \in ListByRepository(u, r, w) <=>
          RepoGet(u, r, w) /\ (u \in GMs \/ world.docs[d].day <= effectiveGameDay(u, r, w))
  BY <1>1 DEF ListByRepository, InRepo
<1>5. d \in ListSharedWithMe(u, w) <=> d \in reachedShares(u, w)
  BY <1>1 DEF ListSharedWithMe
<1>6. getAccessible(u, d, w) <=>
          \/ u \in GMs
          \/ RepoGet(u, r, w) /\ effectiveGameDay(u, r, w) >= world.docs[d].day
          \/ d \in reachedShares(u, w)
  BY <1>1 DEF getAccessible
<1>7. u \in GMs => RepoGet(u, r, w)
  BY DEF RepoGet
<1>8. searchGate(u, d, w) <=>
          \/ /\ RepoGet(u, r, w) /\ effectiveGameDay(u, r, w) # Never
             /\ world.docs[d].day <= effectiveGameDay(u, r, w)
          \/ d \in reachedShares(u, w)
  BY <1>1, <1>2 DEF searchGate, searchScope
<1>9. world.docs[d].day <= effectiveGameDay(u, r, w) => effectiveGameDay(u, r, w) # Never
  BY <1>3 DEF Never
<1>10. d \in Search(u, w) <=>
          /\ world.docs[d].text # {}
          /\ u \notin GMs => "visible" \in world.docs[d].text
          /\ u \in GMs \/ searchGate(u, d, w)
  BY <1>1 DEF Search, Hits
<1>11. world.docs[d].text # {} <=>
          "visible" \in world.docs[d].text \/ "gmOnly" \in world.docs[d].text
  BY <1>1
<1>12. getAccessible(u, d, w) <=>
          d \in ListByRepository(u, r, w) \/ d \in ListSharedWithMe(u, w)
  BY <1>4, <1>5, <1>6, <1>7
<1>13. d \in Search(u, w) <=>
          /\ getAccessible(u, d, w)
          /\ \/ "visible" \in world.docs[d].text
             \/ u \in GMs /\ "gmOnly" \in world.docs[d].text
  BY <1>6, <1>8, <1>9, <1>10, <1>11
<1> QED
  BY <1>12, <1>13 DEF w

\* The four ways to a document agree (documents_gating.go, search.go).
THEOREM ReadersAlwaysAgree == Spec => []ReadersAgree
BY WorldTyped, ReadersAgreeNow, PTL

-----------------------------------------------------------------------------
(* Locations *)

\* A campaign as the gates of user u read it at one moment.
Reads(u, w) ==
    /\ w.day \in [Characters -> Days]
    /\ w.members \in [Groups -> SUBSET Characters]
    /\ w.docs \in [DocIds -> Doc \cup {NoDoc}]
    /\ w.shares \subseteq Share /\ w.grants \subseteq Grant
    /\ w.places \in [Locations -> Days]
    /\ w.groupIDs = GroupIDsForCharacters(requesterCharacters(u), w.members)

LEMMA NowReads ==
    ASSUME world \in World, NEW u \in Users
    PROVE  Reads(u, Now(u))
BY NowTyped DEF Reads

\* Grant a reaches character c: it names c, or a group c is a member of.
Reaches(a, c, w) == a.to = c \/ (a.to \in Groups /\ c \in w.members[a.to])

\* The walk over one location's grants finds the characters some grant reaches.
LEMMA EligibleByGrant ==
    ASSUME NEW u \in Users, NEW w, Reads(u, w), NEW c \in Characters, NEW l \in Locations
    PROVE  characterEligible(c, l, w) <=>
               \E a \in w.grants : a.place = l /\ Reaches(a, c, w)
<1>1. \A a \in w.grants : a = [place |-> a.place, to |-> a.to]
  BY DEF Reads, Grant
<1>2. \A g \in Groups : g \in GroupIDsForCharacters({c}, w.members) <=> c \in w.members[g]
  BY DEF GroupIDsForCharacters
<1>3. GroupIDsForCharacters({c}, w.members) \subseteq Groups
  BY DEF GroupIDsForCharacters
<1>4. ASSUME characterEligible(c, l, w)
      PROVE  \E a \in w.grants : a.place = l /\ Reaches(a, c, w)
  <2>1. CASE [place |-> l, to |-> c] \in w.grants
    BY <2>1 DEF Reaches
  <2>2. ASSUME NEW g \in GroupIDsForCharacters({c}, w.members),
               [place |-> l, to |-> g] \in w.grants
        PROVE  \E a \in w.grants : a.place = l /\ Reaches(a, c, w)
    <3>1. g \in Groups /\ c \in w.members[g]
      BY <2>2, <1>2, <1>3
    <3> QED
      BY <2>2, <3>1 DEF Reaches
  <2> QED
    BY <1>4, <2>1, <2>2 DEF characterEligible
<1>5. ASSUME NEW a \in w.grants, a.place = l, Reaches(a, c, w)
      PROVE  characterEligible(c, l, w)
  <2>1. a = [place |-> l, to |-> a.to]
    BY <1>1, <1>5
  <2> QED
    BY <2>1, <1>2, <1>5 DEF characterEligible, Reaches
<1> QED
  BY <1>4, <1>5

\* The query over grants finds a location for a set of characters exactly when a
\* grant of it reaches one of them.
LEMMA AccessByGrant ==
    ASSUME NEW u \in Users, NEW w, Reads(u, w), NEW C \in SUBSET Characters,
           NEW l \in Locations
    PROVE  HasAccess(l, C, GroupIDsForCharacters(C, w.members), w) <=>
               \E c \in C, a \in w.grants : a.place = l /\ Reaches(a, c, w)
<1>1. \A g : g \in GroupIDsForCharacters(C, w.members) <=>
                 g \in Groups /\ \E c \in C : c \in w.members[g]
  BY DEF GroupIDsForCharacters
<1> QED
  BY <1>1 DEF HasAccess, Reaches

\* PlacesAgree holds of every campaign.
LEMMA PlacesAgreeNow ==
    ASSUME world \in World
    PROVE  PlacesAgree
<1> SUFFICES ASSUME NEW u \in Users \ GMs, NEW l \in Locations
             PROVE  /\ l \in LocationList(u, Now(u)) <=> LocationGet(u, l, Now(u))
                    /\ LocationGet(u, l, Now(u)) <=>
                            charactersWithAccess(requesterCharacters(u), l, Now(u)) # {}
                    /\ \A c \in requesterCharacters(u) :
                            AccessibleToCharacter(c, l, Now(u)) <=> characterEligible(c, l, Now(u))
  BY DEF PlacesAgree
<1> DEFINE w == Now(u)
           C == requesterCharacters(u)
<1>1. Reads(u, w) /\ C \in SUBSET Characters
  BY NowReads DEF requesterCharacters
<1> HIDE DEF w
<1>2. l \in LocationList(u, w) <=> LocationGet(u, l, w)
  BY DEF LocationList, LocationGet, AccessibleLocationIDs, HasAccess
<1>3. LocationGet(u, l, w) <=> \E c \in C, a \in w.grants : a.place = l /\ Reaches(a, c, w)
  <2>1. HasAccess(l, C, w.groupIDs, w) <=> \E c \in C, a \in w.grants : a.place = l /\ Reaches(a, c, w)
    BY <1>1, AccessByGrant DEF Reads
  <2> QED
    BY <2>1 DEF LocationGet
<1>4. LocationGet(u, l, w) <=> charactersWithAccess(C, l, w) # {}
  <2>1. \A c \in C : characterEligible(c, l, w) <=>
            \E a \in w.grants : a.place = l /\ Reaches(a, c, w)
    BY <1>1, EligibleByGrant
  <2> QED
    BY <1>3, <2>1 DEF charactersWithAccess
<1>5. ASSUME NEW c \in C
      PROVE  AccessibleToCharacter(c, l, w) <=> characterEligible(c, l, w)
  <2>1. HasAccess(l, {c}, GroupIDsForCharacters({c}, w.members), w) <=>
            \E a \in w.grants : a.place = l /\ Reaches(a, c, w)
    BY <1>1, AccessByGrant
  <2> QED
    BY <1>1, <2>1, EligibleByGrant DEF AccessibleToCharacter
<1> QED
  BY <1>2, <1>4, <1>5 DEF w

\* Listing, opening, describing and assigning rest on one relation (locations.go).
THEOREM PlacesAlwaysAgree == Spec => []PlacesAgree
BY WorldTyped, PlacesAgreeNow, PTL

-----------------------------------------------------------------------------
(* What is shown has been revealed *)

\* The frontier is a day, and no grant's day is beyond it.
LEMMA FrontierBounds ==
    ASSUME NEW u \in Users, NEW w, Reads(u, w), NEW l \in Locations
    PROVE  /\ FrontierGameDay(l, w) \in Days
           /\ \/ FrontierGameDay(l, w) = 0
              \/ \E a \in w.grants : a.place = l /\ FrontierGameDay(l, w) = grantFrontier(a, w)
           /\ \A a \in w.grants : a.place = l => /\ grantFrontier(a, w) \in Days
                                                 /\ FrontierGameDay(l, w) >= grantFrontier(a, w)
<1> DEFINE G == {b \in w.grants : b.place = l}
           days == {0} \cup {grantFrontier(a, w) : a \in G}
<1>1. 0 \in Days
  BY ConstantsAssumption DEF Days
<1>2. ASSUME NEW a \in G
      PROVE  grantFrontier(a, w) \in Days
  <2>1. a.to \in Characters \cup Groups
    BY DEF Reads, Grant
  <2>2. CASE a.to \in Characters
    BY <2>2 DEF grantFrontier, Reads
  <2>3. CASE a.to \in Groups /\ w.members[a.to] = {}
    BY <1>1, <2>3, ConstantsAssumption DEF grantFrontier
  <2>4. CASE a.to \in Groups /\ w.members[a.to] # {}
    <3>1. FurthestGameDay(w.members[a.to], w.day) \in Days
      BY <2>4, Furthest DEF Reads
    <3> QED
      BY <2>4, <3>1, ConstantsAssumption DEF grantFrontier
  <2> QED
    BY <2>1, <2>2, <2>3, <2>4
<1>3. days \in SUBSET Days /\ days # {}
  BY <1>1, <1>2
<1>4. \E n \in days : \A m \in days : n >= m
  BY <1>3, LatestDay
<1>5. FrontierGameDay(l, w) = CHOOSE n \in days : \A m \in days : n >= m
  BY DEF FrontierGameDay
<1>6. FrontierGameDay(l, w) \in days /\ \A m \in days : FrontierGameDay(l, w) >= m
  BY <1>4, <1>5
<1> QED
  BY <1>2, <1>3, <1>6

\* A grant's day is not before that of a character it reaches.
LEMMA ReachedByFrontier ==
    ASSUME NEW u \in Users, NEW w, Reads(u, w), NEW a \in w.grants, NEW c \in Characters,
           Reaches(a, c, w)
    PROVE  grantFrontier(a, w) >= w.day[c]
<1>1. w.day[c] \in Int
  BY ConstantsAssumption DEF Reads, Days
<1>2. CASE a.to = c
  BY <1>1, <1>2 DEF grantFrontier
<1>3. CASE a.to \in Groups /\ c \in w.members[a.to]
  <2>1. FurthestGameDay(w.members[a.to], w.day) >= w.day[c]
    BY <1>3, Furthest DEF Reads
  <2> QED
    BY <1>3, <2>1, ConstantsAssumption DEF grantFrontier
<1> QED
  BY <1>2, <1>3 DEF Reaches

\* RevealedWhenShown holds of every campaign.
LEMMA RevealedWhenShownNow ==
    ASSUME world \in World
    PROVE  RevealedWhenShown
<1> SUFFICES ASSUME NEW u \in Users \ GMs
             PROVE  /\ \A l \in Locations :
                          ShowsDescription(u, l, Now(u)) => Revealed(l, Now(u))
                    /\ \A d \in DocIds :
                          world.docs[d] # NoDoc
                            /\ d \in ListByRepository(u, world.docs[d].repo, Now(u)) =>
                          revealed(world.docs[d].repo, world.docs[d].day, Now(u))
  BY DEF RevealedWhenShown
<1> DEFINE w == Now(u)
           C == requesterCharacters(u)
<1>1. Reads(u, w) /\ C \in SUBSET Characters /\ w.docs = world.docs
  BY NowReads, NowTyped DEF requesterCharacters
<1> HIDE DEF w
<1>2. ASSUME NEW l \in Locations, ShowsDescription(u, l, w)
      PROVE  Revealed(l, w)
  <2>1. charactersWithAccess(C, l, w) \in SUBSET Characters /\ w.places[l] \in Days
    BY <1>1 DEF charactersWithAccess, Reads
  <2>2. PICK c \in charactersWithAccess(C, l, w) : w.day[c] >= w.places[l]
    BY <1>1, <1>2, <2>1, FurthestReaches DEF ShowsDescription, Reads
  <2>3. PICK a \in w.grants : a.place = l /\ Reaches(a, c, w)
    BY <1>1, <2>2, EligibleByGrant DEF charactersWithAccess
  <2>4. c \in Characters
    BY <2>1, <2>2
  <2>5. grantFrontier(a, w) >= w.day[c]
    BY <1>1, <2>3, <2>4, ReachedByFrontier
  <2>6. /\ FrontierGameDay(l, w) >= grantFrontier(a, w)
        /\ FrontierGameDay(l, w) \in Days /\ grantFrontier(a, w) \in Days
    BY <1>1, <2>3, FrontierBounds
  <2>7. w.day[c] \in Days
    BY <1>1, <2>4 DEF Reads
  <2>8. FrontierGameDay(l, w) >= w.places[l]
    BY <2>1, <2>2, <2>5, <2>6, <2>7, ConstantsAssumption DEF Days
  <2> QED
    BY <2>8 DEF Revealed
<1>3. ASSUME NEW d \in DocIds, world.docs[d] # NoDoc,
             d \in ListByRepository(u, world.docs[d].repo, w)
      PROVE  revealed(world.docs[d].repo, world.docs[d].day, w)
  <2> DEFINE r == world.docs[d].repo
             n == world.docs[d].day
             R == charactersWithRepoAccess(C, r, w)
  <2>1. r \in Repos /\ n \in Days
    BY <1>1, <1>3 DEF Reads, Doc
  <2>2. FurthestGameDay(R, w.day) >= n
    BY <1>1, <1>3 DEF ListByRepository, effectiveGameDay
  <2>3. R \in SUBSET Characters
    BY <1>1 DEF charactersWithRepoAccess
  <2>4. PICK c \in R : w.day[c] >= n
    BY <1>1, <2>1, <2>2, <2>3, FurthestReaches DEF Reads
  <2>5. c \in charactersWithRepoAccess(Characters, r, w)
    BY <1>1, <2>4 DEF charactersWithRepoAccess
  <2> QED
    BY <2>4, <2>5 DEF revealed
<1> QED
  BY <1>2, <1>3 DEF w

\* Nobody reads as a player what the revealed flag says has not come yet
\* (documents_gating.go, locations.go).
THEOREM ShownIsRevealed == Spec => []RevealedWhenShown
BY WorldTyped, RevealedWhenShownNow, PTL

-----------------------------------------------------------------------------
(* More reach never hides *)

\* Nothing of w was taken back in v: days only moved on, members, shares and
\* grants were only added, documents and locations are as they were.
Grown(w, v) ==
    /\ \A c \in Characters : v.day[c] >= w.day[c]
    /\ \A g \in Groups : w.members[g] \subseteq v.members[g]
    /\ w.shares \subseteq v.shares
    /\ w.grants \subseteq v.grants
    /\ v.docs = w.docs
    /\ v.places = w.places

LEMMA GroupsGrow ==
    ASSUME NEW u \in Users, NEW w, Reads(u, w), NEW v, Reads(u, v), Grown(w, v)
    PROVE  w.groupIDs \subseteq v.groupIDs
BY DEF Reads, Grown, GroupIDsForCharacters

LEMMA DocumentsStay ==
    ASSUME NEW u \in Users, NEW w, Reads(u, w), NEW v, Reads(u, v), Grown(w, v),
           NEW d \in DocIds, getAccessible(u, d, w)
    PROVE  getAccessible(u, d, v)
<1> DEFINE r == w.docs[d].repo
           n == w.docs[d].day
           C == requesterCharacters(u)
<1>1. v.docs = w.docs /\ w.docs[d] # NoDoc
  BY DEF Grown, getAccessible
<1>2. r \in Repos /\ n \in Days
  BY <1>1 DEF Reads, Doc
<1>3. CASE u \in GMs
  BY <1>1, <1>3 DEF getAccessible
<1>4. CASE RepoGet(u, r, w) /\ effectiveGameDay(u, r, w) >= n
  <2>1. RepoGet(u, r, v)
    BY <1>4, GroupsGrow DEF RepoGet, accessible
  <2>2. /\ charactersWithRepoAccess(C, r, w) \subseteq charactersWithRepoAccess(C, r, v)
        /\ charactersWithRepoAccess(C, r, w) \in SUBSET Characters
        /\ charactersWithRepoAccess(C, r, v) \in SUBSET Characters
    BY DEF charactersWithRepoAccess, Grown, requesterCharacters
  <2>3. effectiveGameDay(u, r, v) >= n
    BY <1>2, <1>4, <2>2, FurthestGrows DEF effectiveGameDay, Reads, Grown
  <2> QED
    BY <1>1, <2>1, <2>3 DEF getAccessible
<1>5. CASE d \in reachedShares(u, w)
  <2>1. PICK s \in w.shares : s.doc = d /\ Owner[s.to] = u /\ w.day[s.to] >= s.day
    BY <1>5 DEF reachedShares
  <2>2. s \in v.shares /\ s.to \in Characters /\ s.day \in Days
    BY <2>1 DEF Reads, Share, Grown
  <2>3. v.day[s.to] >= w.day[s.to] /\ v.day[s.to] \in Int /\ w.day[s.to] \in Int /\ s.day \in Int
    BY <2>2, ConstantsAssumption DEF Reads, Grown, Days
  <2>4. v.day[s.to] >= s.day
    BY <2>1, <2>3
  <2>5. d \in reachedShares(u, v)
    BY <2>1, <2>2, <2>4 DEF reachedShares
  <2> QED
    BY <1>1, <2>5 DEF getAccessible
<1> QED
  BY <1>3, <1>4, <1>5 DEF getAccessible

LEMMA DescriptionsStay ==
    ASSUME NEW u \in Users, NEW w, Reads(u, w), NEW v, Reads(u, v), Grown(w, v),
           NEW l \in Locations, LocationGet(u, l, w), ShowsDescription(u, l, w)
    PROVE  LocationGet(u, l, v) /\ ShowsDescription(u, l, v)
<1> DEFINE C == requesterCharacters(u)
           E(w_) == charactersWithAccess(C, l, w_)
<1>1. CASE u \in GMs
  BY <1>1 DEF LocationGet, ShowsDescription
<1>2. CASE u \notin GMs
  <2>1. LocationGet(u, l, v)
    BY <1>2, GroupsGrow DEF LocationGet, HasAccess, Grown
  <2>2. ASSUME NEW c \in C, characterEligible(c, l, w)
        PROVE  characterEligible(c, l, v)
    <3>1. c \in Characters
      BY DEF requesterCharacters
    <3>2. PICK a \in w.grants : a.place = l /\ Reaches(a, c, w)
      BY <2>2, <3>1, EligibleByGrant
    <3>3. a \in v.grants /\ Reaches(a, c, v)
      BY <3>2 DEF Grown, Reaches
    <3> QED
      BY <3>1, <3>2, <3>3, EligibleByGrant
  <2>3. E(w) \subseteq E(v) /\ E(w) \in SUBSET Characters /\ E(v) \in SUBSET Characters
    BY <2>2 DEF charactersWithAccess, requesterCharacters
  <2>4. FurthestGameDay(E(w), w.day) >= w.places[l] /\ w.places[l] \in Days
    BY <1>2 DEF ShowsDescription, Reads
  <2>5. FurthestGameDay(E(v), v.day) >= w.places[l]
    BY <2>3, <2>4, FurthestGrows DEF Reads, Grown
  <2> QED
    BY <2>1, <2>5 DEF ShowsDescription, Grown
<1> QED
  BY <1>1, <1>2

LEMMA ReachStep ==
    ASSUME world \in World, world' \in World,
           \A c \in Characters : world'.day[c] >= world.day[c],
           \A g \in Groups : world.members[g] \subseteq world'.members[g],
           world.shares \subseteq world'.shares,
           world.grants \subseteq world'.grants,
           world'.docs = world.docs, world'.places = world.places,
           NEW u \in Users
    PROVE  Sees(u) \subseteq Sees(u)'
<1> DEFINE w == Now(u)
           v == WithGroupIDs(world', u)
<1>1. v = Now(u)'
  BY DEF Now, WithGroupIDs, GroupIDsForCharacters, requesterCharacters
<1>2. Reads(u, w)
  BY NowReads
<1>3. Reads(u, v) /\ Grown(w, v)
  BY DEF Reads, Grown, World, WithGroupIDs, Now
<1>4. Sees(u) = {d \in DocIds : getAccessible(u, d, w)}
                  \cup {l \in Locations : LocationGet(u, l, w) /\ ShowsDescription(u, l, w)}
  BY DEF Sees
<1>5. Sees(u)' = {d \in DocIds : getAccessible(u, d, v)}
                  \cup {l \in Locations : LocationGet(u, l, v) /\ ShowsDescription(u, l, v)}
  BY <1>1 DEF Sees, getAccessible, RepoGet, accessible, effectiveGameDay, reachedShares,
              charactersWithRepoAccess, requesterCharacters, FurthestGameDay, LocationGet,
              HasAccess, ShowsDescription, charactersWithAccess, characterEligible,
              GroupIDsForCharacters
<1> HIDE DEF w, v
<1> QED
  BY <1>2, <1>3, <1>4, <1>5, DocumentsStay, DescriptionsStay

\* Nothing but taking back a grant, a share or a membership, setting a day back
\* or later, or moving a document hides anything (documents_gating.go, locations.go).
THEOREM ReachOnlyReveals == Spec => MoreReachNeverHides
<1>1. world \in World /\ (world \in World)' =>
        [(/\ world' # world
          /\ \A c \in Characters : world'.day[c] >= world.day[c]
          /\ \A g \in Groups : world.members[g] \subseteq world'.members[g]
          /\ world.shares \subseteq world'.shares
          /\ world.grants \subseteq world'.grants
          /\ world'.docs = world.docs
          /\ world'.places = world.places) =>
              \A u \in Users : Sees(u) \subseteq Sees(u)']_vars
  BY ReachStep
<1> QED
  BY <1>1, WorldTyped, PTL DEF MoreReachNeverHides

-----------------------------------------------------------------------------
(* The activity feed *)

\* A grant of a location reaches c exactly when c has access to it.
LEMMA AccessibleByGrant ==
    ASSUME NEW u \in Users, NEW w, Reads(u, w), NEW c \in Characters, NEW l \in Locations
    PROVE  AccessibleToCharacter(c, l, w) <=>
               \E a \in w.grants : a.place = l /\ Reaches(a, c, w)
<1>1. HasAccess(l, {c}, GroupIDsForCharacters({c}, w.members), w) <=>
          \E d \in {c}, a \in w.grants : a.place = l /\ Reaches(a, d, w)
  BY AccessByGrant
<1> QED
  BY <1>1 DEF AccessibleToCharacter

\* Character c is among those an inventory's changes concern.
Concerns(o, c, w) == IF o \in Groups THEN c \in w.members[o] ELSE AccessibleToCharacter(c, o, w)

\* What concerns a character surfaces in its feed once its day has come.
LEMMA ConcernsFeed ==
    ASSUME NEW u \in Users, NEW w, Reads(u, w), NEW o \in Groups \cup Locations,
           NEW c \in Characters, Concerns(o, c, w), NEW n, w.day[c] >= n
    PROVE  Feed(c, [scope |-> o, day |-> n], w)
<1> DEFINE groups == GroupIDsForCharacters({c}, w.members)
<1>1. CASE o \in Groups
  <2>1. o \in groups
    BY <1>1 DEF Concerns, GroupIDsForCharacters
  <2> QED
    BY <2>1 DEF Feed
<1>2. CASE o \notin Groups
  <2>1. \E a \in w.grants : a.place = o /\ a.to \in {c} \cup groups
    BY <1>2 DEF Concerns, AccessibleToCharacter, HasAccess
  <2>2. o \in AccessibleLocationIDs({c}, groups, w)
    BY <2>1 DEF AccessibleLocationIDs
  <2> QED
    BY <2>2 DEF Feed
<1> QED
  BY <1>1, <1>2

\* A feed shows only entries of inventories its player can open.
LEMMA FeedOpens ==
    ASSUME world \in World, NEW u \in Users, NEW o \in Groups \cup Locations, NEW n,
           NEW c \in Characters, Feed(c, [scope |-> o, day |-> n], Now(u))
    PROVE  requireOwnerAccess(Owner[c], o, Now(Owner[c]))
<1> DEFINE p == Owner[c]
           groups == GroupIDsForCharacters({c}, world.members)
<1>1. p \in Users /\ c \in requesterCharacters(p)
  BY ConstantsAssumption DEF requesterCharacters
<1>2. groups \subseteq Now(p).groupIDs
  BY <1>1, NowTyped DEF GroupIDsForCharacters
<1>3. /\ o \in groups \cup AccessibleLocationIDs({c}, groups, Now(u)) \cup ListVisible({c}, groups)
      /\ Now(u).grants = world.grants /\ Now(p).grants = world.grants
  BY <1>1, NowTyped DEF Feed
<1>4. o \notin ListVisible({c}, groups)
  BY ConstantsAssumption DEF ListVisible
<1>5. AccessibleLocationIDs({c}, groups, Now(u)) \subseteq Locations /\ groups \subseteq Groups
  BY <1>3 DEF AccessibleLocationIDs, GroupIDsForCharacters, World, Grant
<1>6. CASE o \in Groups
  BY <1>2, <1>3, <1>4, <1>5, <1>6, ConstantsAssumption DEF requireOwnerAccess
<1>7. CASE o \in Locations
  <2>1. o \notin Groups
    BY <1>7, ConstantsAssumption
  <2>2. o \in AccessibleLocationIDs({c}, groups, Now(u))
    BY <1>3, <1>4, <1>5, <2>1
  <2>3. HasAccess(o, requesterCharacters(p), Now(p).groupIDs, Now(p))
    BY <1>1, <1>2, <1>3, <2>2 DEF AccessibleLocationIDs, HasAccess
  <2> QED
    BY <2>1, <2>3 DEF requireOwnerAccess, LocationGet
<1> QED
  BY <1>6, <1>7

\* A GM's entry is stamped with the day of the furthest of those it concerns.
LEMMA GMEntrySurfaces ==
    ASSUME world \in World, NEW u \in GMs, NEW o \in Groups \cup Locations,
           NEW d \in Characters, Concerns(o, d, Now(u))
    PROVE  \E c \in Characters : /\ Concerns(o, c, Now(u))
                                 /\ Now(u).day[c] >= stamp(u, o, Now(u))
<1> DEFINE w == Now(u)
<1>1. u \in Users /\ Reads(u, w)
  BY NowReads, ConstantsAssumption
<1> HIDE DEF w
<1>2. \A c \in Characters : w.day[c] \in Days
  BY <1>1 DEF Reads
<1>3. CASE o \in Groups
  <2>1. w.members[o] \in SUBSET Characters /\ d \in w.members[o]
    BY <1>1, <1>3 DEF Reads, Concerns, w
  <2>2. stamp(u, o, w) = FurthestGameDay(w.members[o], w.day)
    BY <1>3, <2>1 DEF stamp, groupFrontier
  <2>3. PICK c \in w.members[o] : stamp(u, o, w) = w.day[c]
    BY <1>1, <2>1, <2>2, Furthest DEF Reads
  <2>4. c \in Characters /\ Concerns(o, c, w) /\ w.day[c] >= stamp(u, o, w)
    BY <1>2, <1>3, <2>1, <2>3, ConstantsAssumption DEF Concerns, Days
  <2> QED
    BY <2>4 DEF w
<1>4. CASE o \notin Groups
  <2>1. o \in Locations /\ stamp(u, o, w) = FrontierGameDay(o, w)
    BY <1>4 DEF stamp
  <2>2. CASE FrontierGameDay(o, w) = 0
    <3>1. w.day[d] >= 0
      BY <1>2, ConstantsAssumption DEF Days
    <3> QED
      BY <2>1, <2>2, <3>1 DEF w
  <2>3. ASSUME NEW a \in w.grants, a.place = o, FrontierGameDay(o, w) = grantFrontier(a, w),
               FrontierGameDay(o, w) # 0
        PROVE  \E c \in Characters : Concerns(o, c, w) /\ w.day[c] >= stamp(u, o, w)
    <3>1. \E c \in Characters : Reaches(a, c, w) /\ w.day[c] = grantFrontier(a, w)
      <4>1. a.to \in Characters \cup Groups
        BY <1>1 DEF Reads, Grant
      <4>2. CASE a.to \in Characters
        BY <4>2 DEF Reaches, grantFrontier
      <4>3. CASE a.to \in Groups
        <5>1. w.members[a.to] # {} /\ grantFrontier(a, w) = FurthestGameDay(w.members[a.to], w.day)
          BY <2>3, <4>3, ConstantsAssumption DEF grantFrontier
        <5>2. w.members[a.to] \in SUBSET Characters
          BY <1>1, <4>3 DEF Reads
        <5>3. PICK c \in w.members[a.to] : w.day[c] = grantFrontier(a, w)
          BY <1>1, <5>1, <5>2, Furthest DEF Reads
        <5> QED
          BY <4>3, <5>2, <5>3 DEF Reaches
      <4> QED
        BY <4>1, <4>2, <4>3
    <3>2. PICK c \in Characters : Reaches(a, c, w) /\ w.day[c] = grantFrontier(a, w)
      BY <3>1
    <3>3. AccessibleToCharacter(c, o, w)
      BY <1>1, <2>1, <2>3, <3>2, AccessibleByGrant
    <3>4. w.day[c] >= stamp(u, o, w)
      BY <1>2, <2>1, <2>3, <3>2, ConstantsAssumption DEF Days
    <3> QED
      BY <1>4, <3>3, <3>4 DEF Concerns
  <2> QED
    BY <1>1, <2>1, <2>2, <2>3, FrontierBounds DEF w
<1> QED
  BY <1>3, <1>4

\* A player's entry is stamped with the day of one of their own characters.
LEMMA PlayerEntrySurfaces ==
    ASSUME world \in World, NEW u \in Users \ GMs, NEW o \in Groups \cup Locations,
           requireOwnerAccess(u, o, Now(u))
    PROVE  \E c \in requesterCharacters(u) : /\ Concerns(o, c, Now(u))
                                             /\ Now(u).day[c] >= stamp(u, o, Now(u))
<1> DEFINE w == Now(u)
           C == requesterCharacters(u)
           mine == {c \in C : IF o \in Groups THEN c \in w.members[o]
                                              ELSE AccessibleToCharacter(c, o, w)}
<1>1. Reads(u, w) /\ C \in SUBSET Characters /\ mine \in SUBSET Characters
  BY NowReads DEF requesterCharacters
<1>2. mine # {}
  <2>1. CASE o \in Groups
    <3>1. o \in w.groupIDs
      BY <2>1 DEF requireOwnerAccess
    <3>2. \E c \in C : c \in w.members[o]
      BY <1>1, <3>1 DEF Reads, GroupIDsForCharacters
    <3> QED
      BY <2>1, <3>2
  <2>2. CASE o \notin Groups
    <3>1. o \in Locations /\ HasAccess(o, C, w.groupIDs, w)
      BY <2>2 DEF requireOwnerAccess, LocationGet
    <3>2. HasAccess(o, C, GroupIDsForCharacters(C, w.members), w)
      BY <1>1, <3>1 DEF Reads
    <3>3. PICK c \in C, a \in w.grants : a.place = o /\ Reaches(a, c, w)
      BY <1>1, <3>1, <3>2, AccessByGrant
    <3>4. AccessibleToCharacter(c, o, w)
      BY <1>1, <3>1, <3>3, AccessibleByGrant
    <3> QED
      BY <2>2, <3>4
  <2> QED
    BY <2>1, <2>2
<1>3. stamp(u, o, w) = FurthestGameDay(mine, w.day)
  BY <1>2 DEF stamp
<1>4. PICK c \in mine : stamp(u, o, w) = w.day[c]
  <2>1. w.day \in [Characters -> Days]
    BY <1>1 DEF Reads
  <2> HIDE DEF mine, w
  <2>2. FurthestGameDay(mine, w.day) \in {w.day[c] : c \in mine}
    BY <1>1, <1>2, <2>1, Furthest
  <2> QED
    BY <1>3, <2>2
<1>5. w.day[c] >= stamp(u, o, w)
  BY <1>1, <1>4, ConstantsAssumption DEF Reads, Days
<1> QED
  BY <1>4, <1>5 DEF Concerns

\* EntriesSurface holds of every campaign.
LEMMA EntriesSurfaceNow ==
    ASSUME world \in World
    PROVE  EntriesSurface
<1> DEFINE entry(u, o) == [scope |-> o, day |-> stamp(u, o, Now(u))]
           those(u, o) == IF u \in GMs
                          THEN {c \in Characters :
                                   IF o \in Groups THEN c \in world.members[o]
                                   ELSE AccessibleToCharacter(c, o, Now(u))}
                          ELSE requesterCharacters(u)
<1>1. ASSUME NEW u \in Users, NEW o \in Groups \cup Locations,
             requireOwnerAccess(u, o, Now(u)), those(u, o) # {}
      PROVE  \E c \in those(u, o) : Feed(c, entry(u, o), Now(u))
  <2>1. Reads(u, Now(u)) /\ Now(u).members = world.members
    BY NowReads, NowTyped
  <2>2. PICK c \in those(u, o) : /\ c \in Characters /\ Concerns(o, c, Now(u))
                                 /\ Now(u).day[c] >= stamp(u, o, Now(u))
    <3>1. CASE u \in GMs
      <4>1. PICK d \in Characters : Concerns(o, d, Now(u))
        BY <1>1, <2>1, <3>1 DEF Concerns
      <4>2. PICK c \in Characters : /\ Concerns(o, c, Now(u))
                                    /\ Now(u).day[c] >= stamp(u, o, Now(u))
        BY <3>1, <4>1, GMEntrySurfaces
      <4>3. c \in those(u, o)
        BY <2>1, <3>1, <4>2 DEF Concerns
      <4> QED
        BY <4>2, <4>3
    <3>2. CASE u \notin GMs
      BY <1>1, <3>2, PlayerEntrySurfaces DEF requesterCharacters
    <3> QED
      BY <3>1, <3>2
  <2>3. Feed(c, [scope |-> o, day |-> stamp(u, o, Now(u))], Now(u))
    BY <2>1, <2>2, ConcernsFeed
  <2> QED
    BY <2>3
<1>2. ASSUME NEW u \in Users, NEW o \in Groups \cup Locations, NEW c \in Characters,
             Feed(c, entry(u, o), Now(u))
      PROVE  requireOwnerAccess(Owner[c], o, Now(Owner[c]))
  BY <1>2, FeedOpens
<1> QED
  BY <1>1, <1>2 DEF EntriesSurface

\* Every entry reaches a feed it was meant for, and no other
\* (inventory_activity.go, activity.go).
THEOREM EntriesAlwaysSurface == Spec => []EntriesSurface
BY WorldTyped, EntriesSurfaceNow, PTL

-----------------------------------------------------------------------------
(* What an answer rests on *)

\* Repository r opens for player u, with a character that has reached day n.
Shown(u, r, n, w) == accessible(u, r, w) /\ effectiveGameDay(u, r, w) >= n

\* A player's answers follow from the rows of the documents, from what is shown
\* of each repository and from the shares that reach the player.
LEMMA AnswersByShown ==
    ASSUME NEW u \in Users \ GMs, NEW w, w.docs \in [DocIds -> Doc \cup {NoDoc}],
           NEW d \in DocIds, w.docs[d] # NoDoc
    PROVE  /\ getAccessible(u, d, w) <=>
                  \/ Shown(u, w.docs[d].repo, w.docs[d].day, w)
                  \/ d \in reachedShares(u, w)
           /\ \A r \in Repos : d \in ListByRepository(u, r, w) <=>
                  w.docs[d].repo = r /\ Shown(u, r, w.docs[d].day, w)
           /\ d \in Search(u, w) <=>
                  /\ "visible" \in w.docs[d].text
                  /\ \/ Shown(u, w.docs[d].repo, w.docs[d].day, w)
                     \/ d \in reachedShares(u, w)
           /\ d \in ListSharedWithMe(u, w) <=> d \in reachedShares(u, w)
<1> DEFINE r == w.docs[d].repo
           n == w.docs[d].day
<1>1. r \in Repos /\ n \in Days
  BY DEF Doc
<1>2. \A q \in Repos : RepoGet(u, q, w) <=> accessible(u, q, w)
  BY DEF RepoGet
<1>3. r \in RepoList(u, w) <=> accessible(u, r, w)
  BY <1>1, <1>2, ListsWhatOpens
<1>4. effectiveGameDay(u, r, w) >= n => effectiveGameDay(u, r, w) # Never
  <2>1. n \in Nat
    BY <1>1, ConstantsAssumption DEF Days
  <2>2. ~(Never >= n)
    BY <2>1 DEF Never
  <2> QED
    BY <2>2
<1>5. \A q \in Repos : n <= effectiveGameDay(u, q, w) <=> effectiveGameDay(u, q, w) >= n
  OBVIOUS
<1>6. getAccessible(u, d, w) <=> Shown(u, r, n, w) \/ d \in reachedShares(u, w)
  BY <1>1, <1>2 DEF getAccessible, Shown
<1>7. \A q \in Repos : d \in ListByRepository(u, q, w) <=> r = q /\ Shown(u, q, n, w)
  BY <1>1, <1>2, <1>5 DEF ListByRepository, InRepo, Shown
<1>8. searchGate(u, d, w) <=> Shown(u, r, n, w) \/ d \in reachedShares(u, w)
  BY <1>1, <1>3, <1>4, <1>5 DEF searchGate, searchScope, Shown
<1>9. d \in Search(u, w) <=>
        "visible" \in w.docs[d].text /\ (Shown(u, r, n, w) \/ d \in reachedShares(u, w))
  BY <1>8 DEF Search, Hits
<1>10. d \in ListSharedWithMe(u, w) <=> d \in reachedShares(u, w)
  BY DEF ListSharedWithMe
<1> QED
  BY <1>6, <1>7, <1>9, <1>10

\* Answers name documents that exist.
LEMMA AnswersExist ==
    ASSUME NEW u \in Users \ GMs, NEW ask \in Asks, NEW w,
           NEW d \in Answer(u, ask, w), w.shares \subseteq Share
    PROVE  d \in DocIds /\ w.docs[d] # NoDoc
<1>1. \A s \in w.shares : s.doc \in DocIds
  BY DEF Share
<1>2. CASE ask.kind = "get"
  BY <1>2 DEF Asks, Answer, getAccessible
<1>3. CASE ask.kind = "list"
  BY <1>3 DEF Asks, Answer, ListByRepository, InRepo
<1>4. CASE ask.kind = "search"
  BY <1>4 DEF Asks, Answer, Search, Hits
<1>5. CASE ask.kind = "shared"
  BY <1>1, <1>5 DEF Asks, Answer, ListSharedWithMe, reachedShares
<1> QED
  BY <1>2, <1>3, <1>4, <1>5 DEF Asks

\* Two sets of rows with the same documents that show the same of every
\* repository and reach the same shares give the same answers.
LEMMA AnswersAlike ==
    ASSUME NEW u \in Users \ GMs, NEW ask \in Asks, NEW v, NEW w,
           v.docs = w.docs, w.docs \in [DocIds -> Doc \cup {NoDoc}],
           v.shares \subseteq Share, w.shares \subseteq Share,
           reachedShares(u, v) = reachedShares(u, w),
           \A r \in Repos, n \in Days : Shown(u, r, n, v) <=> Shown(u, r, n, w)
    PROVE  Answer(u, ask, v) = Answer(u, ask, w)
<1>1. ASSUME NEW d \in DocIds, w.docs[d] # NoDoc
      PROVE  d \in Answer(u, ask, v) <=> d \in Answer(u, ask, w)
  <2> DEFINE r == w.docs[d].repo
             n == w.docs[d].day
  <2>1. r \in Repos /\ n \in Days /\ v.docs[d] = w.docs[d]
    BY <1>1 DEF Doc
  <2>2. Shown(u, r, n, v) <=> Shown(u, r, n, w)
    BY <2>1
  <2>3. /\ getAccessible(u, d, v) <=> Shown(u, r, n, v) \/ d \in reachedShares(u, v)
        /\ \A q \in Repos : d \in ListByRepository(u, q, v) <=> r = q /\ Shown(u, q, n, v)
        /\ d \in Search(u, v) <=>
              "visible" \in w.docs[d].text /\ (Shown(u, r, n, v) \/ d \in reachedShares(u, v))
        /\ d \in ListSharedWithMe(u, v) <=> d \in reachedShares(u, v)
    BY <1>1, <2>1, AnswersByShown
  <2>4. /\ getAccessible(u, d, w) <=> Shown(u, r, n, w) \/ d \in reachedShares(u, w)
        /\ \A q \in Repos : d \in ListByRepository(u, q, w) <=> r = q /\ Shown(u, q, n, w)
        /\ d \in Search(u, w) <=>
              "visible" \in w.docs[d].text /\ (Shown(u, r, n, w) \/ d \in reachedShares(u, w))
        /\ d \in ListSharedWithMe(u, w) <=> d \in reachedShares(u, w)
    BY <1>1, AnswersByShown
  <2> HIDE DEF r, n
  <2>5. CASE ask.kind = "get"
    BY <2>2, <2>3, <2>4, <2>5 DEF Answer
  <2>6. CASE ask.kind = "list"
    <3>1. ask.of \in Repos
      BY <2>6 DEF Asks
    <3> QED
      BY <2>2, <2>3, <2>4, <2>6, <3>1 DEF Answer
  <2>7. CASE ask.kind = "search"
    BY <2>2, <2>3, <2>4, <2>7 DEF Answer
  <2>8. CASE ask.kind = "shared"
    BY <2>2, <2>3, <2>4, <2>8 DEF Answer
  <2> QED
    BY <2>5, <2>6, <2>7, <2>8 DEF Asks
<1>2. /\ \A d \in Answer(u, ask, v) : d \in DocIds /\ w.docs[d] # NoDoc
      /\ \A d \in Answer(u, ask, w) : d \in DocIds /\ w.docs[d] # NoDoc
  BY AnswersExist
<1> QED
  BY <1>1, <1>2

\* In particular two sets of rows that are the same.
LEMMA AnswersSame ==
    ASSUME NEW u \in Users \ GMs, NEW ask \in Asks, NEW v, NEW w,
           v.docs = w.docs, v.day = w.day, v.shares = w.shares, v.members = w.members,
           v.groupIDs = w.groupIDs,
           w.docs \in [DocIds -> Doc \cup {NoDoc}], w.shares \subseteq Share
    PROVE  Answer(u, ask, v) = Answer(u, ask, w)
<1>1. reachedShares(u, v) = reachedShares(u, w)
  BY DEF reachedShares
<1>2. \A r \in Repos, n \in Days : Shown(u, r, n, v) <=> Shown(u, r, n, w)
  BY DEF Shown, accessible, effectiveGameDay, charactersWithRepoAccess
<1> QED
  BY <1>1, <1>2, AnswersAlike

-----------------------------------------------------------------------------
(* Rows read on both sides of one change *)

\* One change leads from campaign a to campaign b: it moved days, wrote shares or
\* documents, let one character join or leave a group, or touched nothing that
\* an answer about documents reads.
OneChange(a, b) ==
    \/ /\ b.members = a.members /\ b.docs = a.docs /\ b.shares = a.shares
    \/ /\ b.members = a.members /\ b.docs = a.docs /\ b.day = a.day
    \/ /\ b.members = a.members /\ b.day = a.day /\ b.shares = a.shares
    \/ /\ b.day = a.day /\ b.docs = a.docs /\ b.shares = a.shares
       /\ \E g \in Groups, c \in Characters :
            b.members \in {[a.members EXCEPT ![g] = @ \cup {c}], [a.members EXCEPT ![g] = @ \ {c}]}

GroupIDsOf(u, w) == GroupIDsForCharacters(requesterCharacters(u), w.members)

\* What a request of u gathered from a and b, the members it read no earlier
\* than the ids of the groups.
GatheredFrom(u, v, a, b) ==
    /\ v.docs \in {a.docs, b.docs} /\ v.day \in {a.day, b.day}
    /\ v.shares \in {a.shares, b.shares}
    /\ v.groupIDs \in {GroupIDsOf(u, a), GroupIDsOf(u, b)}
    /\ \/ v.members = b.members
       \/ v.members = a.members /\ v.groupIDs = GroupIDsOf(u, a)

\* Group ids of before and members of after a join or leave: an answer of before
\* when it was the first of the player's characters that joined, else of after.
LEMMA IdsBeforeMembersAfter ==
    ASSUME NEW u \in Users \ GMs, NEW ask \in Asks, NEW a \in World, NEW b \in World,
           b.day = a.day, b.docs = a.docs, b.shares = a.shares,
           NEW g \in Groups, \A h \in Groups \ {g} : b.members[h] = a.members[h],
           NEW v, v.docs = a.docs, v.day = a.day, v.shares = a.shares,
           v.groupIDs = GroupIDsOf(u, a), v.members = b.members
    PROVE  Answer(u, ask, v) \in {Answer(u, ask, WithGroupIDs(a, u)),
                                  Answer(u, ask, WithGroupIDs(b, u))}
<1> DEFINE C == requesterCharacters(u)
           x == WithGroupIDs(a, u)
           y == WithGroupIDs(b, u)
<1>1. /\ x.docs = a.docs /\ x.day = a.day /\ x.shares = a.shares /\ x.members = a.members
      /\ y.docs = b.docs /\ y.day = b.day /\ y.shares = b.shares /\ y.members = b.members
      /\ x.groupIDs = GroupIDsOf(u, a) /\ y.groupIDs = GroupIDsOf(u, b)
  BY DEF WithGroupIDs, GroupIDsOf
<1>2. a.docs \in [DocIds -> Doc \cup {NoDoc}] /\ a.shares \subseteq Share
  BY DEF World
<1> HIDE DEF x, y
<1>3. /\ reachedShares(u, v) = reachedShares(u, x)
      /\ reachedShares(u, v) = reachedShares(u, y)
  BY <1>1 DEF reachedShares
<1>4. \A h \in Groups : /\ h \in v.groupIDs <=> a.members[h] \cap C # {}
                        /\ h \in y.groupIDs <=> b.members[h] \cap C # {}
                        /\ h \in x.groupIDs <=> a.members[h] \cap C # {}
  BY <1>1 DEF GroupIDsOf, GroupIDsForCharacters
<1>5. \A r \in Repos : Owning[r] \in Groups \cup Characters \cup {Campaign}
  BY ConstantsAssumption
<1>6. \A h \in Groups : h \notin Characters /\ h # Campaign
  BY ConstantsAssumption
<1>7. ASSUME NEW r \in Repos, NEW n \in Days, Owning[r] # g
      PROVE  (Shown(u, r, n, v) <=> Shown(u, r, n, x)) /\ (Shown(u, r, n, v) <=> Shown(u, r, n, y))
  <2>1. /\ v.groupIDs \subseteq Groups /\ x.groupIDs \subseteq Groups /\ y.groupIDs \subseteq Groups
    BY <1>1 DEF GroupIDsOf, GroupIDsForCharacters
  <2>2. Owning[r] \in Groups => a.members[Owning[r]] = b.members[Owning[r]]
    BY <1>7
  <2>3. /\ accessible(u, r, v) <=> accessible(u, r, x)
        /\ accessible(u, r, v) <=> accessible(u, r, y)
    BY <1>4, <2>1, <2>2 DEF accessible
  <2>4. /\ charactersWithRepoAccess(C, r, v) = charactersWithRepoAccess(C, r, x)
        /\ charactersWithRepoAccess(C, r, v) = charactersWithRepoAccess(C, r, y)
    BY <1>1, <2>2 DEF charactersWithRepoAccess
  <2> QED
    BY <1>1, <2>3, <2>4 DEF Shown, effectiveGameDay
<1>8. ASSUME NEW r \in Repos, NEW n \in Days, Owning[r] = g, NEW w, w.members = b.members,
             b.members[g] \cap C = {}
      PROVE  ~Shown(u, r, n, w)
  <2>1. charactersWithRepoAccess(C, r, w) = {}
    BY <1>6, <1>8 DEF charactersWithRepoAccess, requesterCharacters
  <2>2. effectiveGameDay(u, r, w) = Never
    BY <2>1 DEF effectiveGameDay, FurthestGameDay
  <2>3. ~(Never >= n)
    BY ConstantsAssumption DEF Never, Days
  <2> QED
    BY <2>2, <2>3 DEF Shown
<1>9. ASSUME NEW r \in Repos, NEW n \in Days, NEW w, Owning[r] = g, g \notin w.groupIDs
      PROVE  ~Shown(u, r, n, w)
  BY <1>6, <1>9 DEF Shown, accessible
<1>10. CASE b.members[g] \cap C = {}
  <2>1. \A r \in Repos, n \in Days : Shown(u, r, n, v) <=> Shown(u, r, n, y)
    BY <1>1, <1>7, <1>8, <1>10
  <2>2. Answer(u, ask, v) = Answer(u, ask, y)
    BY <1>1, <1>2, <1>3, <2>1, AnswersAlike
  <2> QED
    BY <2>2 DEF y
<1>11. CASE a.members[g] \cap C = {}
  <2>1. g \notin v.groupIDs /\ g \notin x.groupIDs
    BY <1>4, <1>11
  <2>2. \A r \in Repos, n \in Days : Shown(u, r, n, v) <=> Shown(u, r, n, x)
    BY <1>7, <1>9, <2>1
  <2>3. v.docs = x.docs /\ x.docs \in [DocIds -> Doc \cup {NoDoc}]
    BY <1>1, <1>2
  <2>4. v.shares \subseteq Share /\ x.shares \subseteq Share
    BY <1>1, <1>2
  <2> HIDE DEF C
  <2>5. Answer(u, ask, v) = Answer(u, ask, x)
    BY <1>3, <2>2, <2>3, <2>4, AnswersAlike
  <2> QED
    BY <2>5 DEF x
<1>12. CASE a.members[g] \cap C # {} /\ b.members[g] \cap C # {}
  <2>1. v.groupIDs = y.groupIDs
    <3>1. \A h \in Groups : h \in v.groupIDs <=> h \in y.groupIDs
      BY <1>4, <1>12
    <3>2. v.groupIDs \subseteq Groups /\ y.groupIDs \subseteq Groups
      BY <1>1 DEF GroupIDsOf, GroupIDsForCharacters
    <3> QED
      BY <3>1, <3>2
  <2>2. Answer(u, ask, v) = Answer(u, ask, y)
    BY <1>1, <1>2, <2>1, AnswersSame
  <2> QED
    BY <2>2 DEF y
<1> QED
  BY <1>10, <1>11, <1>12

\* Rows from both sides of one change give an answer of before or of after it.
LEMMA OneMoment ==
    ASSUME NEW u \in Users \ GMs, NEW ask \in Asks, NEW a \in World, NEW b \in World,
           OneChange(a, b), NEW v, GatheredFrom(u, v, a, b)
    PROVE  Answer(u, ask, v) \in {Answer(u, ask, WithGroupIDs(a, u)),
                                  Answer(u, ask, WithGroupIDs(b, u))}
<1> DEFINE x == WithGroupIDs(a, u)
           y == WithGroupIDs(b, u)
<1>1. /\ x.docs = a.docs /\ x.day = a.day /\ x.shares = a.shares /\ x.members = a.members
      /\ y.docs = b.docs /\ y.day = b.day /\ y.shares = b.shares /\ y.members = b.members
      /\ x.groupIDs = GroupIDsOf(u, a) /\ y.groupIDs = GroupIDsOf(u, b)
  BY DEF WithGroupIDs, GroupIDsOf
<1>2. /\ a.docs \in [DocIds -> Doc \cup {NoDoc}] /\ a.shares \subseteq Share
      /\ b.docs \in [DocIds -> Doc \cup {NoDoc}] /\ b.shares \subseteq Share
  BY DEF World
<1>3. b.members = a.members => GroupIDsOf(u, a) = GroupIDsOf(u, b)
  BY DEF GroupIDsOf
<1> HIDE DEF x, y
<1>4. CASE /\ v.docs = x.docs /\ v.day = x.day /\ v.shares = x.shares
           /\ v.members = x.members /\ v.groupIDs = x.groupIDs
  <2>1. Answer(u, ask, v) = Answer(u, ask, x)
    BY <1>1, <1>2, <1>4, AnswersSame
  <2> QED
    BY <2>1 DEF x
<1>5. CASE /\ v.docs = y.docs /\ v.day = y.day /\ v.shares = y.shares
           /\ v.members = y.members /\ v.groupIDs = y.groupIDs
  <2>1. Answer(u, ask, v) = Answer(u, ask, y)
    BY <1>1, <1>2, <1>5, AnswersSame
  <2> QED
    BY <2>1 DEF y
<1>6. CASE b.members = a.members
  BY <1>1, <1>3, <1>4, <1>5, <1>6 DEF OneChange, GatheredFrom
<1>7. CASE b.members # a.members
  <2>1. b.day = a.day /\ b.docs = a.docs /\ b.shares = a.shares
    BY <1>7 DEF OneChange
  <2>2. PICK g \in Groups, c \in Characters :
          b.members \in {[a.members EXCEPT ![g] = @ \cup {c}], [a.members EXCEPT ![g] = @ \ {c}]}
    BY <1>7 DEF OneChange
  <2>3. \A h \in Groups \ {g} : b.members[h] = a.members[h]
    BY <2>2 DEF World
  <2>4. CASE v.groupIDs = GroupIDsOf(u, a) /\ v.members = b.members
    BY <2>1, <2>3, <2>4, IdsBeforeMembersAfter DEF GatheredFrom
  <2> QED
    BY <1>1, <1>4, <1>5, <2>1, <2>4 DEF GatheredFrom
<1> QED
  BY <1>6, <1>7

-----------------------------------------------------------------------------
(* The queries of a request *)

\* Request rq has run query q.
HasRun(rq, q) == \E i \in 1 .. rq.done : Queries(rq.ask.kind)[i] = q

\* Every query is run once, and the members after the ids of the groups.
LEMMA QueriesOnce ==
    ASSUME NEW kind \in {"get", "list", "search", "shared"}
    PROVE  /\ \A i, j \in 1 .. 5 : Queries(kind)[i] = Queries(kind)[j] => i = j
           /\ \A q \in {"documents", "characters", "groupIDs", "groups", "shares"} :
                 \E i \in 1 .. 5 : Queries(kind)[i] = q
           /\ \A j \in 1 .. 5 : Queries(kind)[j] = "groups" =>
                 \E i \in 1 .. 5 : Queries(kind)[i] = "groupIDs" /\ i < j
<1> DEFINE Q == Queries(kind)
<1>1. CASE kind = "get"
  <2>1. Q[1] = "documents" /\ Q[2] = "characters" /\ Q[3] = "groupIDs" /\ Q[4] = "groups" /\ Q[5] = "shares"
    BY <1>1 DEF Queries
  <2> HIDE DEF Q
  <2>2. \A i \in 1 .. 5 : i = 1 \/ i = 2 \/ i = 3 \/ i = 4 \/ i = 5
    OBVIOUS
  <2>3. \A i, j \in 1 .. 5 : Q[i] = Q[j] => i = j
    BY <2>1, <2>2
  <2>4. \A q \in {"documents", "characters", "groupIDs", "groups", "shares"} :
          \E i \in 1 .. 5 : Q[i] = q
    BY <2>1
  <2>5. \A j \in 1 .. 5 : Q[j] = "groups" => \E i \in 1 .. 5 : Q[i] = "groupIDs" /\ i < j
    BY <2>1, <2>2
  <2> QED
    BY <2>3, <2>4, <2>5 DEF Q
<1>2. CASE kind = "list"
  <2>1. Q[1] = "characters" /\ Q[2] = "groupIDs" /\ Q[3] = "documents" /\ Q[4] = "groups" /\ Q[5] = "shares"
    BY <1>2 DEF Queries
  <2> HIDE DEF Q
  <2>2. \A i \in 1 .. 5 : i = 1 \/ i = 2 \/ i = 3 \/ i = 4 \/ i = 5
    OBVIOUS
  <2>3. \A i, j \in 1 .. 5 : Q[i] = Q[j] => i = j
    BY <2>1, <2>2
  <2>4. \A q \in {"documents", "characters", "groupIDs", "groups", "shares"} :
          \E i \in 1 .. 5 : Q[i] = q
    BY <2>1
  <2>5. \A j \in 1 .. 5 : Q[j] = "groups" => \E i \in 1 .. 5 : Q[i] = "groupIDs" /\ i < j
    BY <2>1, <2>2
  <2> QED
    BY <2>3, <2>4, <2>5 DEF Q
<1>3. CASE kind \in {"search", "shared"}
  <2>1. Q[1] = "characters" /\ Q[2] = "groupIDs" /\ Q[3] = "groups" /\ Q[4] = "shares" /\ Q[5] = "documents"
    BY <1>3 DEF Queries
  <2> HIDE DEF Q
  <2>2. \A i \in 1 .. 5 : i = 1 \/ i = 2 \/ i = 3 \/ i = 4 \/ i = 5
    OBVIOUS
  <2>3. \A i, j \in 1 .. 5 : Q[i] = Q[j] => i = j
    BY <2>1, <2>2
  <2>4. \A q \in {"documents", "characters", "groupIDs", "groups", "shares"} :
          \E i \in 1 .. 5 : Q[i] = q
    BY <2>1
  <2>5. \A j \in 1 .. 5 : Q[j] = "groups" => \E i \in 1 .. 5 : Q[i] = "groupIDs" /\ i < j
    BY <2>1, <2>2
  <2> QED
    BY <2>3, <2>4, <2>5 DEF Q
<1> QED
  BY <1>1, <1>2, <1>3

LEMMA KindOfRequest ==
    ASSUME NEW rq \in Request
    PROVE  rq.ask.kind \in {"get", "list", "search", "shared"} /\ rq.done \in 0 .. 5
BY DEF Request, Asks

\* The next query of a request has not been run before, and is then the only new one.
LEMMA NextQuery ==
    ASSUME NEW rq \in Request, rq.done < 5, NEW q, Queries(rq.ask.kind)[rq.done + 1] = q,
           NEW rr, rr.ask = rq.ask, rr.done = rq.done + 1
    PROVE  /\ ~HasRun(rq, q)
           /\ \A p : HasRun(rr, p) <=> HasRun(rq, p) \/ p = q
           /\ q = "groupIDs" => ~HasRun(rq, "groups")
<1> DEFINE Q == Queries(rq.ask.kind)
           n == rq.done
<1>1. n \in 0 .. 4
  BY KindOfRequest
<1>2. /\ \A i, j \in 1 .. 5 : Q[i] = Q[j] => i = j
      /\ \A j \in 1 .. 5 : Q[j] = "groups" =>
            \E i \in 1 .. 5 : Q[i] = "groupIDs" /\ i < j
  BY KindOfRequest, QueriesOnce
<1>3. /\ \A p : HasRun(rq, p) <=> \E i \in 1 .. n : Q[i] = p
      /\ \A p : HasRun(rr, p) <=> \E i \in 1 .. (n + 1) : Q[i] = p
      /\ Q[n + 1] = q
  BY DEF HasRun
<1> HIDE DEF Q, n
<1>4. ~\E i \in 1 .. n : Q[i] = q
  BY <1>1, <1>2, <1>3
<1>5. \A i : i \in 1 .. (n + 1) <=> i \in 1 .. n \/ i = n + 1
  BY <1>1
<1>6. ASSUME q = "groupIDs", NEW j \in 1 .. n, Q[j] = "groups"
      PROVE  FALSE
  <2>1. j \in 1 .. 5 /\ n + 1 \in 1 .. 5 /\ j < n + 1
    BY <1>1
  <2>2. PICK i \in 1 .. 5 : Q[i] = "groupIDs" /\ i < j
    BY <1>2, <1>6, <2>1
  <2>3. i = n + 1
    BY <1>2, <1>3, <1>6, <2>1, <2>2
  <2> QED
    BY <2>1, <2>2, <2>3
<1> QED
  BY <1>3, <1>4, <1>5, <1>6

\* Once the members are read the ids of the groups are, and in the end all is.
LEMMA QueriesDone ==
    ASSUME NEW rq \in Request
    PROVE  /\ HasRun(rq, "groups") => HasRun(rq, "groupIDs")
           /\ rq.done = 5 => \A q \in {"documents", "characters", "groupIDs", "groups", "shares"} :
                                HasRun(rq, q)
           /\ rq.done = 0 => \A q : ~HasRun(rq, q)
<1> DEFINE Q == Queries(rq.ask.kind)
           n == rq.done
<1>1. n \in 0 .. 5
  BY KindOfRequest
<1>2. /\ \A q \in {"documents", "characters", "groupIDs", "groups", "shares"} :
            \E i \in 1 .. 5 : Q[i] = q
      /\ \A j \in 1 .. 5 : Q[j] = "groups" =>
            \E i \in 1 .. 5 : Q[i] = "groupIDs" /\ i < j
  BY KindOfRequest, QueriesOnce
<1>3. \A p : HasRun(rq, p) <=> \E i \in 1 .. n : Q[i] = p
  BY DEF HasRun
<1> HIDE DEF Q
<1>4. \A i, j : j \in 1 .. n /\ i \in 1 .. 5 /\ i < j => i \in 1 .. n /\ j \in 1 .. 5
  BY <1>1
<1>5. \A j : j \in 1 .. n => j \in 1 .. 5
  BY <1>1
<1>6. HasRun(rq, "groups") => HasRun(rq, "groupIDs")
  BY <1>2, <1>3, <1>4, <1>5
<1>7. n = 5 => \A q \in {"documents", "characters", "groupIDs", "groups", "shares"} : HasRun(rq, q)
  BY <1>2, <1>3
<1>8. n = 0 => \A q : ~HasRun(rq, q)
  BY <1>3
<1> QED
  BY <1>6, <1>7, <1>8

-----------------------------------------------------------------------------
(* The steps of a request *)

\* The query that a step runs, and what it leaves alone.
Reading(q) ==
    /\ Queried(q)
    /\ req' = [req EXCEPT !.docs = IF q = "documents" THEN world.docs ELSE @,
                          !.shares = IF q = "shares" THEN world.shares ELSE @,
                          !.done = req.done + 1]
    /\ cache' = [day |-> IF q = "characters" THEN Cached(cache.day, world.day) ELSE cache.day,
                 groupIDs |-> IF q = "groupIDs" THEN Cached(cache.groupIDs, GroupIDsOf(req.user, world))
                              ELSE cache.groupIDs,
                 members |-> IF q = "groups" THEN Cached(cache.members, world.members)
                             ELSE cache.members]

\* Every step begins, reads, responds or commits one change of the campaign.
LEMMA Steps ==
    ASSUME TypeOK, Next
    PROVE  \/ \E u \in Users, ask \in Asks : Begin(u, ask)
           \/ \E q \in {"documents", "characters", "groupIDs", "groups", "shares"} : Reading(q)
           \/ Respond
           \/ Change(world') /\ OneChange(world, world')
<1>1. world \in World /\ req \in Request \cup {Idle}
  BY DEF TypeOK
<1>2. cache = [day |-> cache.day, groupIDs |-> cache.groupIDs, members |-> cache.members]
  BY DEF TypeOK
<1>3. ASSUME ReadCharacters PROVE Reading("characters")
  BY <1>1, <1>2, <1>3 DEF ReadCharacters, Reading, Queried, Request
<1>4. ASSUME ReadGroupIDs PROVE Reading("groupIDs")
  BY <1>1, <1>2, <1>4 DEF ReadGroupIDs, Reading, Queried, Request, GroupIDsOf
<1>5. ASSUME ReadGroups PROVE Reading("groups")
  BY <1>1, <1>2, <1>5 DEF ReadGroups, Reading, Queried, Request
<1>6. ASSUME ReadShares PROVE Reading("shares")
  BY <1>1, <1>2, <1>6 DEF ReadShares, Reading, Queried, Request
<1>7. ASSUME ReadDocuments PROVE Reading("documents")
  BY <1>1, <1>2, <1>7 DEF ReadDocuments, Reading, Queried, Request
<1> DEFINE Changes == Change(world') /\ OneChange(world, world')
<1>8. ASSUME NEW c \in Characters, NEW n \in Days, SetGameDay(c, n) PROVE Changes
  BY <1>1, <1>8 DEF SetGameDay, Change, OneChange, World
<1>9. ASSUME NEW g \in Groups, NEW c \in Characters, Join(g, c) PROVE Changes
  <2> DEFINE w == [world EXCEPT !.members[g] = @ \cup {c}]
  <2>1. Change(w) /\ world' = w
    BY <1>9 DEF Join, Change
  <2>2. /\ w.day = world.day /\ w.docs = world.docs /\ w.shares = world.shares
        /\ w.members = [world.members EXCEPT ![g] = @ \cup {c}]
    BY <1>1 DEF World
  <2> HIDE DEF w
  <2> QED
    BY <2>1, <2>2 DEF OneChange
<1>10. ASSUME NEW g \in Groups, NEW c \in Characters, Leave(g, c) PROVE Changes
  <2> DEFINE w == [world EXCEPT !.members[g] = @ \ {c}]
  <2>1. Change(w) /\ world' = w
    BY <1>10 DEF Leave, Change
  <2>2. /\ w.day = world.day /\ w.docs = world.docs /\ w.shares = world.shares
        /\ w.members = [world.members EXCEPT ![g] = @ \ {c}]
    BY <1>1 DEF World
  <2> HIDE DEF w
  <2> QED
    BY <2>1, <2>2 DEF OneChange
<1>11. ASSUME NEW d \in DocIds, NEW c \in Characters, NEW n \in Days, ShareWithCharacter(d, c, n)
       PROVE  Changes
  BY <1>1, <1>11 DEF ShareWithCharacter, Change, OneChange, World
<1>12. ASSUME NEW s \in world.shares, RevokeShare(s) PROVE Changes
  BY <1>1, <1>12 DEF RevokeShare, Change, OneChange, World
<1>13. ASSUME NEW l \in Locations, NEW t \in Characters \cup Groups, GrantAccess(l, t) PROVE Changes
  BY <1>1, <1>13 DEF GrantAccess, Change, OneChange, World
<1>14. ASSUME NEW a \in world.grants, RevokeAccess(a) PROVE Changes
  BY <1>1, <1>14 DEF RevokeAccess, Change, OneChange, World
<1>15. ASSUME NEW l \in Locations, NEW n \in Days, SetPlaceDay(l, n) PROVE Changes
  BY <1>1, <1>15 DEF SetPlaceDay, Change, OneChange, World
<1>16. ASSUME NEW d \in DocIds, NEW row \in Doc, CreateDocument(d, row) PROVE Changes
  BY <1>1, <1>16 DEF CreateDocument, Change, OneChange, World
<1>17. ASSUME NEW d \in DocIds, NEW n \in Days, NEW text \in Matches, UpdateDocument(d, n, text)
       PROVE  Changes
  BY <1>1, <1>17 DEF UpdateDocument, Change, OneChange, World
<1>18. ASSUME NEW d \in DocIds, NEW r \in Repos, NEW n \in Days, ShareToGroup(d, r, n) PROVE Changes
  BY <1>1, <1>18 DEF ShareToGroup, Change, OneChange, World
<1>19. ASSUME NEW d \in DocIds, DeleteDocument(d) PROVE Changes
  BY <1>1, <1>19 DEF DeleteDocument, Change, OneChange, World
<1> HIDE DEF Changes
<1>20. \/ \E u \in Users, ask \in Asks : Begin(u, ask)
       \/ \E q \in {"documents", "characters", "groupIDs", "groups", "shares"} : Reading(q)
       \/ Respond
       \/ Changes
  BY <1>3, <1>4, <1>5, <1>6, <1>7, <1>8, <1>9, <1>10, <1>11, <1>12, <1>13, <1>14, <1>15, <1>16,
     <1>17, <1>18, <1>19 DEF Next
<1> QED
  BY <1>20 DEF Changes

\* An answer is a set of documents.
LEMMA AnswersTyped ==
    ASSUME NEW u \in Users \ GMs, NEW ask \in Asks, NEW a \in World
    PROVE  Answer(u, ask, WithGroupIDs(a, u)) \in SUBSET DocIds
<1> DEFINE w == WithGroupIDs(a, u)
<1>1. w.shares \subseteq Share
  BY DEF WithGroupIDs, World
<1> HIDE DEF w
<1>2. \A d \in Answer(u, ask, w) : d \in DocIds
  BY <1>1, AnswersExist
<1> QED
  BY <1>2 DEF w

\* The request in flight keeps its shape when a query is run.
LEMMA ReadingTyped ==
    ASSUME TypeOK, NEW q \in {"documents", "characters", "groupIDs", "groups", "shares"}, Reading(q)
    PROVE  req \in Request /\ req' \in Request
<1>1. req \in Request
  BY DEF Reading, Queried, TypeOK
<1>2. req.done + 1 \in 0 .. 5
  BY <1>1 DEF Reading, Queried, Request
<1>3. world.docs \in [DocIds -> Doc \cup {NoDoc}] /\ world.shares \in SUBSET Share
  BY DEF TypeOK, World
<1>4. req' \in Request
  BY <1>1, <1>2, <1>3 DEF Reading, Request
<1> QED
  BY <1>1, <1>4

\* It does when the campaign changes.
LEMMA ChangeTypesRequest ==
    ASSUME TypeOK, Next, Change(world'), req # Idle
    PROVE  req' \in Request
<1> DEFINE now == Answer(req.user, req.ask, WithGroupIDs(world', req.user))
           m == req.moments \cup {now}
<1>1. req \in Request
  BY DEF TypeOK
<1>2. PICK w \in World : w = world'
  BY ChangeTyped DEF TypeOK
<1>3. now \in SUBSET DocIds
  <2>1. req.user \in Users \ GMs /\ req.ask \in Asks
    BY <1>1 DEF Request
  <2>2. Answer(req.user, req.ask, WithGroupIDs(w, req.user)) \in SUBSET DocIds
    BY <2>1, AnswersTyped
  <2> QED
    BY <1>2, <2>2
<1>4. req' = [req EXCEPT !.meanwhile = req.meanwhile + 1, !.moments = m]
  BY DEF Change
<1> HIDE DEF now
<1>5. req.meanwhile + 1 \in Nat /\ m \in SUBSET SUBSET DocIds
  BY <1>1, <1>3 DEF Request
<1> HIDE DEF m
<1> QED
  BY <1>1, <1>4, <1>5 DEF Request

LEMMA RequestStep ==
    ASSUME TypeOK, [Next]_vars
    PROVE  TypeOK'
<1> USE DEF TypeOK
<1>1. CASE UNCHANGED vars
  BY <1>1 DEF vars, Request
<1>2. ASSUME NEW u \in Users, NEW ask \in Asks, Begin(u, ask)
      PROVE  TypeOK'
  <2> DEFINE now == Answer(u, ask, Now(u))
  <2>1. now \in SUBSET DocIds
    BY <1>2, AnswersTyped DEF Now, Begin
  <2>2. req' = [user |-> u, ask |-> ask, done |-> 0, docs |-> Unread, shares |-> Unread,
                meanwhile |-> 0, moments |-> {now}]
    BY <1>2 DEF Begin
  <2> HIDE DEF now
  <2>3. req' \in Request
    BY <1>2, <2>1, <2>2 DEF Begin, Request
  <2> QED
    BY <1>2, <2>3 DEF Begin
<1>3. ASSUME NEW q \in {"documents", "characters", "groupIDs", "groups", "shares"}, Reading(q)
      PROVE  TypeOK'
  <2>1. req' \in Request
    BY <1>3, ReadingTyped
  <2>2. world' = world /\ changes' = changes
    BY <1>3 DEF Reading, Queried
  <2>3. /\ Cached(cache.day, world.day) \in [Characters -> Days] \cup {Unread}
        /\ Cached(cache.groupIDs, GroupIDsOf(req.user, world)) \in (SUBSET Groups) \cup {Unread}
        /\ Cached(cache.members, world.members) \in [Groups -> SUBSET Characters] \cup {Unread}
    BY DEF Cached, World, GroupIDsOf, GroupIDsForCharacters
  <2>4. cache' \in [day: [Characters -> Days] \cup {Unread},
                    groupIDs: (SUBSET Groups) \cup {Unread},
                    members: [Groups -> SUBSET Characters] \cup {Unread}]
    BY <1>3, <2>3 DEF Reading
  <2> QED
    BY <2>1, <2>2, <2>4
<1>4. CASE Respond
  BY <1>4 DEF Respond, WithRequestCache, EmptyCache
<1>5. CASE Next /\ Change(world')
  <2>1. world' \in World
    BY <1>5, ChangeTyped
  <2>2. changes' \in Nat /\ cache' = cache
    BY <1>5 DEF Change
  <2>3. CASE req = Idle
    BY <1>5, <2>1, <2>2, <2>3 DEF Change
  <2>4. CASE req # Idle
    BY <1>5, <2>1, <2>2, <2>4, ChangeTypesRequest
  <2> QED
    BY <2>3, <2>4
<1> QED
  BY <1>1, <1>2, <1>3, <1>4, <1>5, Steps

\* The campaign and the request in flight keep their shape.
THEOREM RequestTyped == Spec => []TypeOK
<1>1. Init => TypeOK
  BY ConstantsAssumption DEF Init, TypeOK, EmptyCache
<1> QED
  BY <1>1, RequestStep, PTL DEF Spec

-----------------------------------------------------------------------------
(* An answer is that of one moment *)

\* What request rq would answer from campaign w.
AnswerAt(rq, w) == Answer(rq.user, rq.ask, WithGroupIDs(w, rq.user))

\* What has not been looked up is not in the cache.
Unloaded(rq, ch) ==
    /\ ~HasRun(rq, "characters") => ch.day = Unread
    /\ ~HasRun(rq, "groupIDs") => ch.groupIDs = Unread
    /\ ~HasRun(rq, "groups") => ch.members = Unread

\* What the queries of rq have read is from campaign a or from campaign b, and
\* members of a go with the group ids of a.
ReadFrom(rq, ch, a, b) ==
    /\ HasRun(rq, "documents") => rq.docs \in {a.docs, b.docs}
    /\ HasRun(rq, "characters") => ch.day \in {a.day, b.day}
    /\ HasRun(rq, "shares") => rq.shares \in {a.shares, b.shares}
    /\ HasRun(rq, "groupIDs") =>
            ch.groupIDs \in {GroupIDsOf(rq.user, a), GroupIDsOf(rq.user, b)}
    /\ HasRun(rq, "groups") =>
            \/ ch.members = b.members
            \/ ch.members = a.members /\ ch.groupIDs = GroupIDsOf(rq.user, a)

\* Request rq with cache ch, served since before the last change led to b.
Served(rq, ch, b) ==
    /\ Unloaded(rq, ch)
    /\ AnswerAt(rq, b) \in rq.moments
    /\ rq.meanwhile = 0 => ReadFrom(rq, ch, b, b)
    /\ rq.meanwhile = 1 => \E a \in World : /\ OneChange(a, b)
                                            /\ AnswerAt(rq, a) \in rq.moments
                                            /\ ReadFrom(rq, ch, a, b)

\* The inductive invariant.
MomentInv ==
    /\ TypeOK
    /\ req = Idle => cache = EmptyCache
    /\ req # Idle => Served(req, cache, world)

\* A query reads the rows of now, the cache having none of them.
LEMMA ReadingServes ==
    ASSUME TypeOK, req # Idle, Served(req, cache, world),
           NEW q \in {"documents", "characters", "groupIDs", "groups", "shares"}, Reading(q)
    PROVE  Served(req', cache', world)
<1>1. req \in Request
  BY DEF TypeOK
<1>2. /\ req'.ask = req.ask /\ req'.user = req.user /\ req'.done = req.done + 1
      /\ req'.meanwhile = req.meanwhile /\ req'.moments = req.moments
      /\ req'.docs = (IF q = "documents" THEN world.docs ELSE req.docs)
      /\ req'.shares = (IF q = "shares" THEN world.shares ELSE req.shares)
  BY <1>1 DEF Reading, Request
<1>3. /\ ~HasRun(req, q)
      /\ \A p : HasRun(req', p) <=> HasRun(req, p) \/ p = q
      /\ q = "groupIDs" => ~HasRun(req, "groups")
  <2>1. req.done < 5 /\ Queries(req.ask.kind)[req.done + 1] = q
    BY DEF Reading, Queried
  <2>2. req'.ask = req.ask /\ req'.done = req.done + 1
    BY <1>2
  <2> QED
    BY <1>1, <2>1, <2>2, NextQuery
<1>4. /\ cache'.day = (IF q = "characters" THEN world.day ELSE cache.day)
      /\ cache'.groupIDs = (IF q = "groupIDs" THEN GroupIDsOf(req.user, world) ELSE cache.groupIDs)
      /\ cache'.members = (IF q = "groups" THEN world.members ELSE cache.members)
  BY <1>3 DEF Reading, Served, Unloaded, Cached
<1>5. Unloaded(req', cache')
  BY <1>3, <1>4 DEF Served, Unloaded
<1>6. ASSUME NEW a, ReadFrom(req, cache, a, world)
      PROVE  ReadFrom(req', cache', a, world)
  <2>1. HasRun(req', "documents") => req'.docs \in {a.docs, world.docs}
    BY <1>2, <1>3, <1>6 DEF ReadFrom
  <2>2. HasRun(req', "characters") => cache'.day \in {a.day, world.day}
    BY <1>3, <1>4, <1>6 DEF ReadFrom
  <2>3. HasRun(req', "shares") => req'.shares \in {a.shares, world.shares}
    BY <1>2, <1>3, <1>6 DEF ReadFrom
  <2>4. HasRun(req', "groupIDs") =>
            cache'.groupIDs \in {GroupIDsOf(req.user, a), GroupIDsOf(req.user, world)}
    BY <1>3, <1>4, <1>6 DEF ReadFrom
  <2>5. HasRun(req', "groups") =>
            \/ cache'.members = world.members
            \/ cache'.members = a.members /\ cache'.groupIDs = GroupIDsOf(req.user, a)
    BY <1>3, <1>4, <1>6 DEF ReadFrom
  <2> QED
    BY <1>2, <2>1, <2>2, <2>3, <2>4, <2>5 DEF ReadFrom
<1>7. \A a : AnswerAt(req', a) = AnswerAt(req, a)
  BY <1>2 DEF AnswerAt
<1> QED
  BY <1>2, <1>5, <1>6, <1>7 DEF Served

\* A change turns what has been read into rows of before it.
LEMMA ChangeServes ==
    ASSUME TypeOK, req # Idle, Served(req, cache, world), Change(world'),
           OneChange(world, world')
    PROVE  Served(req', cache', world')
<1>1. req \in Request /\ world \in World
  BY DEF TypeOK
<1>2. /\ req'.ask = req.ask /\ req'.user = req.user /\ req'.done = req.done
      /\ req'.docs = req.docs /\ req'.shares = req.shares
      /\ req'.meanwhile = req.meanwhile + 1
      /\ req'.moments = req.moments \cup {AnswerAt(req, world')} /\ cache' = cache
  BY <1>1 DEF Change, Request, AnswerAt
<1>3. \A p : HasRun(req', p) <=> HasRun(req, p)
  BY <1>2 DEF HasRun
<1>4. \A a : AnswerAt(req', a) = AnswerAt(req, a)
  BY <1>2 DEF AnswerAt
<1>5. req.meanwhile \in Nat
  BY <1>1 DEF Request
<1>6. ASSUME req.meanwhile = 0
      PROVE  ReadFrom(req', cache', world, world')
  <2>1. ReadFrom(req, cache, world, world)
    BY <1>6 DEF Served
  <2>2. HasRun(req, "groups") => HasRun(req, "groupIDs")
    BY <1>1, QueriesDone
  <2> QED
    BY <1>2, <1>3, <2>1, <2>2 DEF ReadFrom
<1>7. Unloaded(req', cache')
  BY <1>2, <1>3 DEF Served, Unloaded
<1>8. AnswerAt(req', world') \in req'.moments /\ AnswerAt(req', world) \in req'.moments
  BY <1>2, <1>4 DEF Served
<1> QED
  BY <1>1, <1>2, <1>5, <1>6, <1>7, <1>8 DEF Served

LEMMA MomentStep ==
    ASSUME MomentInv, [Next]_vars
    PROVE  MomentInv'
<1>1. TypeOK'
  BY RequestStep DEF MomentInv
<1> SUFFICES /\ req' = Idle => cache' = EmptyCache
             /\ req' # Idle => Served(req', cache', world')
  BY <1>1 DEF MomentInv, EmptyCache, Served, Unloaded, AnswerAt, ReadFrom, HasRun
<1>2. CASE UNCHANGED vars
  BY <1>2 DEF vars, MomentInv
<1>3. ASSUME NEW u \in Users, NEW ask \in Asks, Begin(u, ask)
      PROVE  /\ req' = Idle => cache' = EmptyCache
             /\ req' # Idle => Served(req', cache', world')
  <2>1. cache' = EmptyCache /\ world' = world
    BY <1>3 DEF Begin, MomentInv
  <2>2. CASE req' = Idle
    BY <2>1, <2>2
  <2>3. CASE req' # Idle
    <3>1. /\ req'.user = u /\ req'.ask = ask /\ req'.done = 0 /\ req'.meanwhile = 0
          /\ req'.moments = {Answer(u, ask, Now(u))}
      BY <1>3 DEF Begin
    <3>2. req' \in Request
      BY <1>1, <2>3 DEF TypeOK
    <3>3. \A q : ~HasRun(req', q)
      BY <3>1, <3>2, QueriesDone
    <3>4. AnswerAt(req', world) \in req'.moments
      BY <3>1 DEF AnswerAt, Now
    <3> QED
      BY <2>1, <2>3, <3>1, <3>3, <3>4 DEF Served, Unloaded, ReadFrom, EmptyCache
  <2> QED
    BY <2>2, <2>3
<1>4. ASSUME NEW q \in {"documents", "characters", "groupIDs", "groups", "shares"}, Reading(q)
      PROVE  /\ req' = Idle => cache' = EmptyCache
             /\ req' # Idle => Served(req', cache', world')
  <2>1. req # Idle /\ world' = world
    BY <1>4 DEF Reading, Queried
  <2>2. Served(req', cache', world')
    BY <1>4, <2>1, ReadingServes DEF MomentInv
  <2>3. req' # Idle
    BY <1>4, ReadingTyped, IdleAssumption DEF MomentInv
  <2> QED
    BY <2>2, <2>3
<1>5. CASE Respond
  BY <1>5 DEF Respond, WithRequestCache
<1>6. CASE Next /\ Change(world') /\ OneChange(world, world')
  <2>1. CASE req = Idle
    BY <1>6, <2>1 DEF Change, MomentInv
  <2>2. CASE req # Idle
    <3>1. Served(req', cache', world')
      BY <1>6, <2>2, ChangeServes DEF MomentInv
    <3>2. req' # Idle
      BY <1>6, <2>2, ChangeTypesRequest, IdleAssumption DEF MomentInv
    <3> QED
      BY <3>1, <3>2
  <2> QED
    BY <2>1, <2>2
<1> QED
  BY <1>2, <1>3, <1>4, <1>5, <1>6, Steps DEF MomentInv

\* The rows of a request with at most one change in between answer for one moment.
LEMMA RespondsOfOneMoment ==
    ASSUME MomentInv, Respond, req.meanwhile <= 1
    PROVE  Answer(req.user, req.ask, Gathered) \in req.moments
<1>1. req \in Request /\ world \in World /\ Served(req, cache, world)
  BY DEF MomentInv, TypeOK, Respond
<1>2. /\ HasRun(req, "documents") /\ HasRun(req, "characters") /\ HasRun(req, "shares")
      /\ HasRun(req, "groupIDs") /\ HasRun(req, "groups")
  BY <1>1, QueriesDone DEF Respond
<1>3. req.meanwhile \in {0, 1} /\ req.user \in Users \ GMs /\ req.ask \in Asks
  BY <1>1 DEF Request
<1>4. PICK a \in World : /\ OneChange(a, world) /\ AnswerAt(req, a) \in req.moments
                         /\ ReadFrom(req, cache, a, world)
  <2>1. OneChange(world, world)
    BY DEF OneChange
  <2> QED
    BY <1>1, <1>3, <2>1 DEF Served
<1>5. GatheredFrom(req.user, Gathered, a, world)
  <2>1. /\ Gathered.docs = req.docs /\ Gathered.shares = req.shares /\ Gathered.day = cache.day
        /\ Gathered.groupIDs = cache.groupIDs /\ Gathered.members = cache.members
    BY DEF Gathered
  <2> DEFINE v == Gathered
  <2>2. /\ v.docs \in {a.docs, world.docs} /\ v.day \in {a.day, world.day}
        /\ v.shares \in {a.shares, world.shares}
    BY <1>2, <1>4, <2>1 DEF ReadFrom
  <2>3. v.groupIDs \in {GroupIDsOf(req.user, a), GroupIDsOf(req.user, world)}
    BY <1>2, <1>4, <2>1 DEF ReadFrom
  <2>4. \/ v.members = world.members
        \/ v.members = a.members /\ v.groupIDs = GroupIDsOf(req.user, a)
    BY <1>2, <1>4, <2>1 DEF ReadFrom
  <2> HIDE DEF v
  <2>5. GatheredFrom(req.user, v, a, world)
    BY <2>2, <2>3, <2>4 DEF GatheredFrom
  <2> QED
    BY <2>5 DEF v
<1>6. Answer(req.user, req.ask, Gathered) \in {AnswerAt(req, a), AnswerAt(req, world)}
  BY <1>1, <1>3, <1>4, <1>5, OneMoment DEF AnswerAt
<1> QED
  BY <1>1, <1>4, <1>6 DEF Served

\* A request with at most one change in between answers as at one moment,
\* whichever side of the change each of its queries fell on
\* (request_cache.go, documents_gating.go, search.go).
THEOREM OneMomentAnswered == Spec => AnswersOfOneMoment
<1>1. Init => MomentInv
  BY ConstantsAssumption DEF Init, MomentInv, TypeOK, EmptyCache
<1>2. MomentInv /\ [Next]_vars => MomentInv'
  BY MomentStep
<1>3. MomentInv => [Respond /\ req.meanwhile <= 1 =>
                        Answer(req.user, req.ask, Gathered) \in req.moments]_vars
  BY RespondsOfOneMoment
<1> QED
  BY <1>1, <1>2, <1>3, PTL DEF Spec, AnswersOfOneMoment

=============================================================================
