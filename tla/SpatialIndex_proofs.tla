--------------------------- MODULE SpatialIndex_proofs -------------------------
(***************************************************************************)
(* What holds of the H3 index for any drivers, cells and distances: its    *)
(* two maps agree, Nearby is exact, and it implements the directory; and   *)
(* the widening searches are exact and take the nearer ring first.  Of the *)
(* quadtree: its queries are exact.                                        *)
(***************************************************************************)
EXTENDS Search, QTree, TLAPS, FiniteSetTheorems

LEMMA Distinct == NoCell \notin Cells /\ Nothing \notin Snapshot
BY IndexAssumption

LEMMA SnapshotLoc == \A s \in Snapshot : s.loc \in Cells \cup {NoCell}
BY DEF Snapshot

-----------------------------------------------------------------------------
(* What a step does to a driver's place.                                   *)

LEMMA PlaceStep ==
  ASSUME TypeOK, MapsAgree, NEW d \in Drivers, NEW s \in Snapshot,
         Update(d, s) \/ Insert(d, s), s.loc # NoCell
  PROVE  /\ s.loc \in Cells
         /\ cellToDrivers' = Moved(d, driverToCell[d], s)
         /\ allocated' = allocated \cup {s.loc}
         /\ driverToCell' = [driverToCell EXCEPT ![d] = s.loc]
<1>1. s.loc \in Cells
  BY SnapshotLoc
<1>2. CASE Update(d, s)
  BY <1>1, <1>2 DEF Update, Place
<1>3. CASE Insert(d, s)
  <2>1. /\ cellToDrivers' = [cellToDrivers EXCEPT ![s.loc][d] = s]
        /\ allocated' = allocated \cup {s.loc}
        /\ driverToCell' = [driverToCell EXCEPT ![d] = s.loc]
        /\ driverToCell[d] = NoCell
    BY <1>3 DEF Insert, Place, Indexed
  <2>2. ASSUME NEW c \in Cells, c # s.loc
        PROVE  [cellToDrivers[c] EXCEPT ![d] = IF c = s.loc THEN s
                  ELSE IF c = driverToCell[d] THEN Nothing ELSE @] = cellToDrivers[c]
    BY <2>1, <2>2, Distinct DEF TypeOK
  <2>3. [cellToDrivers EXCEPT ![s.loc][d] = s] = Moved(d, driverToCell[d], s)
    BY <1>1, <2>1, <2>2 DEF Moved, TypeOK
  <2>4. QED
    BY <1>1, <2>1, <2>3
<1>4. QED
  BY <1>1, <1>2, <1>3

LEMMA TypeStep ==
  ASSUME TypeOK, MapsAgree, [Next]_vars
  PROVE  TypeOK'
<1>1. ASSUME NEW d \in Drivers, NEW s \in Snapshot, Update(d, s) \/ Insert(d, s)
      PROVE  TypeOK'
  <2>1. CASE s.loc = NoCell
    BY <1>1, <2>1 DEF Update, Insert, vars, TypeOK
  <2>2. CASE s.loc # NoCell
    <3>1. PICK old : old = driverToCell[d]
      OBVIOUS
    <3>2. Moved(d, old, s) \in [Cells -> [Drivers -> Snapshot \cup {Nothing}]]
      BY DEF Moved, TypeOK
    <3>3. QED
      BY <1>1, <2>2, <3>1, <3>2, PlaceStep DEF TypeOK
  <2>3. QED
    BY <2>1, <2>2
<1>2. ASSUME NEW d \in Drivers, Remove(d)
      PROVE  TypeOK'
  <2>1. CASE ~Indexed(d)
    BY <1>2, <2>1 DEF Remove, vars, TypeOK
  <2>2. CASE Indexed(d)
    <3> DEFINE c == driverToCell[d]
    <3>1. c \in Cells
      BY <2>2 DEF Indexed, TypeOK
    <3>2. [e \in Drivers |-> Nothing] \in [Drivers -> Snapshot \cup {Nothing}]
      OBVIOUS
    <3>3. [cellToDrivers[c] EXCEPT ![d] = Nothing] \in [Drivers -> Snapshot \cup {Nothing}]
      BY <3>1 DEF TypeOK
    <3>4. cellToDrivers' \in [Cells -> [Drivers -> Snapshot \cup {Nothing}]]
      BY <1>2, <2>2, <3>1, <3>2, <3>3 DEF Remove, TypeOK
    <3>5. allocated' \subseteq Cells /\ driverToCell' \in [Drivers -> Cells \cup {NoCell}]
      BY <1>2, <2>2 DEF Remove, TypeOK
    <3>6. QED
      BY <3>4, <3>5 DEF TypeOK
  <2>3. QED
    BY <2>1, <2>2
<1>3. CASE UNCHANGED vars
  BY <1>3 DEF vars, TypeOK
<1>4. QED
  BY <1>1, <1>2, <1>3 DEF Next

(* Remove leaves every other driver where it is, whichever of its two ways *)
(* it takes: the map it drops holds nobody else.                           *)
LEMMA RemoveStep ==
  ASSUME TypeOK, MapsAgree, NEW d \in Drivers, Remove(d), Indexed(d)
  PROVE  /\ driverToCell' = [driverToCell EXCEPT ![d] = NoCell]
         /\ \A c \in Cells, e \in Drivers :
              cellToDrivers'[c][e] = IF e = d THEN Nothing ELSE cellToDrivers[c][e]
         /\ \A c \in allocated \ allocated' : \A e \in Drivers \ {d} : ~Holds(c, e)
<1> DEFINE at == driverToCell[d]
<1>1. at \in Cells
  BY DEF Indexed, TypeOK
<1>2. /\ cellToDrivers' = [cellToDrivers EXCEPT
            ![at] = IF Emptied(at, d) THEN [e \in Drivers |-> Nothing]
                                      ELSE [@ EXCEPT ![d] = Nothing]]
      /\ allocated' = IF Emptied(at, d) THEN allocated \ {at} ELSE allocated
      /\ driverToCell' = [driverToCell EXCEPT ![d] = NoCell]
  BY DEF Remove
<1>3. ASSUME NEW c \in Cells, NEW e \in Drivers
      PROVE  cellToDrivers'[c][e] = IF e = d THEN Nothing ELSE cellToDrivers[c][e]
  <2>1. CASE c # at
    <3>1. cellToDrivers'[c] = cellToDrivers[c]
      BY <1>2, <2>1 DEF TypeOK
    <3>2. cellToDrivers[c][d] = Nothing
      BY <2>1 DEF MapsAgree, Holds
    <3>3. QED
      BY <3>1, <3>2
  <2>2. CASE c = at /\ Emptied(at, d)
    <3>1. cellToDrivers'[c][e] = Nothing
      BY <1>1, <1>2, <2>2 DEF TypeOK
    <3>2. e # d => cellToDrivers[c][e] = Nothing
      BY <2>2 DEF Emptied, Holds
    <3>3. QED
      BY <3>1, <3>2
  <2>3. CASE c = at /\ ~Emptied(at, d)
    BY <1>1, <1>2, <2>3 DEF TypeOK
  <2>4. QED
    BY <2>1, <2>2, <2>3
<1>4. \A c \in allocated \ allocated' : \A e \in Drivers \ {d} : ~Holds(c, e)
  BY <1>2 DEF Emptied
<1>5. QED
  BY <1>2, <1>3, <1>4

LEMMA AgreeStep ==
  ASSUME TypeOK, MapsAgree, [Next]_vars
  PROVE  MapsAgree'
<1>1. ASSUME NEW d \in Drivers, NEW s \in Snapshot, Update(d, s) \/ Insert(d, s)
      PROVE  MapsAgree'
  <2>1. CASE s.loc = NoCell
    BY <1>1, <2>1 DEF Update, Insert, vars, MapsAgree, Holds
  <2>2. CASE s.loc # NoCell
    <3>1. /\ s.loc \in Cells
          /\ cellToDrivers' = Moved(d, driverToCell[d], s)
          /\ allocated' = allocated \cup {s.loc}
          /\ driverToCell' = [driverToCell EXCEPT ![d] = s.loc]
      BY <1>1, <2>2, PlaceStep
    <3>2. \A c \in Cells, e \in Drivers :
            cellToDrivers'[c][e] =
              IF e # d THEN cellToDrivers[c][e]
              ELSE IF c = s.loc THEN s
              ELSE IF c = driverToCell[d] THEN Nothing ELSE cellToDrivers[c][d]
      BY <3>1 DEF Moved, TypeOK
    <3>3. ASSUME NEW c \in Cells, NEW e \in Drivers
          PROVE  /\ Holds(c, e)' <=> driverToCell'[e] = c
                 /\ Holds(c, e)' => cellToDrivers'[c][e].loc = c /\ c \in allocated'
      <4>1. CASE e # d
        <5>1. cellToDrivers'[c][e] = cellToDrivers[c][e] /\ driverToCell'[e] = driverToCell[e]
          BY <3>1, <3>2, <4>1 DEF TypeOK
        <5>2. QED
          BY <3>1, <5>1 DEF MapsAgree, Holds
      <4>2. CASE e = d /\ c = s.loc
        <5>1. cellToDrivers'[c][e] = s /\ driverToCell'[e] = s.loc
          BY <3>1, <3>2, <4>2 DEF TypeOK
        <5>2. QED
          BY <3>1, <4>2, <5>1, Distinct DEF Holds
      <4>3. CASE e = d /\ c # s.loc
        <5>1. driverToCell'[e] # c
          BY <3>1, <4>3 DEF TypeOK
        <5>2. cellToDrivers'[c][e] = Nothing
          BY <3>2, <4>3 DEF MapsAgree, Holds
        <5>3. QED
          BY <5>1, <5>2 DEF Holds
      <4>4. QED
        BY <4>1, <4>2, <4>3
    <3>4. QED
      BY <3>3 DEF MapsAgree
  <2>3. QED
    BY <2>1, <2>2
<1>2. ASSUME NEW d \in Drivers, Remove(d)
      PROVE  MapsAgree'
  <2>1. CASE ~Indexed(d)
    BY <1>2, <2>1 DEF Remove, vars, MapsAgree, Holds
  <2>2. CASE Indexed(d)
    <3>1. ASSUME NEW c \in Cells, NEW e \in Drivers
          PROVE  /\ Holds(c, e)' <=> driverToCell'[e] = c
                 /\ Holds(c, e)' => cellToDrivers'[c][e].loc = c /\ c \in allocated'
      <4>1. CASE e = d
        BY <1>2, <2>2, <4>1, RemoveStep, Distinct DEF Holds, TypeOK
      <4>2. CASE e # d
        <5>1. cellToDrivers'[c][e] = cellToDrivers[c][e] /\ driverToCell'[e] = driverToCell[e]
          BY <1>2, <2>2, <4>2, RemoveStep DEF TypeOK
        <5>2. Holds(c, e) /\ c \in allocated => c \in allocated'
          BY <1>2, <2>2, <4>2, RemoveStep
        <5>3. QED
          BY <5>1, <5>2 DEF MapsAgree, Holds
      <4>3. QED
        BY <4>1, <4>2
    <3>2. QED
      BY <3>1 DEF MapsAgree
  <2>3. QED
    BY <2>1, <2>2
<1>3. CASE UNCHANGED vars
  BY <1>3 DEF vars, MapsAgree, Holds
<1>4. QED
  BY <1>1, <1>2, <1>3 DEF Next

(* A driver's snapshot is filed in one cell, the one driverToCell names    *)
(* and the snapshot was taken in, after any sequence of calls.             *)
THEOREM TwoMapsAgree == Spec => [](TypeOK /\ MapsAgree)
<1>1. Init => TypeOK /\ MapsAgree
  BY Distinct DEF Init, TypeOK, MapsAgree, Holds
<1>2. TypeOK /\ MapsAgree /\ [Next]_vars => TypeOK' /\ MapsAgree'
  BY TypeStep, AgreeStep
<1>3. QED
  BY <1>1, <1>2, PTL DEF Spec

-----------------------------------------------------------------------------
LEMMA EntryFacts ==
  ASSUME TypeOK, MapsAgree, NEW d \in Drivers
  PROVE  /\ Indexed(d) <=> Entry(d) # Nothing
         /\ Indexed(d) => /\ driverToCell[d] \in Cells
                          /\ Entry(d) = cellToDrivers[driverToCell[d]][d]
                          /\ Entry(d) \in Snapshot
                          /\ Entry(d).loc = driverToCell[d]
                          /\ driverToCell[d] \in allocated
<1>1. CASE ~Indexed(d)
  BY <1>1 DEF Entry
<1>2. CASE Indexed(d)
  <2>1. driverToCell[d] \in Cells
    BY <1>2 DEF Indexed, TypeOK
  <2>2. Holds(driverToCell[d], d)
    BY <2>1 DEF MapsAgree
  <2>3. /\ cellToDrivers[driverToCell[d]][d] # Nothing
        /\ cellToDrivers[driverToCell[d]][d] \in Snapshot
    BY <2>1, <2>2 DEF Holds, TypeOK
  <2>4. /\ cellToDrivers[driverToCell[d]][d].loc = driverToCell[d]
        /\ driverToCell[d] \in allocated
    BY <2>1, <2>2 DEF MapsAgree
  <2>5. QED
    BY <1>2, <2>1, <2>3, <2>4 DEF Entry
<1>3. QED
  BY <1>1, <1>2

(* Nearby finds each idle driver within k steps once, where its last       *)
(* snapshot puts it, and no other driver, for any geometry of the cells.   *)
THEOREM NearbyIsExact == Spec => []NearbyExact
<1>1. ASSUME TypeOK, MapsAgree
      PROVE  NearbyExact
  <2> SUFFICES ASSUME NEW cell \in Cells, NEW k
               PROVE  Nearby(cell, k) =
                        {<<Entry(d).loc, d>> : d \in
                           {e \in Drivers : /\ Entry(e) # Nothing
                                            /\ Entry(e).status = "idle"
                                            /\ Distance(cell, Entry(e).loc) <= k}}
    BY DEF NearbyExact
  <2> DEFINE idle == {e \in Drivers : /\ Entry(e) # Nothing
                                      /\ Entry(e).status = "idle"
                                      /\ Distance(cell, Entry(e).loc) <= k}
  <2>1. ASSUME NEW hit \in Nearby(cell, k)
        PROVE  hit \in {<<Entry(d).loc, d>> : d \in idle}
    <3>1. PICK c \in allocated \cap GridDisk(cell, k), d \in Drivers :
            /\ hit = <<c, d>>
            /\ Holds(c, d) /\ cellToDrivers[c][d].status = "idle"
      BY DEF Nearby
    <3>2. c \in Cells /\ Distance(cell, c) <= k
      BY DEF GridDisk
    <3>3. driverToCell[d] = c
      BY <1>1, <3>1, <3>2 DEF MapsAgree
    <3>4. Indexed(d)
      BY <1>1, <3>2, <3>3, Distinct DEF Indexed
    <3>5. Entry(d) = cellToDrivers[c][d] /\ Entry(d).loc = c /\ Entry(d) # Nothing
      BY <1>1, <3>3, <3>4, EntryFacts
    <3>6. d \in idle /\ hit = <<Entry(d).loc, d>>
      BY <3>1, <3>2, <3>5
    <3>7. QED
      BY <3>6
  <2>2. ASSUME NEW d \in idle
        PROVE  <<Entry(d).loc, d>> \in Nearby(cell, k)
    <3>1. Indexed(d) /\ d \in Drivers
      BY <1>1, EntryFacts
    <3> DEFINE c == driverToCell[d]
    <3>2. /\ c \in Cells /\ c \in allocated
          /\ Entry(d) = cellToDrivers[c][d] /\ Entry(d).loc = c
      BY <1>1, <3>1, EntryFacts
    <3>3. Holds(c, d) /\ cellToDrivers[c][d].status = "idle"
      BY <3>2 DEF Holds
    <3>4. c \in allocated \cap GridDisk(cell, k)
      BY <3>2 DEF GridDisk
    <3>5. <<c, d>> \in Nearby(cell, k)
      BY <3>1, <3>3, <3>4 DEF Nearby
    <3>6. QED
      BY <3>2, <3>5
  <2>3. QED
    BY <2>1, <2>2
<1>2. QED
  BY <1>1, TwoMapsAgree, PTL

(* The index implements the directory of last snapshots: each step changes *)
(* one driver's entry, or none.                                            *)
THEOREM IndexIsDirectory == Spec => Implements
<1> DEFINE entries == [d \in Drivers |-> Entry(d)]
<1>1. Init => Abstract!Init
  BY DEF Init, Abstract!Init, Entry, Indexed
<1>2. ASSUME TypeOK, MapsAgree, [Next]_vars
      PROVE  [Abstract!Next]_entries
  <2>0. TypeOK' /\ MapsAgree'
    BY <1>2, TypeStep, AgreeStep
  <2>1. ASSUME NEW d \in Drivers, NEW s \in Snapshot, Update(d, s) \/ Insert(d, s)
        PROVE  [Abstract!Next]_entries
    <3>1. CASE s.loc = NoCell
      BY <2>1, <3>1 DEF Update, Insert, vars, Entry, Indexed
    <3>2. CASE s.loc # NoCell
      <4>1. /\ s.loc \in Cells
            /\ cellToDrivers' = Moved(d, driverToCell[d], s)
            /\ driverToCell' = [driverToCell EXCEPT ![d] = s.loc]
        BY <1>2, <2>1, <3>2, PlaceStep
      <4>2. \A e \in Drivers \ {d} : Entry(e)' = Entry(e)
        <5> SUFFICES ASSUME NEW e \in Drivers \ {d}
                     PROVE  Entry(e)' = Entry(e)
          OBVIOUS
        <5>1. driverToCell'[e] = driverToCell[e]
          BY <1>2, <4>1 DEF TypeOK
        <5>2. \A c \in Cells : cellToDrivers'[c][e] = cellToDrivers[c][e]
          BY <1>2, <4>1 DEF Moved, TypeOK
        <5>3. driverToCell[e] \in Cells \cup {NoCell}
          BY <1>2 DEF TypeOK
        <5>4. QED
          BY <5>1, <5>2, <5>3 DEF Entry, Indexed
      <4>3. Entry(d)' = s
        <5>1. driverToCell'[d] = s.loc /\ s.loc # NoCell
          BY <1>2, <3>2, <4>1 DEF TypeOK
        <5>2. cellToDrivers'[s.loc][d] = s
          BY <1>2, <4>1 DEF Moved, TypeOK
        <5>3. QED
          BY <5>1, <5>2 DEF Entry, Indexed
      <4>4. entries' = [entries EXCEPT ![d] = s]
        BY <4>2, <4>3
      <4>5. QED
        BY <4>4 DEF Abstract!Next, Abstract!Update
    <3>3. QED
      BY <3>1, <3>2
  <2>2. ASSUME NEW d \in Drivers, Remove(d)
        PROVE  [Abstract!Next]_entries
    <3>1. CASE ~Indexed(d)
      BY <2>2, <3>1 DEF Remove, vars, Entry, Indexed
    <3>2. CASE Indexed(d)
      <4>1. /\ driverToCell' = [driverToCell EXCEPT ![d] = NoCell]
            /\ \A c \in Cells, e \in Drivers :
                 cellToDrivers'[c][e] = IF e = d THEN Nothing ELSE cellToDrivers[c][e]
        BY <1>2, <2>2, <3>2, RemoveStep
      <4>2. ASSUME NEW e \in Drivers \ {d}
            PROVE  Entry(e)' = Entry(e)
        <5>1. driverToCell'[e] = driverToCell[e]
          BY <1>2, <4>1 DEF TypeOK
        <5>2. driverToCell[e] \in Cells \cup {NoCell}
          BY <1>2 DEF TypeOK
        <5>3. QED
          BY <4>1, <5>1, <5>2 DEF Entry, Indexed
      <4>3. Entry(d)' = Nothing
        BY <1>2, <4>1 DEF Entry, Indexed, TypeOK
      <4>4. entries' = [entries EXCEPT ![d] = Nothing]
        BY <4>2, <4>3
      <4>5. QED
        BY <4>4 DEF Abstract!Next, Abstract!Remove
    <3>3. QED
      BY <3>1, <3>2
  <2>3. CASE UNCHANGED vars
    BY <2>3 DEF vars, Entry, Indexed
  <2>4. QED
    BY <1>2, <2>1, <2>2, <2>3 DEF Next
<1>3. QED
  BY <1>1, <1>2, TwoMapsAgree, PTL DEF Spec, Implements, Abstract!Spec
-----------------------------------------------------------------------------
(* The searches.                                                           *)

SearchLocals ==
  [kind: {"none", "adaptive", "progressive"}, origin: Cells \cup {NoCell}, target: Nat,
   limit: Nat, ring: Nat, found: Seq(Cells \X Drivers)]

Asked == IF search.target = 0 THEN 1 ELSE search.target

(* What has been found is wanted, in reach, within the ring the search has *)
(* come to, and nobody is in it twice; and nobody who is wanted has been   *)
(* left behind in a smaller ring.                                          *)
FoundWanted ==
  \A i \in 1 .. Len(search.found) :
    /\ Wanted(search.found[i][1], search.found[i][2])
    /\ Distance(search.origin, search.found[i][1]) <= search.ring
    /\ Distance(search.origin, search.found[i][1]) <= search.limit

FoundOnce ==
  \A i, j \in 1 .. Len(search.found) :
    search.found[i][2] = search.found[j][2] => i = j

InnerSeen ==
  \A c \in Cells, d \in Drivers :
    Wanted(c, d) /\ Distance(search.origin, c) < search.ring => Seen(d)

Searching ==
  /\ search.origin \in Cells
  /\ search.target \in Targets
  /\ search.ring <= search.limit + 1
  /\ FoundWanted /\ FoundOnce /\ InnerSeen
  /\ Len(search.found) <= Asked

SearchInv ==
  /\ TypeOK /\ MapsAgree
  /\ search \in SearchLocals
  /\ search = NoSearch \/ (search.kind # "none" /\ Searching)

(* While a search runs the index stands still, and so does what the search *)
(* looks for.                                                              *)
LEMMA WantedStands ==
  ASSUME UNCHANGED vars, search'.kind = search.kind
  PROVE  \A c, d : Wanted(c, d)' <=> Wanted(c, d)
BY DEF Wanted, Holds, vars

LEMMA BeginStep ==
  ASSUME SearchInv, UNCHANGED vars,
         NEW kind \in {"adaptive", "progressive"}, NEW origin \in Cells,
         NEW target \in Targets, NEW limit \in Nat, Begin(kind, origin, target, limit)
  PROVE  search' \in SearchLocals /\ search'.kind # "none" /\ Searching'
<1>1. search' = [kind |-> kind, origin |-> origin, target |-> target,
                 limit |-> limit, ring |-> 0, found |-> <<>>]
  BY DEF Begin
<1>2. target \in Nat /\ <<>> \in Seq(Cells \X Drivers) /\ Len(<<>>) = 0
  BY SearchAssumption
<1>3. search' \in SearchLocals
  BY <1>1, <1>2 DEF SearchLocals
<1>4. FoundWanted' /\ FoundOnce'
  BY <1>1, <1>2 DEF FoundWanted, FoundOnce
<1>5. InnerSeen'
  BY <1>1, SearchAssumption DEF InnerSeen
<1>6. Len(search'.found) <= Asked'
  BY <1>1, <1>2 DEF Asked
<1>7. QED
  BY <1>1, <1>3, <1>4, <1>5, <1>6 DEF Searching

LEMMA MeetStep ==
  ASSUME SearchInv, search # NoSearch, Meet, UNCHANGED vars
  PROVE  search' \in SearchLocals /\ search'.kind # "none" /\ Searching'
<1>1. PICK c \in Cells, d \in Drivers :
        /\ Distance(search.origin, c) <= search.ring
        /\ Wanted(c, d) /\ ~Seen(d)
        /\ search' = [search EXCEPT !.found = Append(search.found, <<c, d>>)]
  <2>1. PICK hit \in Unmet : search' = [search EXCEPT !.found = Append(@, hit)]
    BY DEF Meet
  <2>2. /\ hit \in GridDisk(search.origin, search.ring) \X Drivers
        /\ Wanted(hit[1], hit[2]) /\ ~Seen(hit[2])
    BY DEF Unmet
  <2>3. PICK c \in Cells, d \in Drivers :
          hit = <<c, d>> /\ Distance(search.origin, c) <= search.ring
    BY <2>2 DEF GridDisk
  <2>4. QED
    BY <2>1, <2>2, <2>3
<1> DEFINE n == Len(search.found)
<1>2. /\ search \in SearchLocals /\ search.kind # "none" /\ Searching
      /\ n \in Nat /\ search.found \in Seq(Cells \X Drivers)
  BY DEF SearchInv, SearchLocals
<1>3. /\ search' \in SearchLocals
      /\ search'.kind = search.kind /\ search'.origin = search.origin
      /\ search'.target = search.target /\ search'.limit = search.limit
      /\ search'.ring = search.ring /\ search'.found = Append(search.found, <<c, d>>)
  <2>1. Append(search.found, <<c, d>>) \in Seq(Cells \X Drivers)
    BY <1>2
  <2>2. PICK longer \in Seq(Cells \X Drivers) : longer = Append(search.found, <<c, d>>)
    BY <2>1
  <2>3. search' = [search EXCEPT !.found = longer]
    BY <1>1, <2>2
  <2>4. QED
    BY <1>2, <2>2, <2>3 DEF SearchLocals
<1>4. /\ Len(search'.found) = n + 1
      /\ search'.found[n + 1] = <<c, d>>
      /\ \A i \in 1 .. n : search'.found[i] = search.found[i]
  BY <1>2, <1>3
<1>5. search.ring <= search.limit /\ ~Enough
  BY <1>2 DEF Meet, Returning, SearchLocals
<1>6. \A b, e : Wanted(b, e)' <=> Wanted(b, e)
  BY <1>3, WantedStands
<1>7. FoundWanted'
  <2>1. Distance(search.origin, c) <= search.limit
    BY <1>1, <1>2, <1>5, SearchAssumption DEF SearchLocals, Searching
  <2>2. ASSUME NEW i \in 1 .. n + 1
        PROVE  /\ Wanted(search'.found[i][1], search'.found[i][2])
               /\ Distance(search.origin, search'.found[i][1]) <= search.ring
               /\ Distance(search.origin, search'.found[i][1]) <= search.limit
    <3>1. CASE i = n + 1
      BY <1>1, <1>4, <2>1, <3>1
    <3>2. CASE i \in 1 .. n
      BY <1>2, <1>4, <3>2 DEF Searching, FoundWanted
    <3>3. QED
      BY <1>2, <3>1, <3>2
  <2>3. QED
    BY <1>3, <1>4, <1>6, <2>2 DEF FoundWanted
<1>8. FoundOnce'
  BY <1>1, <1>2, <1>4 DEF Searching, FoundOnce, Seen
<1>9. InnerSeen'
  <2>1. ASSUME NEW e, Seen(e)
        PROVE  Seen(e)'
    BY <1>2, <1>4, <2>1 DEF Seen
  <2>2. QED
    BY <1>2, <1>3, <1>6, <2>1 DEF Searching, InnerSeen
<1>10. Len(search'.found) <= Asked'
  BY <1>2, <1>3, <1>4, <1>5 DEF Enough, Asked, SearchLocals
<1>11. QED
  BY <1>2, <1>3, <1>7, <1>8, <1>9, <1>10 DEF Searching

(* The ring is over when all who are wanted in it have been seen.          *)
LEMMA NextRingStep ==
  ASSUME SearchInv, search # NoSearch, NextRing, UNCHANGED vars
  PROVE  search' \in SearchLocals /\ search'.kind # "none" /\ Searching'
<1>1. /\ search \in SearchLocals /\ search.kind # "none" /\ Searching
      /\ search.ring \in Nat /\ search.limit \in Nat
  BY DEF SearchInv, SearchLocals
<1>2. Unmet = {} /\ search' = [search EXCEPT !.ring = search.ring + 1]
  BY DEF NextRing
<1>3. /\ search' \in SearchLocals
      /\ search'.kind = search.kind /\ search'.origin = search.origin
      /\ search'.target = search.target /\ search'.limit = search.limit
      /\ search'.ring = search.ring + 1 /\ search'.found = search.found
  <2>1. PICK next \in Nat : next = search.ring + 1
    BY <1>1
  <2>2. search' = [search EXCEPT !.ring = next]
    BY <1>2, <2>1
  <2>3. QED
    BY <1>1, <2>1, <2>2 DEF SearchLocals
<1>4. search.ring <= search.limit
  BY <1>1 DEF NextRing, Returning
<1>5. \A b, e : Wanted(b, e)' <=> Wanted(b, e)
  BY <1>3, WantedStands
<1>6. FoundWanted'
  <2>1. ASSUME NEW i \in 1 .. Len(search.found)
        PROVE  /\ Wanted(search.found[i][1], search.found[i][2])
               /\ Distance(search.origin, search.found[i][1]) <= search.ring + 1
               /\ Distance(search.origin, search.found[i][1]) <= search.limit
    <3>1. search.found[i] \in Cells \X Drivers
      BY <1>1 DEF SearchLocals
    <3>2. Distance(search.origin, search.found[i][1]) \in Nat
      BY <1>1, <3>1, SearchAssumption DEF Searching
    <3>3. QED
      BY <1>1, <3>2 DEF Searching, FoundWanted
  <2>2. QED
    BY <1>3, <1>5, <2>1 DEF FoundWanted
<1>7. FoundOnce'
  BY <1>1, <1>3 DEF Searching, FoundOnce
<1>8. InnerSeen'
  <2>1. ASSUME NEW c \in Cells, NEW d \in Drivers, Wanted(c, d),
               Distance(search.origin, c) < search.ring + 1
        PROVE  Seen(d)
    <3>1. Distance(search.origin, c) <= search.ring
      BY <1>1, <2>1, SearchAssumption DEF Searching
    <3>2. <<c, d>> \in GridDisk(search.origin, search.ring) \X Drivers
      BY <3>1 DEF GridDisk
    <3>3. QED
      BY <1>2, <2>1, <3>2 DEF Unmet
  <2>2. QED
    BY <1>3, <1>5, <2>1 DEF InnerSeen, Seen
<1>9. Len(search'.found) <= Asked'
  BY <1>1, <1>3 DEF Searching, Asked
<1>10. QED
  BY <1>1, <1>3, <1>4, <1>6, <1>7, <1>8, <1>9 DEF Searching

LEMMA SearchStep ==
  ASSUME SearchInv, [SearchNext]_<<vars, search>>
  PROVE  SearchInv'
<1>1. TypeOK' /\ MapsAgree'
  BY TypeStep, AgreeStep DEF SearchInv, SearchNext
<1>2. CASE UNCHANGED search /\ (search = NoSearch \/ UNCHANGED vars)
  <2>1. CASE search = NoSearch
    BY <1>1, <1>2, <2>1 DEF SearchInv
  <2>2. CASE UNCHANGED vars
    <3>1. \A c, d : (Wanted(c, d)' <=> Wanted(c, d)) /\ (Seen(d)' <=> Seen(d))
      BY <1>2, <2>2, WantedStands DEF Seen
    <3>2. Searching => Searching'
      BY <1>2, <3>1 DEF Searching, FoundWanted, FoundOnce, InnerSeen, Asked
    <3>3. QED
      BY <1>1, <1>2, <3>2 DEF SearchInv
  <2>3. QED
    BY <1>2, <2>1, <2>2
<1>3. ASSUME NEW origin \in Cells, NEW target \in Targets, UNCHANGED vars,
             \/ NearbyAdaptive(origin, target)
             \/ \E reach \in Reaches : NearbyProgressive(origin, target, reach)
      PROVE  SearchInv'
  <2>1. \E kind \in {"adaptive", "progressive"}, limit \in Nat :
          Begin(kind, origin, target, limit)
    <3>1. adaptiveMaxRings(Density(origin)) \in Nat
      BY DEF adaptiveMaxRings
    <3>2. QED
      BY <1>3, <3>1, SearchAssumption DEF NearbyAdaptive, NearbyProgressive
  <2>2. QED
    BY <1>1, <1>3, <2>1, BeginStep DEF SearchInv
<1>4. CASE search # NoSearch /\ Meet /\ UNCHANGED vars
  BY <1>1, <1>4, MeetStep DEF SearchInv
<1>5. CASE search # NoSearch /\ NextRing /\ UNCHANGED vars
  BY <1>1, <1>5, NextRingStep DEF SearchInv
<1>6. CASE Return
  <2>1. <<>> \in Seq(Cells \X Drivers)
    OBVIOUS
  <2>2. NoSearch \in SearchLocals
    BY <2>1 DEF NoSearch, SearchLocals
  <2>3. QED
    BY <1>1, <1>6, <2>2 DEF Return, SearchInv
<1>7. QED
  BY <1>2, <1>3, <1>4, <1>5, <1>6 DEF SearchNext

LEMMA SearchKeeps == SearchSpec => []SearchInv
<1>1. <<>> \in Seq(Cells \X Drivers)
  OBVIOUS
<1>2. NoSearch \in SearchLocals
  BY <1>1 DEF NoSearch, SearchLocals
<1>3. SearchInit => SearchInv
  BY <1>2, Distinct DEF SearchInit, SearchInv, Init, TypeOK, MapsAgree, Holds
<1>4. QED
  BY <1>3, SearchStep, PTL DEF SearchSpec

(* The types of the index and of the searches.                             *)
THEOREM SearchTypeCorrect == SearchSpec => []SearchTypeOK
<1>1. ASSUME SearchInv
      PROVE  SearchTypeOK
  <2>1. CASE search = NoSearch
    <3>1. <<>> \in Seq(Cells \X Drivers)
      OBVIOUS
    <3>2. QED
      BY <1>1, <2>1, <3>1 DEF SearchInv, SearchTypeOK, NoSearch
  <2>2. CASE Searching
    BY <1>1, <2>2 DEF SearchInv, SearchTypeOK, SearchLocals, Searching
  <2>3. QED
    BY <1>1, <2>1, <2>2 DEF SearchInv
<1>2. QED
  BY <1>1, SearchKeeps, PTL

(* A driver passed over is in no nearer ring than a driver returned: for   *)
(* any geometry, any order of the cells and drivers, any target.           *)
THEOREM NearerRingFirst == SearchSpec => []NearestFirst
<1>1. ASSUME SearchInv, Returning, NEW i \in 1 .. Len(search.found),
             NEW c \in Cells, NEW d \in Drivers, Wanted(c, d), ~Seen(d)
      PROVE  Distance(search.origin, c) >= Distance(search.origin, search.found[i][1])
  <2>1. Searching /\ search \in SearchLocals
    BY <1>1 DEF SearchInv, Returning, NoSearch
  <2>2. search.found[i][1] \in Cells /\ search.ring \in Nat
    BY <2>1 DEF SearchLocals
  <2>3. /\ Distance(search.origin, c) \in Nat
        /\ Distance(search.origin, search.found[i][1]) \in Nat
    BY <2>1, <2>2, SearchAssumption DEF Searching
  <2>4. Distance(search.origin, c) >= search.ring
    BY <1>1, <2>1, <2>2, <2>3 DEF Searching, InnerSeen
  <2>5. Distance(search.origin, search.found[i][1]) <= search.ring
    BY <2>1 DEF Searching, FoundWanted
  <2>6. QED
    BY <2>2, <2>3, <2>4, <2>5
<1>2. SearchInv => NearestFirst
  BY <1>1 DEF NearestFirst
<1>3. QED
  BY <1>2, SearchKeeps, PTL

(* What has been found counts drivers within reach, each once; it counts   *)
(* them all when they have all been seen.                                  *)
LEMMA FoundCounts ==
  ASSUME IsFiniteSet(Drivers), search \in SearchLocals, Searching
  PROVE  /\ Cardinality(Within(search.limit)) \in Nat
         /\ Len(search.found) <= Cardinality(Within(search.limit))
         /\ (\A d \in Within(search.limit) : Seen(d))
              => Len(search.found) = Cardinality(Within(search.limit))
<1> DEFINE n == Len(search.found)
           W == Within(search.limit)
           met == [i \in 1 .. n |-> search.found[i][2]]
<1>1. n \in Nat /\ \A i \in 1 .. n : search.found[i] \in Cells \X Drivers
  BY DEF SearchLocals
<1>2. ASSUME NEW i \in 1 .. n
      PROVE  search.found[i][2] \in W
  <2>1. search.found[i][1] \in Cells /\ search.found[i][2] \in Drivers
    BY <1>1
  <2>2. search.found[i][1] \in GridDisk(search.origin, search.limit)
    BY <2>1 DEF Searching, FoundWanted, GridDisk
  <2>3. QED
    BY <2>1, <2>2 DEF Searching, FoundWanted, Within
<1>3. met \in Injection(1 .. n, W)
  BY <1>2 DEF Searching, FoundOnce, Injection, IsInjective
<1>4. IsFiniteSet(W) /\ Cardinality(W) \in Nat
  <2>1. W \in SUBSET Drivers
    BY DEF Within
  <2>2. IsFiniteSet(W)
    BY <2>1, FS_Subset
  <2>3. QED
    BY <2>2, FS_CardinalityType
<1>5. Cardinality(1 .. n) = n
  <2>1. n \in Int /\ 1 \in Int
    BY <1>1
  <2>2. Cardinality(1 .. n) = IF 1 > n THEN 0 ELSE n - 1 + 1
    BY <2>1, FS_Interval
  <2>3. QED
    BY <1>1, <2>2
<1>6. /\ Cardinality(1 .. n) <= Cardinality(W)
      /\ Cardinality(1 .. n) = Cardinality(W) <=> met \in Surjection(1 .. n, W)
  BY <1>3, <1>4, FS_Injection
<1>7. ASSUME \A d \in W : Seen(d)
      PROVE  met \in Surjection(1 .. n, W)
  <2>1. met \in [1 .. n -> W]
    BY <1>2
  <2>2. ASSUME NEW d \in W
        PROVE  \E i \in 1 .. n : met[i] = d
    BY <1>7, <2>2 DEF Seen
  <2>3. QED
    BY <2>1, <2>2 DEF Surjection
<1>8. QED
  BY <1>4, <1>5, <1>6, <1>7

(* A search that returns has as many drivers as it was asked for, or all   *)
(* that are within its reach, none twice.                                  *)
THEOREM AnswersAreExact ==
  ASSUME IsFiniteSet(Drivers)
  PROVE  SearchSpec => []AnswerExact
<1>1. ASSUME SearchInv, Returning
      PROVE  Len(search.found) =
               IF Cardinality(Within(search.limit)) < Asked
               THEN Cardinality(Within(search.limit)) ELSE Asked
  <2> DEFINE n == Len(search.found)
             there == Cardinality(Within(search.limit))
  <2>1. Searching /\ search \in SearchLocals
    BY <1>1 DEF SearchInv, Returning, NoSearch
  <2>2. /\ n \in Nat /\ search.target \in Nat /\ search.ring \in Nat
        /\ search.limit \in Nat /\ n <= Asked
    BY <2>1 DEF SearchLocals, Searching
  <2>3. there \in Nat /\ n <= there
    BY <2>1, FoundCounts
  <2>4. CASE Enough
    <3>1. n # 0
      BY <2>1, <2>4 DEF Enough, SearchLocals
    <3>2. n = Asked
      BY <2>2, <2>4, <3>1 DEF Enough, Asked
    <3>3. QED
      BY <2>2, <2>3, <3>2
  <2>5. CASE search.ring > search.limit
    <3>1. ASSUME NEW d \in Within(search.limit)
          PROVE  Seen(d)
      <4>1. PICK c \in Cells : Distance(search.origin, c) <= search.limit /\ Wanted(c, d)
        BY DEF Within, GridDisk
      <4>2. Distance(search.origin, c) \in Nat /\ d \in Drivers
        BY <2>1, SearchAssumption DEF Searching, Within
      <4>3. Distance(search.origin, c) < search.ring
        BY <2>2, <2>5, <4>1, <4>2
      <4>4. QED
        BY <2>1, <4>1, <4>2, <4>3 DEF Searching, InnerSeen
    <3>2. n = there
      BY <2>1, <3>1, FoundCounts
    <3>3. Asked \in Nat
      BY <2>2 DEF Asked
    <3>4. QED
      BY <2>2, <3>2, <3>3
  <2>6. QED
    BY <1>1, <2>4, <2>5 DEF Returning
<1>2. SearchInv => AnswerExact
  BY <1>1 DEF AnswerExact, Asked
<1>3. QED
  BY <1>2, SearchKeeps, PTL

-----------------------------------------------------------------------------
(* The quadtree.                                                           *)

(* The nodes above a node are in the tree, and the children of a node are  *)
(* all there or none, with the quadrants of its boundary; a node's sides   *)
(* are halved once per level.                                              *)
Shape ==
  /\ <<>> \in DOMAIN tree
  /\ tree[<<>>].boundary = Boundary
  /\ \A q \in DOMAIN tree :
       /\ \A k \in 0 .. Len(q) : Above(q, k) \in DOMAIN tree
       /\ tree[q].boundary.hw = Halved(Boundary.hw, Len(q))
       /\ tree[q].boundary.hh = Halved(Boundary.hh, Len(q))
       /\ \A c \in Quadrants : Child(q, c) \in DOMAIN tree =>
            /\ Divided(q)
            /\ tree[Child(q, c)].boundary = Quadrant(tree[q].boundary, c)
       /\ Divided(q) => \A c \in Quadrants : Child(q, c) \in DOMAIN tree

(* The tree is no deeper than the Inserts can have made it: a node is      *)
(* divided for a later point than those it holds.                          *)
Depth ==
  \A q \in DOMAIN tree :
    /\ q = <<>> \/ Len(q) < Len(given)
    /\ \A n \in tree[q].points : Len(q) < n

(* A stored point lies in its node's boundary and in all above it.         *)
StoredInside ==
  \A q \in DOMAIN tree : \A n \in tree[q].points :
    /\ n \in Returned
    /\ \A k \in 0 .. Len(q) : Contains(tree[Above(q, k)].boundary, given[n])

StoredOnce ==
  \A q, o \in DOMAIN tree : tree[q].points \cap tree[o].points # {} => q = o

NoneLost ==
  \A n \in Returned :
    Contains(Boundary, given[n]) => \E q \in DOMAIN tree : n \in tree[q].points

(* The Insert under way is at a node whose ancestors contain its point and *)
(* whose earlier siblings do not.                                          *)
OnItsWay ==
  call.on =>
    /\ Len(call.at) < Len(given)
    /\ \A k \in 0 .. Len(call.at) - 1 :
         Contains(tree[Above(call.at, k)].boundary, Arriving)
    /\ call.at # <<>> =>
         \A c \in 1 .. call.at[Len(call.at)] - 1 :
           ~Contains(tree[Child(Above(call.at, Len(call.at) - 1), c)].boundary, Arriving)

TreeInv ==
  TreeTypeOK /\ Shape /\ Depth /\ StoredInside /\ StoredOnce /\ NoneLost /\ OnItsWay

LEMMA PathFacts ==
  ASSUME NEW q \in Seq(Quadrants), NEW c \in Quadrants
  PROVE  /\ Child(q, c) \in Seq(Quadrants)
         /\ Len(Child(q, c)) = Len(q) + 1
         /\ Child(q, c)[Len(q) + 1] = c
         /\ \A k \in 0 .. Len(q) : Above(Child(q, c), k) = Above(q, k)
         /\ Above(Child(q, c), Len(q) + 1) = Child(q, c)
BY DEF Child, Above, Quadrants

LEMMA AboveFacts ==
  ASSUME NEW q \in Seq(Quadrants)
  PROVE  /\ Above(q, 0) = <<>>
         /\ Above(q, Len(q)) = q
         /\ \A k \in 0 .. Len(q) : /\ Above(q, k) \in Seq(Quadrants)
                                   /\ Len(Above(q, k)) = k
                                   /\ \A j \in 0 .. k : Above(Above(q, k), j) = Above(q, j)
BY DEF Above, Quadrants

LEMMA ParentFacts ==
  ASSUME NEW q \in Seq(Quadrants), q # <<>>
  PROVE  /\ Len(q) \in Nat \ {0}
         /\ q[Len(q)] \in Quadrants
         /\ Above(q, Len(q) - 1) \in Seq(Quadrants)
         /\ q = Child(Above(q, Len(q) - 1), q[Len(q)])
BY DEF Above, Child, Quadrants

LEMMA ChildFacts ==
  ASSUME NEW p \in Seq(Quadrants), NEW q \in Seq(Quadrants),
         NEW b \in Quadrants, NEW c \in Quadrants, Child(p, b) = Child(q, c)
  PROVE  p = q /\ b = c
BY DEF Child, Quadrants

-----------------------------------------------------------------------------
(* The geometry of rectangles.                                             *)

(* The quadrants of a rectangle with even sides cover it.                  *)
LEMMA QuadrantsCover ==
  ASSUME NEW b \in Rect, NEW w \in Int, NEW h \in Int, b.hw = 2 * w, b.hh = 2 * h
  PROVE  /\ \A c \in Quadrants : /\ Quadrant(b, c) \in Rect
                                 /\ Quadrant(b, c).hw = w
                                 /\ Quadrant(b, c).hh = h
         /\ \A p \in Point : Contains(b, p) =>
              \E c \in Quadrants : Contains(Quadrant(b, c), p)
<1>1. b.x \in Int /\ b.y \in Int /\ b.hw \div 2 = w /\ b.hh \div 2 = h
  BY DEF Rect
<1>2. \A c \in Quadrants :
        Quadrant(b, c) = [x |-> IF c \in {1, 3} THEN b.x + w ELSE b.x - w,
                          y |-> IF c \in {1, 2} THEN b.y - h ELSE b.y + h,
                          hw |-> w, hh |-> h]
  BY <1>1 DEF Quadrant, Rectangle
<1>3. ASSUME NEW p \in Point, Contains(b, p)
      PROVE  \E c \in Quadrants : Contains(Quadrant(b, c), p)
  <2>1. /\ p.x \in Int /\ p.y \in Int
        /\ p.x >= b.x - 2 * w /\ p.x <= b.x + 2 * w
        /\ p.y >= b.y - 2 * h /\ p.y <= b.y + 2 * h
    BY <1>3 DEF Contains, Point
  <2>2. CASE p.x >= b.x /\ p.y <= b.y
    BY <1>1, <1>2, <2>1, <2>2 DEF Contains, Quadrants
  <2>3. CASE p.x < b.x /\ p.y <= b.y
    BY <1>1, <1>2, <2>1, <2>3 DEF Contains, Quadrants
  <2>4. CASE p.x >= b.x /\ p.y > b.y
    BY <1>1, <1>2, <2>1, <2>4 DEF Contains, Quadrants
  <2>5. CASE p.x < b.x /\ p.y > b.y
    BY <1>1, <1>2, <2>1, <2>5 DEF Contains, Quadrants
  <2>6. QED
    BY <1>1, <2>1, <2>2, <2>3, <2>4, <2>5
<1>4. QED
  BY <1>1, <1>2, <1>3 DEF Rect

(* Rectangles with a common point intersect.                               *)
LEMMA CommonPoint ==
  ASSUME NEW b \in Rect, NEW r \in Rect, NEW p \in Point,
         Contains(b, p), Contains(r, p)
  PROVE  Intersects(b, r)
BY DEF Contains, Intersects, Rect, Point

(* Half of a side, while the tree is as deep as insertions can make it.    *)
LEMMA HalvingFacts ==
  ASSUME NEW side \in {Boundary.hw, Boundary.hh}
  PROVE  /\ Halved(side, 0) = side
         /\ \A k \in 1 .. MaxPoints - 1 :
              /\ Halved(side, k) \in Int
              /\ Halved(side, k - 1) = 2 * Halved(side, k)
BY TreeAssumption

-----------------------------------------------------------------------------
(* After false the next sibling is tried; false of the root ends the call. *)
LEMMA ResumeFacts ==
  ASSUME NEW q \in Seq(Quadrants)
  PROVE  /\ q = <<>> => Resume(q) = Idle
         /\ q # <<>> /\ q[Len(q)] < 4
              => Resume(q) = Try(Child(Above(q, Len(q) - 1), q[Len(q)] + 1))
<1> DEFINE left == {k \in 1 .. Len(q) : q[k] < 4}
<1>1. CASE q = <<>>
  BY <1>1 DEF Resume
<1>2. CASE q # <<>> /\ q[Len(q)] < 4
  <2>1. Len(q) \in left /\ left \subseteq Int /\ \A k \in left : Len(q) >= k
    BY <1>2, ParentFacts
  <2>2. Sets!Max(left) = Len(q)
    <3>1. Sets!Max(left) \in left /\ \A k \in left : Sets!Max(left) >= k
      BY <2>1 DEF Sets!Max
    <3>2. QED
      BY <2>1, <3>1
  <2>3. QED
    BY <1>2, <2>1, <2>2 DEF Resume
<1>3. QED
  BY <1>1, <1>2

LEMMA TreeInitInv == TreeInit => TreeInv
<1> SUFFICES ASSUME TreeInit PROVE TreeInv
  OBVIOUS
<1>1. /\ DOMAIN tree = {<<>>} /\ tree[<<>>] = [boundary |-> Boundary, points |-> {}]
      /\ given = <<>> /\ call = [on |-> FALSE, at |-> <<>>]
  BY DEF TreeInit, NewQtree, Idle
<1>2. TreeTypeOK
  BY <1>1, TreeAssumption DEF TreeTypeOK, Nodes, TreeInit
<1>3. Shape
  <2>1. \A c \in Quadrants : Child(<<>>, c) # <<>>
    BY DEF Child
  <2>2. Above(<<>>, 0) = <<>> /\ Len(<<>>) = 0
    BY DEF Above
  <2>3. Boundary.hw = Halved(Boundary.hw, 0) /\ Boundary.hh = Halved(Boundary.hh, 0)
    BY HalvingFacts
  <2>4. QED
    BY <1>1, <2>1, <2>2, <2>3 DEF Shape, Divided, Quadrants
<1>4. QED
  BY <1>1, <1>2, <1>3 DEF TreeInv, Depth, StoredInside, StoredOnce, NoneLost, OnItsWay, Returned

LEMMA NodeFacts ==
  ASSUME TreeTypeOK
  PROVE  /\ Len(given) \in Nat /\ MaxPoints \in Nat /\ Len(given) <= MaxPoints
         /\ \A q \in DOMAIN tree :
              /\ q \in Seq(Quadrants) /\ Len(q) \in Nat
              /\ tree[q].boundary \in Rect
              /\ tree[q].points \subseteq 1 .. Len(given)
         /\ \A n \in 1 .. Len(given) : given[n] \in Point
         /\ call.at \in DOMAIN tree
BY TreeAssumption DEF TreeTypeOK, Nodes

(* A new Insert begins at the root.                                        *)
LEMMA InsertStep ==
  ASSUME TreeInv, NEW p \in Points, InsertPoint(p)
  PROVE  TreeInv'
<1> DEFINE n == Len(given)
<1>1. /\ ~call.on /\ n < MaxPoints /\ n \in Nat
      /\ tree' = tree /\ given' = Append(given, p)
      /\ call' = [on |-> TRUE, at |-> <<>>]
  BY NodeFacts DEF InsertPoint, Try, TreeInv
<1>2. /\ given' \in Seq(Points) /\ Len(given') = n + 1
      /\ \A i \in 1 .. n : given'[i] = given[i]
  BY <1>1 DEF TreeInv, TreeTypeOK
<1>3. Returned = 1 .. n /\ Returned' = 1 .. n
  BY <1>1, <1>2 DEF Returned
<1>4. TreeTypeOK'
  <2>1. \A q \in DOMAIN tree : tree[q] \in Nodes'
    BY <1>1, <1>2 DEF TreeInv, TreeTypeOK, Nodes
  <2>2. tree' \in [DOMAIN tree' -> Nodes']
    BY <1>1, <2>1 DEF TreeInv, TreeTypeOK
  <2>3. QED
    BY <1>1, <1>2, <2>2, TreeAssumption DEF TreeInv, TreeTypeOK, Shape
<1>5. Shape' /\ StoredOnce'
  BY <1>1 DEF TreeInv, Shape, StoredOnce, Divided
<1>6. Depth'
  BY <1>1, <1>2, NodeFacts DEF TreeInv, Depth
<1>7. StoredInside' /\ NoneLost'
  BY <1>1, <1>2, <1>3 DEF TreeInv, StoredInside, NoneLost
<1>8. OnItsWay'
  BY <1>1, <1>2 DEF OnItsWay
<1>9. QED
  BY <1>4, <1>5, <1>6, <1>7, <1>8 DEF TreeInv

(* The sides of a node above another are even.                             *)
LEMMA EvenSides ==
  ASSUME TreeInv, NEW q \in DOMAIN tree, Len(q) + 1 < Len(given)
  PROVE  /\ tree[q].boundary.hw = 2 * Halved(Boundary.hw, Len(q) + 1)
         /\ tree[q].boundary.hh = 2 * Halved(Boundary.hh, Len(q) + 1)
         /\ Halved(Boundary.hw, Len(q) + 1) \in Int
         /\ Halved(Boundary.hh, Len(q) + 1) \in Int
<1>1. Len(q) + 1 \in 1 .. MaxPoints - 1 /\ (Len(q) + 1) - 1 = Len(q)
  BY NodeFacts DEF TreeInv
<1>2. QED
  BY <1>1, HalvingFacts DEF TreeInv, Shape

(* The point of an Insert lies in one of the children of a node that       *)
(* contains it, so a node whose children were all tried is never reached.  *)
LEMMA SiblingLeft ==
  ASSUME TreeInv, call.on, call.at # <<>>, ~Contains(Here.boundary, Arriving)
  PROVE  call.at[Len(call.at)] < 4
<1> DEFINE at == call.at
           up == Above(at, Len(at) - 1)
           c  == at[Len(at)]
<1>1. /\ at \in DOMAIN tree /\ at \in Seq(Quadrants)
      /\ c \in Quadrants /\ up \in Seq(Quadrants) /\ at = Child(up, c)
      /\ Len(at) \in Nat \ {0} /\ Len(up) = Len(at) - 1
  <2>1. at \in DOMAIN tree /\ at \in Seq(Quadrants) /\ at # <<>>
    BY NodeFacts DEF TreeInv
  <2>2. c \in Quadrants /\ up \in Seq(Quadrants) /\ at = Child(up, c) /\ Len(at) \in Nat \ {0}
    BY <2>1, ParentFacts
  <2>3. Len(up) = Len(at) - 1
    <3>1. Len(at) - 1 \in 0 .. Len(at)
      BY <2>2
    <3>2. QED
      BY <2>1, <3>1, AboveFacts
  <2>4. QED
    BY <2>1, <2>2, <2>3
<1>2. up \in DOMAIN tree /\ Divided(up)
  BY <1>1 DEF TreeInv, Shape
<1>3. Len(up) + 1 < Len(given)
  BY <1>1, NodeFacts DEF TreeInv, OnItsWay
<1>4. Contains(tree[up].boundary, Arriving) /\ Arriving \in Point
  BY <1>1, <1>3, NodeFacts DEF TreeInv, OnItsWay, Arriving
<1>5. PICK b \in Quadrants : Contains(Quadrant(tree[up].boundary, b), Arriving)
  <2>1. tree[up].boundary \in Rect
    BY <1>2, NodeFacts DEF TreeInv
  <2>2. QED
    <3>1. /\ tree[up].boundary.hw = 2 * Halved(Boundary.hw, Len(up) + 1)
          /\ tree[up].boundary.hh = 2 * Halved(Boundary.hh, Len(up) + 1)
          /\ Halved(Boundary.hw, Len(up) + 1) \in Int
          /\ Halved(Boundary.hh, Len(up) + 1) \in Int
      BY <1>2, <1>3, EvenSides
    <3>2. QED
      BY <1>4, <2>1, <3>1, QuadrantsCover
<1>6. \A i \in Quadrants : tree[Child(up, i)].boundary = Quadrant(tree[up].boundary, i)
  BY <1>2 DEF TreeInv, Shape
<1>7. b # c /\ ~(b \in 1 .. c - 1)
  BY <1>1, <1>5, <1>6 DEF TreeInv, OnItsWay, Here
<1>8. QED
  BY <1>1, <1>5, <1>7 DEF Quadrants

LEMMA OutsideStep ==
  ASSUME TreeInv, OutsideBoundary
  PROVE  TreeInv'
<1> DEFINE at == call.at
           up == Above(at, Len(at) - 1)
           c  == at[Len(at)]
<1>1. /\ call.on /\ ~Contains(Here.boundary, Arriving)
      /\ call' = Resume(at) /\ UNCHANGED <<tree, given>>
      /\ at \in DOMAIN tree /\ at \in Seq(Quadrants)
  BY NodeFacts DEF OutsideBoundary, TreeInv
<1>2. CASE at = <<>>
  <2>1. call' = [on |-> FALSE, at |-> <<>>]
    BY <1>1, <1>2, ResumeFacts DEF Idle
  <2>2. ~Contains(Boundary, given[Len(given)])
    BY <1>1, <1>2 DEF TreeInv, Shape, Here, Arriving
  <2>3. Returned \subseteq Returned' /\ Returned' \subseteq Returned \cup {Len(given)}
    BY <1>1 DEF Returned
  <2>4. QED
    BY <1>1, <2>1, <2>2, <2>3 DEF TreeInv, TreeTypeOK, Nodes, Shape, Divided, Depth,
       StoredInside, StoredOnce, NoneLost, OnItsWay
<1>3. CASE at # <<>>
  <2>1. /\ c \in Quadrants /\ up \in Seq(Quadrants) /\ at = Child(up, c)
        /\ Len(at) \in Nat \ {0} /\ Len(up) = Len(at) - 1
        /\ c + 1 \in Quadrants
    <3>1. /\ Len(at) \in Nat \ {0} /\ c \in Quadrants /\ up \in Seq(Quadrants)
          /\ at = Child(up, c)
      BY <1>1, <1>3, ParentFacts
    <3>2. Len(up) = Len(at) - 1
      <4>1. Len(at) - 1 \in 0 .. Len(at)
        BY <3>1
      <4>2. QED
        BY <1>1, <4>1, AboveFacts
    <3>3. c < 4
      BY <1>1, <1>3, SiblingLeft
    <3>4. c + 1 \in Quadrants
      BY <3>1, <3>3 DEF Quadrants
    <3>5. QED
      BY <3>1, <3>2, <3>4
  <2>2. call' = [on |-> TRUE, at |-> Child(up, c + 1)]
    BY <1>1, <1>3, SiblingLeft, ResumeFacts DEF Try
  <2>3. up \in DOMAIN tree /\ Child(up, c + 1) \in DOMAIN tree
    BY <1>1, <2>1 DEF TreeInv, Shape
  <2>4. Returned' = Returned
    BY <1>1, <2>2 DEF Returned
  <2>5. OnItsWay'
    <3> DEFINE next == Child(up, c + 1)
    <3>1. Len(next) = Len(at) /\ next[Len(next)] = c + 1 /\ Above(next, Len(next) - 1) = up
      <4>1. /\ Len(next) = Len(up) + 1 /\ next[Len(up) + 1] = c + 1
            /\ \A k \in 0 .. Len(up) : Above(next, k) = Above(up, k)
        BY <2>1, PathFacts
      <4>2. Len(up) \in 0 .. Len(up) /\ Above(up, Len(up)) = up
        BY <2>1, AboveFacts
      <4>3. QED
        BY <2>1, <4>1, <4>2
    <3>2. \A k \in 0 .. Len(at) - 1 : Above(next, k) = Above(at, k)
      <4>1. \A k \in 0 .. Len(up) : Above(next, k) = Above(up, k)
        BY <2>1, PathFacts
      <4>2. \A k \in 0 .. Len(up) : Above(at, k) = Above(up, k)
        BY <2>1, PathFacts
      <4>3. QED
        BY <2>1, <4>1, <4>2
    <3>3. \A i \in 1 .. c : ~Contains(tree[Child(up, i)].boundary, Arriving)
      BY <1>1, <1>3, <2>1 DEF TreeInv, OnItsWay, Here, Quadrants
    <3>4. (c + 1) - 1 = c
      BY <2>1 DEF Quadrants
    <3>5. QED
      BY <1>1, <2>2, <3>1, <3>2, <3>3, <3>4 DEF TreeInv, OnItsWay, Arriving
  <2>6. QED
    BY <1>1, <2>2, <2>3, <2>4, <2>5 DEF TreeInv, TreeTypeOK, Nodes, Shape, Divided, Depth,
       StoredInside, StoredOnce, NoneLost
<1>4. QED
  BY <1>2, <1>3

(* The node keeps the point; the Insert is over.                           *)
LEMMA KeepStep ==
  ASSUME TreeInv, Keep
  PROVE  TreeInv'
<1> DEFINE at == call.at
           n  == Len(given)
<1>1. /\ call.on /\ Contains(tree[at].boundary, given[n])
      /\ tree' = [tree EXCEPT ![at].points = @ \cup {n}]
      /\ call' = [on |-> FALSE, at |-> <<>>] /\ UNCHANGED given
      /\ at \in DOMAIN tree /\ n \in Nat
      /\ Len(at) < n /\ at \in Seq(Quadrants) /\ Len(at) \in Nat
  BY NodeFacts DEF Keep, TreeInv, Idle, Here, Arriving, OnItsWay
<1>2. /\ DOMAIN tree' = DOMAIN tree
      /\ \A q \in DOMAIN tree : /\ tree'[q].boundary = tree[q].boundary
                                /\ q # at => tree'[q].points = tree[q].points
      /\ tree'[at].points = tree[at].points \cup {n}
      /\ tree' \in [DOMAIN tree' -> Nodes']
  <2>1. tree \in [DOMAIN tree -> Nodes] /\ Nodes' = Nodes
    BY <1>1 DEF TreeInv, TreeTypeOK, Nodes
  <2>2. /\ DOMAIN tree' = DOMAIN tree
        /\ tree'[at] = [tree[at] EXCEPT !.points = @ \cup {n}]
        /\ \A q \in DOMAIN tree \ {at} : tree'[q] = tree[q]
        /\ tree' = [q \in DOMAIN tree |-> tree'[q]]
    BY <1>1, <2>1
  <2>3. /\ tree'[at].boundary = tree[at].boundary
        /\ tree'[at].points = tree[at].points \cup {n}
        /\ tree'[at] \in Nodes
    <3>1. tree[at] \in [boundary: Rect, points: SUBSET (1 .. n)] /\ n \in 1 .. n
      BY <1>1, <2>1 DEF Nodes
    <3>2. QED
      BY <2>2, <3>1 DEF Nodes
  <2>4. QED
    BY <1>1, <2>1, <2>2, <2>3
<1>3. /\ Returned' = Returned \cup {n} /\ n \notin Returned
      /\ \A q \in DOMAIN tree : n \notin tree[q].points
  BY <1>1 DEF Returned, TreeInv, StoredInside
<1>4. TreeTypeOK' /\ Shape'
  BY <1>1, <1>2 DEF TreeInv, TreeTypeOK, Shape, Divided
<1>5. Depth'
  BY <1>1, <1>2 DEF TreeInv, Depth
<1>6. StoredInside'
  <2>1. \A k \in 0 .. Len(at) : Contains(tree[Above(at, k)].boundary, given[n])
    <3>1. \A k \in 0 .. Len(at) - 1 : Contains(tree[Above(at, k)].boundary, given[n])
      BY <1>1 DEF TreeInv, OnItsWay, Arriving
    <3>2. Above(at, Len(at)) = at
      BY <1>1, AboveFacts
    <3>3. QED
      BY <1>1, <3>1, <3>2
  <2>2. \A q \in DOMAIN tree, k \in Nat : k <= Len(q) => Above(q, k) \in DOMAIN tree
    BY DEF TreeInv, Shape
  <2>3. \A q \in DOMAIN tree : Len(q) \in Nat
    BY NodeFacts DEF TreeInv
  <2>4. QED
    BY <1>1, <1>2, <1>3, <2>1, <2>2, <2>3 DEF TreeInv, StoredInside
<1>7. StoredOnce'
  BY <1>1, <1>2, <1>3 DEF TreeInv, StoredOnce
<1>8. NoneLost' /\ OnItsWay'
  BY <1>1, <1>2, <1>3 DEF TreeInv, NoneLost, OnItsWay
<1>9. QED
  BY <1>4, <1>5, <1>6, <1>7, <1>8 DEF TreeInv

(* A full node holds a point of an earlier Insert, so the tree may grow    *)
(* one level below it.                                                     *)
LEMMA RoomToDivide ==
  ASSUME TreeInv, PassOn
  PROVE  Len(call.at) + 1 < Len(given)
<1>1. tree[call.at].points # {}
  <2>1. Cardinality(tree[call.at].points) >= Capacity
    BY DEF PassOn, Here
  <2>2. Capacity \in Nat \ {0}
    BY TreeAssumption
  <2>3. Cardinality({}) = 0
    BY FS_EmptySet
  <2>4. QED
    BY <2>1, <2>2, <2>3
<1>2. PICK n \in tree[call.at].points : TRUE
  BY <1>1
<1>3. Len(call.at) < n /\ n \in Returned /\ Len(call.at) \in Nat /\ n \in Nat
  BY NodeFacts DEF TreeInv, Depth, StoredInside
<1>4. n < Len(given)
  BY <1>3, NodeFacts DEF Returned, PassOn, TreeInv
<1>5. QED
  BY <1>3, <1>4, NodeFacts DEF TreeInv

(* What dividing a node adds to the tree: empty children, or nothing.      *)
LEMMA SubdivideFacts ==
  ASSUME TreeInv, PassOn
  PROVE  /\ \A c \in Quadrants : Child(call.at, c) \in DOMAIN tree'
         /\ DOMAIN tree \subseteq DOMAIN tree'
         /\ \A q \in DOMAIN tree : tree'[q] = tree[q]
         /\ \A q \in DOMAIN tree' \ DOMAIN tree :
              /\ ~Divided(call.at)
              /\ \E c \in Quadrants : q = Child(call.at, c)
              /\ tree'[q].points = {}
         /\ \A c \in Quadrants :
              tree'[Child(call.at, c)].boundary = Quadrant(tree[call.at].boundary, c)
<1> DEFINE at == call.at
<1>1. /\ tree' = Subdivide(at) /\ at \in DOMAIN tree /\ at \in Seq(Quadrants)
  BY NodeFacts DEF PassOn, TreeInv
<1>2. \A c \in Quadrants : Child(at, c)[Len(Child(at, c))] = c
  BY <1>1, PathFacts
<1>3. Divided(at) => \A c \in Quadrants :
        /\ Child(at, c) \in DOMAIN tree
        /\ tree[Child(at, c)].boundary = Quadrant(tree[at].boundary, c)
  BY <1>1 DEF TreeInv, Shape
<1>4. ~Divided(at) => \A c \in Quadrants : Child(at, c) \notin DOMAIN tree
  BY <1>1 DEF TreeInv, Shape
<1>5. \A c \in Quadrants : Child(at, c) \notin DOMAIN tree =>
        tree'[Child(at, c)] = [boundary |-> Quadrant(tree[at].boundary, c), points |-> {}]
  BY <1>1, <1>2 DEF Subdivide, NewQtree
<1>6. /\ DOMAIN tree' = DOMAIN tree \cup {Child(at, c) : c \in Quadrants}
      /\ \A q \in DOMAIN tree : tree'[q] = tree[q]
  BY <1>1 DEF Subdivide
<1>7. QED
  <2>1. ASSUME NEW c \in Quadrants
        PROVE  tree'[Child(at, c)].boundary = Quadrant(tree[at].boundary, c)
    <3>1. CASE Child(at, c) \in DOMAIN tree
      BY <1>3, <1>4, <1>6, <3>1
    <3>2. CASE Child(at, c) \notin DOMAIN tree
      <4>1. tree'[Child(at, c)]
              = [boundary |-> Quadrant(tree[at].boundary, c), points |-> {}]
        BY <1>5, <3>2
      <4>2. QED
        BY <4>1
    <3>3. QED
      BY <3>1, <3>2
  <2>2. ASSUME NEW q \in DOMAIN tree' \ DOMAIN tree
        PROVE  /\ \E c \in Quadrants : q = Child(at, c)
               /\ ~Divided(at)
               /\ tree'[q].points = {}
    <3>1. PICK c \in Quadrants : q = Child(at, c)
      BY <1>6
    <3>2. tree'[q] = [boundary |-> Quadrant(tree[at].boundary, c), points |-> {}]
      BY <1>5, <3>1
    <3>3. QED
      BY <1>3, <3>1, <3>2
  <2>3. QED
    BY <1>6, <2>1, <2>2

LEMMA PassShape ==
  ASSUME TreeInv, PassOn
  PROVE  Shape'
<1> DEFINE at == call.at
           fresh == DOMAIN tree' \ DOMAIN tree
<1>1. /\ at \in DOMAIN tree /\ at \in Seq(Quadrants) /\ Len(at) \in Nat
      /\ tree[at].boundary \in Rect
  BY NodeFacts DEF TreeInv
<1>2. /\ tree[at].boundary.hw = 2 * Halved(Boundary.hw, Len(at) + 1)
      /\ tree[at].boundary.hh = 2 * Halved(Boundary.hh, Len(at) + 1)
      /\ Halved(Boundary.hw, Len(at) + 1) \in Int
      /\ Halved(Boundary.hh, Len(at) + 1) \in Int
  BY <1>1, RoomToDivide, EvenSides
<1>3. \A q \in DOMAIN tree : q \in Seq(Quadrants) /\ Len(q) \in Nat
  BY NodeFacts DEF TreeInv
<1>4. ASSUME NEW q \in fresh
      PROVE  /\ \A k \in 0 .. Len(q) : Above(q, k) \in DOMAIN tree'
             /\ tree'[q].boundary.hw = Halved(Boundary.hw, Len(q))
             /\ tree'[q].boundary.hh = Halved(Boundary.hh, Len(q))
             /\ \A c \in Quadrants : Child(q, c) \notin DOMAIN tree'
  <2>1. PICK b \in Quadrants : q = Child(at, b)
    BY SubdivideFacts
  <2>2. /\ q \in Seq(Quadrants) /\ Len(q) = Len(at) + 1
        /\ \A k \in 0 .. Len(at) : Above(q, k) = Above(at, k)
        /\ Above(q, Len(at) + 1) = q
    BY <1>1, <2>1, PathFacts
  <2>3. \A k \in 0 .. Len(at) : Above(at, k) \in DOMAIN tree
    BY <1>1 DEF TreeInv, Shape
  <2>4. \A k \in 0 .. Len(q) : Above(q, k) \in DOMAIN tree'
    <3>1. \A k \in 0 .. Len(q) : k \in 0 .. Len(at) \/ k = Len(at) + 1
      BY <1>1, <2>2
    <3>2. QED
      BY <2>2, <2>3, <3>1, SubdivideFacts
  <2>5. tree'[q].boundary = Quadrant(tree[at].boundary, b)
    BY <2>1, SubdivideFacts
  <2>6. ASSUME NEW c \in Quadrants, Child(q, c) \in DOMAIN tree'
        PROVE  FALSE
    <3>1. /\ Len(Child(q, c)) = Len(at) + 2
          /\ Child(q, c) \in Seq(Quadrants)
          /\ Above(Child(q, c), Len(at) + 1) = q
      <4>1. Len(at) + 1 \in 0 .. Len(q)
        BY <1>1, <2>2
      <4>2. QED
        <5>1. /\ Child(q, c) \in Seq(Quadrants) /\ Len(Child(q, c)) = Len(q) + 1
              /\ \A k \in 0 .. Len(q) : Above(Child(q, c), k) = Above(q, k)
          BY <2>2, PathFacts
        <5>2. QED
          BY <1>1, <2>2, <4>1, <5>1
    <3>2. CASE Child(q, c) \in DOMAIN tree
      <4>1. Len(at) + 1 \in 0 .. Len(Child(q, c))
        BY <1>1, <3>1
      <4>2. QED
        BY <3>1, <3>2, <4>1 DEF TreeInv, Shape
    <3>3. CASE Child(q, c) \in fresh
      <4>1. PICK d \in Quadrants : Child(q, c) = Child(at, d)
        BY <3>3, SubdivideFacts
      <4>2. Len(Child(at, d)) = Len(at) + 1
        BY <1>1, PathFacts
      <4>3. QED
        BY <1>1, <3>1, <4>1, <4>2
    <3>4. QED
      BY <2>6, <3>2, <3>3
  <2>7. QED
    <3>1. /\ Quadrant(tree[at].boundary, b).hw = Halved(Boundary.hw, Len(at) + 1)
          /\ Quadrant(tree[at].boundary, b).hh = Halved(Boundary.hh, Len(at) + 1)
      BY <1>1, <1>2, QuadrantsCover
    <3>2. QED
      BY <2>2, <2>4, <2>5, <2>6, <3>1
<1>5. ASSUME NEW q \in DOMAIN tree
      PROVE  /\ \A k \in 0 .. Len(q) : Above(q, k) \in DOMAIN tree'
             /\ tree'[q].boundary.hw = Halved(Boundary.hw, Len(q))
             /\ tree'[q].boundary.hh = Halved(Boundary.hh, Len(q))
  BY SubdivideFacts DEF TreeInv, Shape
<1>6. ASSUME NEW q \in DOMAIN tree, NEW c \in Quadrants, Child(q, c) \in DOMAIN tree'
      PROVE  /\ \A d \in Quadrants : Child(q, d) \in DOMAIN tree'
             /\ tree'[Child(q, c)].boundary = Quadrant(tree'[q].boundary, c)
  <2>1. CASE q = at
    BY <1>6, <2>1, <1>1, SubdivideFacts
  <2>2. CASE q # at
    <3>1. Child(q, c) \in DOMAIN tree
      <4>1. SUFFICES ASSUME Child(q, c) \in fresh PROVE FALSE
        BY <1>6
      <4>2. PICK b \in Quadrants : Child(q, c) = Child(at, b)
        BY <4>1, SubdivideFacts
      <4>3. QED
        BY <1>1, <1>3, <2>2, <4>2, ChildFacts
    <3>2. QED
      BY <3>1, SubdivideFacts DEF TreeInv, Shape
  <2>3. QED
    BY <2>1, <2>2
<1>7. <<>> \in DOMAIN tree' /\ tree'[<<>>].boundary = Boundary
  BY SubdivideFacts DEF TreeInv, Shape
<1>8. 1 \in Quadrants
  BY DEF Quadrants
<1>9. \A q \in DOMAIN tree' : q \in DOMAIN tree \/ q \in fresh
  OBVIOUS
<1>10. ASSUME NEW q \in DOMAIN tree'
       PROVE  /\ \A c \in Quadrants : Child(q, c) \in DOMAIN tree' =>
                   /\ Child(q, 1) \in DOMAIN tree'
                   /\ tree'[Child(q, c)].boundary = Quadrant(tree'[q].boundary, c)
              /\ Child(q, 1) \in DOMAIN tree' =>
                   \A c \in Quadrants : Child(q, c) \in DOMAIN tree'
  BY <1>4, <1>6, <1>8, <1>9
<1>11. QED
  BY <1>4, <1>5, <1>7, <1>9, <1>10 DEF Shape, Divided

LEMMA PassStep ==
  ASSUME TreeInv, PassOn
  PROVE  TreeInv'
<1> DEFINE at == call.at
           fresh == DOMAIN tree' \ DOMAIN tree
<1>1. /\ call.on /\ Contains(tree[at].boundary, Arriving)
      /\ call' = [on |-> TRUE, at |-> Child(at, 1)] /\ UNCHANGED given
      /\ at \in DOMAIN tree /\ at \in Seq(Quadrants) /\ Len(at) \in Nat
      /\ tree[at].boundary \in Rect
  BY NodeFacts DEF PassOn, Try, Here, TreeInv
<1>2. Returned' = Returned /\ Nodes' = Nodes /\ Arriving' = Arriving
  BY <1>1 DEF Returned, Nodes, Arriving
<1>3. Len(at) + 1 < Len(given)
  BY RoomToDivide
<1>4. \A q \in fresh : /\ q \in Seq(Quadrants) /\ Len(q) = Len(at) + 1
                       /\ tree'[q] \in Nodes
                       /\ tree'[q].points = {}
  <2> SUFFICES ASSUME NEW q \in fresh
               PROVE  /\ q \in Seq(Quadrants) /\ Len(q) = Len(at) + 1
                      /\ tree'[q] \in Nodes
                      /\ tree'[q].points = {}
    OBVIOUS
  <2>1. PICK c \in Quadrants : q = Child(at, c)
    BY SubdivideFacts
  <2>2. q \in Seq(Quadrants) /\ Len(q) = Len(at) + 1 /\ q[Len(q)] = c
    BY <1>1, <2>1, PathFacts
  <2>3. Quadrant(tree[at].boundary, c) \in Rect
    BY <1>1, <1>3, EvenSides, QuadrantsCover
  <2>4. tree'[q] = NewQtree(Quadrant(tree[at].boundary, c))
    BY <2>1, <2>2 DEF PassOn, Subdivide
  <2>5. QED
    BY <2>2, <2>3, <2>4 DEF NewQtree, Nodes
<1>5. /\ DOMAIN tree \subseteq DOMAIN tree'
      /\ \A q \in DOMAIN tree : tree'[q] = tree[q]
      /\ \A c \in Quadrants : Child(at, c) \in DOMAIN tree'
  BY SubdivideFacts
<1>6. TreeTypeOK'
  <2>1. tree' \in [DOMAIN tree' -> Nodes]
    <3>1. \A q \in DOMAIN tree' : tree'[q] \in Nodes
      BY <1>4, <1>5 DEF TreeInv, TreeTypeOK
    <3>2. tree' = [q \in DOMAIN tree' |-> tree'[q]]
      BY DEF PassOn, Subdivide
    <3>3. QED
      BY <3>1, <3>2
  <2>2. DOMAIN tree' \subseteq Seq(Quadrants)
    BY <1>4 DEF TreeInv, TreeTypeOK
  <2>3. Child(at, 1) \in DOMAIN tree'
    BY <1>5 DEF Quadrants
  <2>4. QED
    BY <1>1, <1>2, <2>1, <2>2, <2>3 DEF TreeInv, TreeTypeOK
<1>7. Depth'
  BY <1>1, <1>3, <1>4, <1>5 DEF TreeInv, Depth
<1>8. StoredInside'
  <2>1. SUFFICES ASSUME NEW q \in DOMAIN tree', NEW n \in tree'[q].points
                 PROVE  /\ n \in Returned
                        /\ \A k \in 0 .. Len(q) : Contains(tree'[Above(q, k)].boundary, given[n])
    BY <1>1, <1>2 DEF StoredInside
  <2>2. q \in DOMAIN tree /\ n \in tree[q].points
    BY <1>4, <1>5
  <2>3. \A k \in 0 .. Len(q) : Above(q, k) \in DOMAIN tree
    BY <2>2 DEF TreeInv, Shape
  <2>4. QED
    BY <1>5, <2>2, <2>3 DEF TreeInv, StoredInside
<1>9. StoredOnce'
  BY <1>4, <1>5 DEF TreeInv, StoredOnce
<1>10. NoneLost'
  BY <1>1, <1>2, <1>5 DEF TreeInv, NoneLost
<1>11. OnItsWay'
  <2> DEFINE next == Child(at, 1)
  <2>1. /\ Len(next) = Len(at) + 1 /\ next[Len(at) + 1] = 1
        /\ \A k \in 0 .. Len(at) : Above(next, k) = Above(at, k)
    <3>1. 1 \in Quadrants
      BY DEF Quadrants
    <3>2. QED
      BY <1>1, <3>1, PathFacts
  <2>2. \A k \in 0 .. Len(at) : Contains(tree[Above(at, k)].boundary, Arriving)
    <3>1. \A k \in 0 .. Len(at) - 1 : Contains(tree[Above(at, k)].boundary, Arriving)
      BY <1>1 DEF TreeInv, OnItsWay
    <3>2. Above(at, Len(at)) = at
      BY <1>1, AboveFacts
    <3>3. QED
      BY <1>1, <3>1, <3>2
  <2>3. \A k \in 0 .. Len(at) : Above(at, k) \in DOMAIN tree
    BY <1>1 DEF TreeInv, Shape
  <2>4. \A k \in 0 .. Len(next) - 1 : Contains(tree'[Above(next, k)].boundary, Arriving)
    BY <1>1, <1>5, <2>1, <2>2, <2>3
  <2>5. Len(next) < Len(given)
    BY <1>3, <2>1
  <2>6. 1 .. next[Len(next)] - 1 = {}
    BY <2>1
  <2>7. QED
    BY <1>1, <1>2, <2>4, <2>5, <2>6 DEF OnItsWay
<1>12. QED
  BY <1>6, <1>7, <1>8, <1>9, <1>10, <1>11, PassShape DEF TreeInv

-----------------------------------------------------------------------------
(* What a query finds, from where the points are.                          *)
LEMMA FoundFacts ==
  ASSUME TreeInv, NEW range \in Ranges
  PROVE  /\ {hit[2] : hit \in Found(range)} =
              {n \in Returned : Contains(range, given[n]) /\ Contains(Boundary, given[n])}
         /\ \A hit, other \in Found(range) : hit[2] = other[2] => hit = other
<1>1. range \in Rect
  BY TreeAssumption
<1>2. \A q \in DOMAIN tree :
        /\ Len(q) \in Nat /\ Above(q, 0) = <<>>
        /\ \A k \in 0 .. Len(q) : Above(q, k) \in DOMAIN tree
        /\ \A k \in 0 .. Len(q) : tree[Above(q, k)].boundary \in Rect
  BY NodeFacts, AboveFacts DEF TreeInv, Shape
<1>3. \A n \in 1 .. Len(given) : given[n] \in Point
  BY NodeFacts DEF TreeInv
<1>4. ASSUME NEW hit \in Found(range)
      PROVE  /\ hit = <<hit[1], hit[2]>> /\ hit[1] \in DOMAIN tree
             /\ hit[2] \in tree[hit[1]].points /\ hit[2] \in Returned
             /\ Contains(range, given[hit[2]]) /\ Contains(Boundary, given[hit[2]])
  <2>1. /\ hit = <<hit[1], hit[2]>> /\ hit[1] \in DOMAIN tree
        /\ hit[2] \in tree[hit[1]].points /\ Contains(range, given[hit[2]])
    BY DEF Found, Visited
  <2>2. hit[2] \in Returned /\ Contains(tree[Above(hit[1], 0)].boundary, given[hit[2]])
    BY <1>2, <2>1 DEF TreeInv, StoredInside
  <2>3. QED
    BY <1>2, <2>1, <2>2 DEF TreeInv, Shape
<1>5. ASSUME NEW n \in Returned, Contains(range, given[n]), Contains(Boundary, given[n])
      PROVE  \E hit \in Found(range) : hit[2] = n
  <2>1. PICK q \in DOMAIN tree : n \in tree[q].points
    BY <1>5 DEF TreeInv, NoneLost
  <2>2. n \in 1 .. Len(given) /\ given[n] \in Point
    BY <1>3 DEF Returned
  <2>3. \A k \in 0 .. Len(q) : Intersects(tree[Above(q, k)].boundary, range)
    <3>1. \A k \in 0 .. Len(q) : Contains(tree[Above(q, k)].boundary, given[n])
      BY <2>1 DEF TreeInv, StoredInside
    <3>2. QED
      BY <1>1, <1>2, <1>5, <2>2, <3>1, CommonPoint
  <2>4. <<q, n>> \in Found(range)
    BY <1>5, <2>1, <2>2, <2>3 DEF Found, Visited
  <2>5. QED
    BY <2>4
<1>6. ASSUME NEW hit \in Found(range), NEW other \in Found(range), hit[2] = other[2]
      PROVE  hit = other
  <2>1. hit[1] = other[1]
    BY <1>4, <1>6 DEF TreeInv, StoredOnce
  <2>2. QED
    BY <1>4, <1>6, <2>1
<1>7. QED
  BY <1>4, <1>5, <1>6

LEMMA TreeInvariant == TreeSpec => []TreeInv
<1>1. TreeInv /\ [TreeNext]_treeVars => TreeInv'
  <2> SUFFICES ASSUME TreeInv, [TreeNext]_treeVars PROVE TreeInv'
    OBVIOUS
  <2>1. CASE UNCHANGED treeVars
    BY <2>1 DEF treeVars, TreeInv, TreeTypeOK, Nodes, Shape, Divided, Depth,
       StoredInside, Returned, StoredOnce, NoneLost, OnItsWay, Arriving
  <2>2. QED
    BY <2>1, InsertStep, OutsideStep, KeepStep, PassStep DEF TreeNext
<1>2. QED
  BY <1>1, TreeInitInv, PTL DEF TreeSpec

(* However many points are inserted, on whatever border, and however deep  *)
(* the tree, a query finds each point of the range that Insert took, once, *)
(* and Insert takes every point of the root's boundary.                    *)
THEOREM QueriesAreExact == TreeSpec => []QueryExact
<1>1. TreeInv => QueryExact
  BY FoundFacts DEF QueryExact
<1>2. QED
  BY <1>1, TreeInvariant, PTL
=============================================================================
