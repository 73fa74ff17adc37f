--------------------------------- MODULE Search --------------------------------
(***************************************************************************)
(* The searches of internal/spatial/h3_index.go that widen ring by ring:   *)
(* NearbyAdaptive and NearbyProgressive.  A search holds the index's read  *)
(* lock from beginning to end, so the index does not change under it; the  *)
(* order in which it meets the cells of a disk and the drivers of a cell   *)
(* is any order, as it is for a Go map.                                    *)
(***************************************************************************)
EXTENDS SpatialIndex, Sequences

CONSTANTS
  VeryDense, Dense, Sparse,  \* 50, 15 and 5 drivers in adaptiveMaxRings
  Targets,                   \* the values of targetCount that are asked for
  Reaches                    \* the values of maxRings that are asked for

VARIABLE search              \* the locals of the search

ASSUME SearchAssumption ==
  /\ VeryDense >= Dense /\ Dense >= Sparse
  /\ Targets \subseteq Nat
  /\ Reaches \subseteq Nat
  /\ \A b, c \in Cells : Distance(b, c) \in Nat

NoSearch == [kind |-> "none", origin |-> NoCell, target |-> 0,
             limit |-> 0, ring |-> 0, found |-> <<>>]

SearchTypeOK ==
  /\ TypeOK
  /\ search.kind \in {"none", "adaptive", "progressive"}
  /\ search.kind # "none" => search.origin \in Cells
  /\ search.target \in Targets \cup {0}
  /\ search.limit \in Nat
  /\ search.ring \in 0 .. search.limit + 1
  /\ search.found \in Seq(Cells \X Drivers)

SearchInit == Init /\ search = NoSearch

-----------------------------------------------------------------------------
(* How far to look, by the number of drivers in the origin's cell,         *)
(* whatever their status.                                                  *)
adaptiveMaxRings(count) ==
  IF count >= VeryDense THEN 1
  ELSE IF count >= Dense THEN 2
  ELSE IF count >= Sparse THEN 3 ELSE 5

Density(cell) == Cardinality({d \in Drivers : Holds(cell, d)})

Begin(kind, origin, target, limit) ==
  /\ search = NoSearch
  /\ search' = [kind |-> kind, origin |-> origin, target |-> target,
                limit |-> limit, ring |-> 0, found |-> <<>>]

NearbyAdaptive(origin, target) ==
  Begin("adaptive", origin, target, adaptiveMaxRings(Density(origin)))

NearbyProgressive(origin, target, reach) ==
  Begin("progressive", origin, target, reach)

(* NearbyAdaptive passes over drivers that are not idle, NearbyProgressive *)
(* does not.                                                               *)
Wanted(c, d) ==
  /\ Holds(c, d)
  /\ search.kind = "adaptive" => cellToDrivers[c][d].status = "idle"

Seen(d) == \E i \in 1 .. Len(search.found) : search.found[i][2] = d

(* What the loop over GridDisk(ring) has still to append.                  *)
Unmet_Again ==
  {hit \in GridDisk(search.origin, search.ring) \X Drivers : Wanted(hit[1], hit[2])}

Unmet_WholeReach ==
  {hit \in GridDisk(search.origin, search.limit) \X Drivers :
     Wanted(hit[1], hit[2]) /\ ~Seen(hit[2])}

Unmet ==
  {hit \in GridDisk(search.origin, search.ring) \X Drivers :
     Wanted(hit[1], hit[2]) /\ ~Seen(hit[2])}

(* The count is compared after a driver is appended and never before, so   *)
(* that a search for none returns the first driver it meets.               *)
Enough == search.found # <<>> /\ Len(search.found) >= search.target

Returning_OneRingMore ==
  search.kind # "none" /\ (Enough \/ search.ring > search.limit + 1)

Returning == search.kind # "none" /\ (Enough \/ search.ring > search.limit)

Meet ==
  /\ ~Returning
  /\ \E hit \in Unmet : search' = [search EXCEPT !.found = Append(@, hit)]

NextRing ==
  /\ ~Returning
  /\ Unmet = {}
  /\ search' = [search EXCEPT !.ring = @ + 1]

Return == Returning /\ search' = NoSearch

SearchNext ==
  \/ search = NoSearch /\ Next /\ UNCHANGED search
  \/ /\ \E origin \in Cells, target \in Targets :
          \/ NearbyAdaptive(origin, target)
          \/ \E reach \in Reaches : NearbyProgressive(origin, target, reach)
     /\ UNCHANGED vars
  \/ /\ search # NoSearch
     /\ Meet \/ NextRing \/ Return
     /\ UNCHANGED vars

SearchSpec == SearchInit /\ [][SearchNext]_<<vars, search>>

-----------------------------------------------------------------------------
Within(k) == {d \in Drivers : \E c \in GridDisk(search.origin, k) : Wanted(c, d)}

(* A search returns as many drivers as it was asked for, or all within its *)
(* reach if they are fewer, and none twice, although every disk holds the  *)
(* cells of the smaller ones again.  Asked for none, it returns one.       *)
AnswerExact ==
  Returning =>
    LET asked == IF search.target = 0 THEN 1 ELSE search.target
        there == Cardinality(Within(search.limit))
    IN  Len(search.found) = IF there < asked THEN there ELSE asked

(* It prefers the nearer ring: a driver passed over is in no nearer ring   *)
(* than any driver returned.                                               *)
NearestFirst ==
  Returning =>
    \A i \in 1 .. Len(search.found), c \in Cells, d \in Drivers :
      Wanted(c, d) /\ ~Seen(d)
        => Distance(search.origin, c) >= Distance(search.origin, search.found[i][1])
=============================================================================
