------------------------------ MODULE SpatialIndex -----------------------------
(***************************************************************************)
(* The H3 index of internal/spatial/h3_index.go: two maps, from a cell to  *)
(* the snapshots of the drivers in it and from a driver to its cell, under *)
(* one read-write mutex, so that each method is one atomic action.         *)
(*                                                                         *)
(* A location is abstracted to the cell H3 computes for it, NoCell when H3 *)
(* returns an error; of a driver's copy only its status and location are   *)
(* kept.  The geometry is the library's: Distance counts grid steps.       *)
(***************************************************************************)
EXTENDS Naturals, FiniteSets

CONSTANTS
  Drivers,      \* driver IDs
  Status,       \* driver statuses
  Cells,        \* H3 cells of the index's resolution
  NoCell,       \* what H3 returns for a location it rejects
  Nothing,      \* no entry of a driver in a cell's map
  Distance(_, _)  \* grid distance of two cells

VARIABLES
  cellToDrivers,  \* cell -> driver -> snapshot
  allocated,      \* the keys of the outer map
  driverToCell    \* driver -> its cell

vars == <<cellToDrivers, allocated, driverToCell>>

Snapshot == [status: Status, loc: Cells \cup {NoCell}]

ASSUME IndexAssumption ==
  /\ NoCell \notin Cells
  /\ Nothing \notin Snapshot

TypeOK ==
  /\ cellToDrivers \in [Cells -> [Drivers -> Snapshot \cup {Nothing}]]
  /\ allocated \subseteq Cells
  /\ driverToCell \in [Drivers -> Cells \cup {NoCell}]

Init ==
  /\ cellToDrivers = [c \in Cells |-> [d \in Drivers |-> Nothing]]
  /\ allocated = {}
  /\ driverToCell = [d \in Drivers |-> NoCell]

Indexed(d) == driverToCell[d] # NoCell

Holds(c, d) == cellToDrivers[c][d] # Nothing

-----------------------------------------------------------------------------
(* Update moves the driver's snapshot from its old cell to the new one.    *)
(* The map of the old cell stays, even when it becomes empty.              *)
Moved_LeavesOld(d, old, s) ==
  [cellToDrivers EXCEPT ![s.loc][d] = s]

Moved(d, old, s) ==
  [c \in Cells |-> [cellToDrivers[c] EXCEPT
     ![d] = IF c = s.loc THEN s ELSE IF c = old THEN Nothing ELSE @]]

Place(d, s, snapshots) ==
  /\ cellToDrivers' = snapshots
  /\ allocated' = allocated \cup {s.loc}
  /\ driverToCell' = [driverToCell EXCEPT ![d] = s.loc]

(* A location that H3 rejects changes nothing, and Update says nothing.    *)
Update(d, s) ==
  IF s.loc = NoCell THEN UNCHANGED vars
                    ELSE Place(d, s, Moved(d, driverToCell[d], s))

(* Insert is for a driver the index does not know: it does not look for an *)
(* older cell, and would leave the driver in both.  Nothing in src calls it*)
(* with an indexed driver.                                                 *)
Insert(d, s) ==
  /\ ~Indexed(d)
  /\ IF s.loc = NoCell THEN UNCHANGED vars
                       ELSE Place(d, s, [cellToDrivers EXCEPT ![s.loc][d] = s])

(* Remove drops a cell's map with its last driver.                         *)
Emptied_Always(c, d) == Holds(c, d)

Emptied(c, d) == \A e \in Drivers \ {d} : ~Holds(c, e)

Remove(d) ==
  IF Indexed(d)
  THEN LET c == driverToCell[d] IN
       /\ cellToDrivers' = [cellToDrivers EXCEPT
            ![c] = IF Emptied(c, d) THEN [e \in Drivers |-> Nothing]
                                    ELSE [@ EXCEPT ![d] = Nothing]]
       /\ allocated' = IF Emptied(c, d) THEN allocated \ {c} ELSE allocated
       /\ driverToCell' = [driverToCell EXCEPT ![d] = NoCell]
  ELSE UNCHANGED vars

(* Nearby reads one result from each map that holds an idle snapshot; a    *)
(* driver with a snapshot in two cells is reported twice.                  *)
GridDisk(cell, k) == {c \in Cells : Distance(cell, c) <= k}

Nearby(cell, k) ==
  {hit \in (allocated \cap GridDisk(cell, k)) \X Drivers :
     /\ Holds(hit[1], hit[2])
     /\ cellToDrivers[hit[1]][hit[2]].status = "idle"}

Next ==
  \E d \in Drivers :
    \/ Remove(d)
    \/ \E s \in Snapshot : Update(d, s) \/ Insert(d, s)

Spec == Init /\ [][Next]_vars

-----------------------------------------------------------------------------
(* The two maps agree: a driver has a snapshot in the cell driverToCell    *)
(* names, taken there, and in no other, and that cell's map is allocated.  *)
(* Otherwise Match sees a driver twice, or Remove leaves one behind.       *)
MapsAgree ==
  \A c \in Cells, d \in Drivers :
    /\ Holds(c, d) <=> driverToCell[d] = c
    /\ Holds(c, d) => cellToDrivers[c][d].loc = c /\ c \in allocated

(* The driver's entry as the interface promises it.                        *)
Entry(d) == IF Indexed(d) THEN cellToDrivers[driverToCell[d]][d] ELSE Nothing

(* Nearby finds each idle driver within k steps once, where its last       *)
(* snapshot puts it, and no other driver.                                  *)
NearbyExact ==
  \A cell \in Cells, k \in {Distance(b, c) : b, c \in Cells} :
    Nearby(cell, k) =
      {<<Entry(d).loc, d>> : d \in
         {e \in Drivers : Entry(e) # Nothing /\ Entry(e).status = "idle"
                            /\ Distance(cell, Entry(e).loc) <= k}}

(* The index is a directory of last snapshots.                             *)
Abstract == INSTANCE Directory WITH
  Snapshots <- Snapshot, dir <- [d \in Drivers |-> Entry(d)]

Implements == Abstract!Spec
=============================================================================
