------------------------------ MODULE PostgresRides ----------------------------
(***************************************************************************)
(* The ride repository in Postgres, internal/ride/postgre.go, and          *)
(* UpdateRideStatus of internal/ride/service.go over it.  Each statement   *)
(* is one step, everything may happen between two.  The schema is not in   *)
(* the repository: of uniq_active_ride_per_rider what its name says is     *)
(* taken, that a rider has no two active rides.                            *)
(*                                                                         *)
(* A ride's ID is its place in the table; a caller updates a rider's ride. *)
(***************************************************************************)
EXTENDS Naturals, Sequences

CONSTANTS
  Drivers, Riders, NoDriver,  \* as in RideStore
  Creators,   \* callers of CreateIfAbsent
  Updaters,   \* callers of UpdateRideStatus
  MaxRides,   \* rows in the table
  DbCanFail   \* whether a statement may return an error

VARIABLES
  table,      \* the rides table: ID -> row
  create,     \* creator -> the locals of its call, or its result
  update      \* updater -> the locals of its call

vars == <<table, create, update>>

(* A rider's ride is the last row the rider has.                           *)
RowsOf(r) == {i \in 1 .. Len(table) : table[i].rider = r}

LastRow(r) == CHOOSE i \in RowsOf(r) : \A j \in RowsOf(r) : j <= i

Ledger == INSTANCE RideLedger WITH rides <-
  [r \in Riders |->
     IF RowsOf(r) = {} THEN [driver |-> NoDriver, status |-> "none"]
     ELSE [driver |-> table[LastRow(r)].driver, status |-> table[LastRow(r)].status]]

Row == [rider: Riders, driver: Drivers, status: Ledger!RideStatus]

NoCreate == [pc |-> "none", id |-> 0]
NoUpdate == [pc |-> "none", id |-> 0]

TypeOK ==
  /\ table \in Seq(Row) /\ Len(table) <= MaxRides
  /\ create \in [Creators -> {NoCreate} \cup
       [pc: {"select", "created", "existing", "refused", "failed"},
        rider: Riders, driver: Drivers, id: 0 .. Len(table)]]
  /\ \A c \in Creators :
       create[c].id # 0 => table[create[c].id].rider = create[c].rider
  /\ update \in [Updaters -> {NoUpdate} \cup
       [pc: {"persist"}, id: 1 .. Len(table), to: Ledger!RideStatus]]

Init ==
  /\ table = <<>>
  /\ create = [c \in Creators |-> NoCreate]
  /\ update = [u \in Updaters |-> NoUpdate]

-----------------------------------------------------------------------------
ActiveRows_OfAnyone(r) ==
  {i \in 1 .. Len(table) : table[i].status \in Ledger!ActiveStatus}

ActiveRows(r) ==
  {i \in 1 .. Len(table) :
     table[i].rider = r /\ table[i].status \in Ledger!ActiveStatus}

Insert(r, d) ==
  table' = IF ActiveRows(r) = {}
           THEN Append(table, [rider |-> r, driver |-> d, status |-> "assigned"])
           ELSE table

CreateBecomes(c, pc, r, d, id) ==
  create' = [create EXCEPT ![c] = [pc |-> pc, rider |-> r, driver |-> d, id |-> id]]

(* CreateIfAbsent: INSERT ... ON CONFLICT DO NOTHING, and whether it has   *)
(* affected a row.                                                         *)
InsertRide_IgnoresRows(c, r, d) ==
  /\ create[c].pc = "none"
  /\ Len(table) < MaxRides
  /\ Insert(r, d)
  /\ CreateBecomes(c, "created", r, d, Len(table'))
  /\ UNCHANGED update

InsertRide(c, r, d) ==
  /\ create[c].pc = "none"
  /\ Len(table) < MaxRides
  /\ Insert(r, d)
  /\ IF ActiveRows(r) = {} THEN CreateBecomes(c, "created", r, d, Len(table'))
                           ELSE CreateBecomes(c, "select", r, d, 0)
  /\ UNCHANGED update

(* An error of the statement or of RowsAffected, with or without the row.  *)
InsertFails(c, r, d) ==
  /\ DbCanFail
  /\ create[c].pc = "none"
  /\ Len(table) < MaxRides
  /\ Insert(r, d) \/ UNCHANGED table
  /\ CreateBecomes(c, "failed", r, d, 0)
  /\ UNCHANGED update

(* GetActiveByRider after a conflict: the ride may have ended since.       *)
SelectRide(c) ==
  /\ create[c].pc = "select"
  /\ LET r == create[c].rider IN
       IF ActiveRows(r) = {}
       THEN CreateBecomes(c, "refused", r, create[c].driver, 0)
       ELSE \E i \in ActiveRows(r) : CreateBecomes(c, "existing", r, create[c].driver, i)
  /\ UNCHANGED <<table, update>>

SelectFails(c) ==
  /\ DbCanFail
  /\ create[c].pc = "select"
  /\ CreateBecomes(c, "failed", create[c].rider, create[c].driver, 0)
  /\ UNCHANGED <<table, update>>

Return(c) ==
  /\ create[c].pc \notin {"none", "select"}
  /\ create' = [create EXCEPT ![c] = NoCreate]
  /\ UNCHANGED <<table, update>>

-----------------------------------------------------------------------------
(* UpdateRideStatus: GetActiveByRider and ValidateRideTransition; a call   *)
(* that finds no ride or no transition ends here.                          *)
CheckRide(u, r, to) ==
  /\ update[u].pc = "none"
  /\ \E i \in ActiveRows(r) :
       /\ Ledger!ValidateRideTransition(table[i].status, to)
       /\ update' = [update EXCEPT ![u] = [pc |-> "persist", id |-> i, to |-> to]]
  /\ UNCHANGED <<table, create>>

(* UpdateStatus: an UPDATE of the row whatever its status is now.  The     *)
(* constraint refuses a second active ride; any error ends the call.       *)
Refused(i, to) ==
  to \in Ledger!ActiveStatus /\ ActiveRows(table[i].rider) \ {i} # {}

SetStatus(i, to) == [table EXCEPT ![i].status = to]

PersistStatus(u) ==
  /\ update[u].pc = "persist"
  /\ LET i == update[u].id IN
       table' = IF Refused(i, update[u].to) THEN table ELSE SetStatus(i, update[u].to)
  /\ update' = [update EXCEPT ![u] = NoUpdate]
  /\ UNCHANGED create

PersistFails(u) ==
  /\ DbCanFail
  /\ update[u].pc = "persist"
  /\ update' = [update EXCEPT ![u] = NoUpdate]
  /\ UNCHANGED <<table, create>>

Next ==
  \/ \E c \in Creators, r \in Riders, d \in Drivers :
       InsertRide(c, r, d) \/ InsertFails(c, r, d)
  \/ \E c \in Creators : SelectRide(c) \/ SelectFails(c) \/ Return(c)
  \/ \E u \in Updaters, r \in Riders, to \in Ledger!RideStatus : CheckRide(u, r, to)
  \/ \E u \in Updaters : PersistStatus(u) \/ PersistFails(u)

Spec == Init /\ [][Next]_vars

-----------------------------------------------------------------------------
(* "Exactly-once ride creation" (internal/ride/repository.go:11): a call   *)
(* told that it created a ride created that ride for its own driver, and   *)
(* no other call is told the same of it.                                   *)
CreatedOnce ==
  \A c \in Creators : create[c].pc = "created" =>
    /\ create[c].id # 0
    /\ table[create[c].id].driver = create[c].driver
    /\ \A b \in Creators \ {c} : create[b].pc = "created" => create[b].id # create[c].id

(* With one update at a time, the two statements of CreateIfAbsent and the *)
(* check and the write of UpdateRideStatus act as one step each: the       *)
(* repository implements the ledger, whatever fails.                       *)
PostgresImplements == Ledger!Spec
=============================================================================
