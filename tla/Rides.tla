---------------------------------- MODULE Rides --------------------------------
(***************************************************************************)
(* The two ride repositories, each under the same ledger.  A program is    *)
(* wired with one of them: a behaviour uses one.                           *)
(***************************************************************************)
EXTENDS MemoryRides

CONSTANTS Creators, DbCanFail  \* as in PostgresRides

VARIABLES table, create, pending

Postgres == INSTANCE PostgresRides WITH update <- pending

BothInit == Init /\ Postgres!Init

BothNext ==
  \/ Init /\ Postgres!Next /\ UNCHANGED vars
  \/ Postgres!Init /\ Next /\ UNCHANGED <<table, create, pending>>

BothSpec == BothInit /\ [][BothNext]_<<vars, table, create, pending>>

(* Types of both repositories and of the calls in the middle of them.      *)
BothTypeOK == TypeOK /\ Postgres!TypeOK

(* The Postgres repository implements the ledger, whatever statements fail *)
(* after they took effect (internal/ride/postgre.go).                      *)
PostgresImplements == Postgres!PostgresImplements

(* A call told that it created a ride created it for its own driver, and   *)
(* no other call is told so of the same ride (internal/ride/postgre.go).   *)
CreatedOnce == Postgres!CreatedOnce
=============================================================================
