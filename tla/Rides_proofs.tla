------------------------------ MODULE Rides_proofs -----------------------------
(***************************************************************************)
(* What holds of the two ride repositories for any number of riders,       *)
(* drivers, rides and callers: of the one in memory, that it implements    *)
(* the ledger and stores no update; of the one in Postgres, that it        *)
(* creates a ride once, and implements the ledger for one update at a      *)
(* time.                                                                   *)
(***************************************************************************)
EXTENDS Rides, Sequences, TLAPS

-----------------------------------------------------------------------------
(* In memory.                                                              *)

(* The inductive invariant: a call that is about to store a status holds   *)
(* the ID of a ride, which is no key of the map "keyed by riderID"         *)
(* (internal/ride/repo_memory.go:15), so that no ride ever leaves ASSIGNED.*)
StaysAssigned == \A r \in Riders : rides[r].status \in {"none", "assigned"}

HoldsId == \A u \in Updaters : update[u] # NoUpdate => update[u].key \in Ids

Inv == TypeOK /\ HoldsId /\ StaysAssigned

LEMMA InitInv == Init => Inv
BY RidesAssumption DEF Init, Inv, TypeOK, HoldsId, StaysAssigned, NoRide

LEMMA CreateStep ==
  ASSUME Inv,
         NEW r \in Riders, NEW d \in Drivers, CreateIfAbsent(r, d)
  PROVE  Inv' /\ Ledger!CreateIfAbsent(r, d)
<1> DEFINE ride == [id |-> created + 1, driver |-> d, status |-> "assigned"]
<1>1. /\ created \in Nat /\ created < MaxRides /\ created' = created + 1
      /\ rides' = [rides EXCEPT ![r] = ride]
      /\ update' = update
  BY RidesAssumption DEF CreateIfAbsent, Inv, TypeOK
<1>2. created' \in 0 .. MaxRides
  BY <1>1, RidesAssumption
<1>3. \A q \in Riders : rides'[q] = IF q = r THEN ride ELSE rides[q]
  BY <1>1 DEF Inv, TypeOK
<1>4. ASSUME NEW q \in Riders
      PROVE  rides[q] \in [id: 0 .. created', driver: Drivers \cup {NoDriver},
                           status: Ledger!RideStatus \cup {"none"}]
  BY <1>1 DEF Inv, TypeOK
<1>5. ride \in [id: 0 .. created', driver: Drivers \cup {NoDriver},
                status: Ledger!RideStatus \cup {"none"}]
  BY <1>1 DEF Ledger!RideStatus, Ledger!ActiveStatus
<1>6. TypeOK'
  BY <1>1, <1>2, <1>3, <1>4, <1>5 DEF Inv, TypeOK
<1>7. HoldsId'
  BY <1>1 DEF Inv, HoldsId
<1>8. StaysAssigned'
  BY <1>3 DEF Inv, StaysAssigned
<1>9. Ledger!CreateIfAbsent(r, d)
  BY <1>1, <1>3 DEF CreateIfAbsent, Active, Inv, TypeOK, Ledger!CreateIfAbsent,
     Ledger!Creates, Ledger!Active, Ledger!Assigned
<1>10. QED
  BY <1>6, <1>7, <1>8, <1>9 DEF Inv

LEMMA CheckStep ==
  ASSUME Inv,
         NEW u \in Updaters, NEW key \in Keys, NEW to \in Ledger!RideStatus,
         CheckRide(u, key, to)
  PROVE  Inv' /\ UNCHANGED rides
<1>1. /\ key \in Riders /\ rides[key].status # "none"
      /\ UNCHANGED <<rides, created>>
      /\ update' = [update EXCEPT ![u] =
                      [pc |-> "persist", key |-> rides[key].id, to |-> to]]
  BY DEF CheckRide, Active, Ledger!ActiveStatus
<1>2. rides[key].id \in Ids
  <2>1. /\ created \in 0 .. MaxRides
        /\ rides[key].id \in 0 .. created /\ rides[key].id # 0
    BY <1>1 DEF Inv, TypeOK
  <2>2. QED
    BY <2>1, RidesAssumption DEF Ids
<1>3. QED
  BY <1>1, <1>2 DEF Inv, TypeOK, HoldsId, StaysAssigned, Keys

(* The status to store finds no ride: the ID it is filed under is no key   *)
(* of the map.                                                             *)
LEMMA PersistStep ==
  ASSUME Inv, NEW u \in Updaters, PersistStatus(u)
  PROVE  Inv' /\ UNCHANGED rides
<1>1. update[u].key \notin Riders
  BY RidesAssumption DEF PersistStatus, Inv, HoldsId, KeysDistinct
<1>2. UNCHANGED <<rides, created>> /\ update' = [update EXCEPT ![u] = NoUpdate]
  BY <1>1 DEF PersistStatus, Found
<1>3. QED
  BY <1>2 DEF Inv, TypeOK, HoldsId, StaysAssigned

LEMMA StepInv ==
  ASSUME Inv, [Next]_vars
  PROVE  Inv' /\ [Ledger!Next]_Ledger!vars
<1>1. CASE UNCHANGED vars
  BY <1>1 DEF vars, Inv, TypeOK, HoldsId, StaysAssigned, Ledger!vars
<1>2. ASSUME NEW r \in Riders, NEW d \in Drivers, CreateIfAbsent(r, d)
      PROVE  Inv' /\ [Ledger!Next]_Ledger!vars
  BY <1>2, CreateStep DEF Ledger!Next
<1>3. ASSUME UNCHANGED rides
      PROVE  UNCHANGED Ledger!vars
  BY <1>3 DEF Ledger!vars
<1>4. QED
  BY <1>1, <1>2, <1>3, CheckStep, PersistStep DEF Next

(* What the counterexample to UpdatesAreStored shows of one update holds   *)
(* of all: whoever calls UpdateRideStatus of internal/ride/service.go, in  *)
(* whatever order, no update is stored and a ride stays ASSIGNED.          *)
THEOREM UpdatesAreLost == Spec => []StaysAssigned
<1>1. Init => Inv
  BY InitInv
<1>2. Inv /\ [Next]_vars => Inv'
  BY StepInv
<1>3. Inv => StaysAssigned
  BY DEF Inv
<1>4. QED
  BY <1>1, <1>2, <1>3, PTL DEF Spec

(* The in-memory repository keeps one ride of a rider at a time and takes  *)
(* it along legal edges only.                                              *)
THEOREM MemoryImplementsLedger == Spec => MemoryImplements
<1>1. Init => Inv
  BY InitInv
<1>2. Init => Ledger!Init
  BY DEF Init, NoRide, Ledger!Init, Ledger!NoRide
<1>3. Inv /\ [Next]_vars => Inv' /\ [Ledger!Next]_Ledger!vars
  BY StepInv
<1>4. QED
  BY <1>1, <1>2, <1>3, PTL DEF Spec, MemoryImplements, Ledger!Spec

-----------------------------------------------------------------------------
(* In Postgres.                                                            *)

CreateCall(n) ==
  [pc: {"select", "created", "existing", "refused", "failed"},
   rider: Riders, driver: Drivers, id: 0 .. n]

UpdateCall(n) == [pc: {"persist"}, id: 1 .. n, to: Postgres!Ledger!RideStatus]

LEMMA PostgresTypes ==
  Postgres!TypeOK <=>
    /\ table \in Seq(Postgres!Row) /\ Len(table) <= MaxRides
    /\ create \in [Creators -> {Postgres!NoCreate} \cup CreateCall(Len(table))]
    /\ \A c \in Creators :
         create[c].id # 0 => table[create[c].id].rider = create[c].rider
    /\ pending \in [Updaters -> {Postgres!NoUpdate} \cup UpdateCall(Len(table))]
BY DEF Postgres!TypeOK, CreateCall, UpdateCall

(* No statement takes a row away or gives it another rider or driver.      *)
Grows ==
  /\ table' \in Seq(Postgres!Row)
  /\ Len(table) \in Nat /\ Len(table') \in Nat
  /\ Len(table) <= Len(table') /\ Len(table') <= MaxRides
  /\ \A i \in 1 .. Len(table) :
       table'[i].rider = table[i].rider /\ table'[i].driver = table[i].driver

LEMMA InsertGrows ==
  ASSUME Postgres!TypeOK, NEW r \in Riders, NEW d \in Drivers,
         Len(table) < MaxRides, Postgres!Insert(r, d)
  PROVE  /\ Grows
         /\ \A i \in 1 .. Len(table) : table'[i] = table[i]
         /\ Postgres!ActiveRows(r) = {} =>
              /\ Len(table') = Len(table) + 1
              /\ table'[Len(table')] = [rider |-> r, driver |-> d, status |-> "assigned"]
         /\ Postgres!ActiveRows(r) # {} => UNCHANGED table
<1> DEFINE row == [rider |-> r, driver |-> d, status |-> "assigned"]
<1>1. table \in Seq(Postgres!Row) /\ Len(table) \in Nat
  BY PostgresTypes
<1>2. row \in Postgres!Row
  BY DEF Postgres!Row, Postgres!Ledger!RideStatus, Postgres!Ledger!ActiveStatus
<1>3. CASE Postgres!ActiveRows(r) = {}
  <2>1. table' = Append(table, row)
    BY <1>3 DEF Postgres!Insert
  <2>2. QED
    BY <1>1, <1>2, <1>3, <2>1, RidesAssumption DEF Grows
<1>4. CASE Postgres!ActiveRows(r) # {}
  BY <1>1, <1>4, RidesAssumption DEF Postgres!Insert, Grows
<1>5. QED
  BY <1>3, <1>4

LEMMA SetStatusGrows ==
  ASSUME Postgres!TypeOK, NEW i \in 1 .. Len(table), NEW to \in Postgres!Ledger!RideStatus,
         table' = Postgres!SetStatus(i, to)
  PROVE  /\ Grows
         /\ Len(table') = Len(table)
         /\ \A j \in 1 .. Len(table) :
              table'[j] = IF j = i THEN [table[i] EXCEPT !.status = to] ELSE table[j]
<1>1. table \in Seq(Postgres!Row) /\ Len(table) \in Nat /\ Len(table) <= MaxRides
  BY PostgresTypes
<1>2. table[i] \in Postgres!Row
  BY <1>1
<1>3. [table[i] EXCEPT !.status = to] \in Postgres!Row
  BY <1>2 DEF Postgres!Row
<1>4. table' = [table EXCEPT ![i] = [table[i] EXCEPT !.status = to]]
  BY DEF Postgres!SetStatus
<1>5. table' \in Seq(Postgres!Row) /\ Len(table') = Len(table)
  BY <1>1, <1>3, <1>4
<1>6. \A j \in 1 .. Len(table) :
        table'[j] = IF j = i THEN [table[i] EXCEPT !.status = to] ELSE table[j]
  BY <1>1, <1>4
<1>7. \A j \in 1 .. Len(table) :
        table'[j].rider = table[j].rider /\ table'[j].driver = table[j].driver
  BY <1>2, <1>6 DEF Postgres!Row
<1>8. QED
  BY <1>1, <1>5, <1>6, <1>7 DEF Grows

(* An update in progress holds a row and a status.                         *)
LEMMA UpdateFacts ==
  ASSUME Postgres!TypeOK, NEW u \in Updaters, pending[u].pc = "persist"
  PROVE  pending[u].id \in 1 .. Len(table) /\ pending[u].to \in Postgres!Ledger!RideStatus
BY PostgresTypes DEF UpdateCall, Postgres!NoUpdate

LEMMA TableGrows ==
  ASSUME Postgres!TypeOK, Postgres!Next
  PROVE  Grows
<1>1. CASE UNCHANGED table
  BY <1>1, PostgresTypes DEF Grows
<1>2. ASSUME NEW r \in Riders, NEW d \in Drivers, Len(table) < MaxRides,
             Postgres!Insert(r, d)
      PROVE  Grows
  BY <1>2, InsertGrows
<1>3. ASSUME NEW u \in Updaters, Postgres!PersistStatus(u)
      PROVE  Grows
  <2>1. \/ UNCHANGED table
        \/ table' = Postgres!SetStatus(pending[u].id, pending[u].to)
    BY <1>3 DEF Postgres!PersistStatus
  <2>2. /\ pending[u].id \in 1 .. Len(table)
        /\ pending[u].to \in Postgres!Ledger!RideStatus
    BY <1>3, UpdateFacts DEF Postgres!PersistStatus
  <2>3. QED
    BY <1>1, <2>1, <2>2, SetStatusGrows
<1>4. QED
  BY <1>1, <1>2, <1>3
     DEF Postgres!Next, Postgres!InsertRide, Postgres!InsertFails, Postgres!SelectRide,
         Postgres!SelectFails, Postgres!Return, Postgres!CheckRide, Postgres!PersistFails

(* What a call of CreateIfAbsent comes to hold: it has created the row it  *)
(* names, a new one with its own driver, or it names an older row of its   *)
(* rider, or none.                                                         *)
Holding(call) ==
  /\ call \in {Postgres!NoCreate} \cup CreateCall(Len(table'))
  /\ call.id # 0 => table'[call.id].rider = call.rider
  /\ call.pc = "created" =>
       /\ call.id = Len(table) + 1 /\ call.id <= Len(table')
       /\ table'[call.id].driver = call.driver

LEMMA CreateSteps ==
  ASSUME Postgres!TypeOK, Postgres!Next
  PROVE  \/ UNCHANGED create
         \/ \E c \in Creators : \E call : Holding(call) /\ create' = [create EXCEPT ![c] = call]
<1>1. Grows /\ Len(table) \in Nat /\ Len(table') \in Nat /\ Len(table) <= Len(table')
  BY TableGrows DEF Grows
<1>2. ASSUME NEW c \in Creators, NEW r \in Riders, NEW d \in Drivers,
             Postgres!InsertRide(c, r, d)
      PROVE  \E call : Holding(call) /\ create' = [create EXCEPT ![c] = call]
  <2>1. CASE Postgres!ActiveRows(r) = {}
    <3> DEFINE call == [pc |-> "created", rider |-> r, driver |-> d, id |-> Len(table')]
    <3>1. Len(table') = Len(table) + 1
          /\ table'[Len(table')] = [rider |-> r, driver |-> d, status |-> "assigned"]
      BY <1>2, <2>1, InsertGrows DEF Postgres!InsertRide
    <3>2. call \in CreateCall(Len(table'))
      BY <1>1 DEF CreateCall
    <3>3. Holding(call)
      BY <1>1, <3>1, <3>2 DEF Holding
    <3>4. create' = [create EXCEPT ![c] = call]
      BY <1>2, <2>1 DEF Postgres!InsertRide, Postgres!CreateBecomes
    <3>5. QED
      BY <3>3, <3>4
  <2>2. CASE Postgres!ActiveRows(r) # {}
    <3> DEFINE call == [pc |-> "select", rider |-> r, driver |-> d, id |-> 0]
    <3>1. Holding(call)
      BY <1>1 DEF Holding, CreateCall
    <3>2. create' = [create EXCEPT ![c] = call]
      BY <1>2, <2>2 DEF Postgres!InsertRide, Postgres!CreateBecomes
    <3>3. QED
      BY <3>1, <3>2
  <2>3. QED
    BY <2>1, <2>2
<1>3. ASSUME NEW c \in Creators, NEW r \in Riders, NEW d \in Drivers,
             NEW pc \in {"failed", "refused"}, Postgres!CreateBecomes(c, pc, r, d, 0)
      PROVE  \E call : Holding(call) /\ create' = [create EXCEPT ![c] = call]
  <2> DEFINE call == [pc |-> pc, rider |-> r, driver |-> d, id |-> 0]
  <2>1. Holding(call)
    BY <1>1 DEF Holding, CreateCall
  <2>2. QED
    BY <1>3, <2>1 DEF Postgres!CreateBecomes
<1>4. ASSUME NEW c \in Creators, create[c].pc = "select"
      PROVE  create[c].rider \in Riders /\ create[c].driver \in Drivers
  BY <1>4, PostgresTypes DEF Postgres!NoCreate, CreateCall
<1>5. ASSUME NEW c \in Creators, Postgres!SelectRide(c)
      PROVE  \E call : Holding(call) /\ create' = [create EXCEPT ![c] = call]
  <2>1. PICK r \in Riders, d \in Drivers : r = create[c].rider /\ d = create[c].driver
    BY <1>4, <1>5 DEF Postgres!SelectRide
  <2>2. CASE Postgres!ActiveRows(r) = {}
    <3>1. Postgres!CreateBecomes(c, "refused", r, d, 0)
      BY <1>5, <2>1, <2>2 DEF Postgres!SelectRide
    <3>2. QED
      BY <1>3, <3>1
  <2>3. CASE Postgres!ActiveRows(r) # {}
    <3>1. PICK i \in Postgres!ActiveRows(r) : Postgres!CreateBecomes(c, "existing", r, d, i)
      BY <1>5, <2>1, <2>3 DEF Postgres!SelectRide
    <3> DEFINE call == [pc |-> "existing", rider |-> r, driver |-> d, id |-> i]
    <3>2. i \in 1 .. Len(table) /\ table[i].rider = r /\ UNCHANGED table
      BY <1>5, <3>1 DEF Postgres!ActiveRows, Postgres!SelectRide
    <3>3. Holding(call)
      BY <1>1, <3>2 DEF Holding, CreateCall
    <3>4. QED
      BY <3>1, <3>3 DEF Postgres!CreateBecomes
  <2>4. QED
    BY <2>2, <2>3
<1>6. ASSUME NEW c \in Creators, Postgres!SelectFails(c)
      PROVE  \E call : Holding(call) /\ create' = [create EXCEPT ![c] = call]
  BY <1>3, <1>4, <1>6 DEF Postgres!SelectFails
<1>7. ASSUME NEW c \in Creators, Postgres!Return(c)
      PROVE  \E call : Holding(call) /\ create' = [create EXCEPT ![c] = call]
  <2>1. Holding(Postgres!NoCreate)
    BY DEF Holding, Postgres!NoCreate
  <2>2. QED
    BY <1>7, <2>1 DEF Postgres!Return
<1>8. ASSUME NEW c \in Creators, NEW r \in Riders, NEW d \in Drivers,
             Postgres!InsertFails(c, r, d)
      PROVE  \E call : Holding(call) /\ create' = [create EXCEPT ![c] = call]
  BY <1>3, <1>8 DEF Postgres!InsertFails
<1>9. QED
  BY <1>2, <1>5, <1>6, <1>7, <1>8
     DEF Postgres!Next, Postgres!CheckRide, Postgres!PersistStatus, Postgres!PersistFails

(* What a call of UpdateRideStatus comes to hold.                          *)
LEMMA UpdateSteps ==
  ASSUME Postgres!TypeOK, Postgres!Next
  PROVE  \/ UNCHANGED pending
         \/ \E u \in Updaters :
              /\ Postgres!PersistStatus(u) \/ UNCHANGED table
              /\ pending' = [pending EXCEPT ![u] = Postgres!NoUpdate]
         \/ \E u \in Updaters, r \in Riders, to \in Postgres!Ledger!RideStatus :
              \E i \in Postgres!ActiveRows(r) :
                /\ Postgres!Ledger!ValidateRideTransition(table[i].status, to)
                /\ pending' = [pending EXCEPT ![u] = [pc |-> "persist", id |-> i, to |-> to]]
                /\ UNCHANGED table
BY DEF Postgres!Next, Postgres!InsertRide, Postgres!InsertFails, Postgres!SelectRide,
       Postgres!SelectFails, Postgres!Return, Postgres!CheckRide, Postgres!PersistStatus,
       Postgres!PersistFails

LEMMA PostgresTypeStep ==
  ASSUME Postgres!TypeOK, [Postgres!Next]_Postgres!vars
  PROVE  Postgres!TypeOK'
<1>1. CASE UNCHANGED Postgres!vars
  BY <1>1, PostgresTypes DEF Postgres!vars, Postgres!TypeOK
<1>2. CASE Postgres!Next
  <2>1. /\ table \in Seq(Postgres!Row) /\ Len(table) \in Nat
        /\ create \in [Creators -> {Postgres!NoCreate} \cup CreateCall(Len(table))]
        /\ \A c \in Creators :
             create[c].id # 0 => table[create[c].id].rider = create[c].rider
        /\ pending \in [Updaters -> {Postgres!NoUpdate} \cup UpdateCall(Len(table))]
    BY PostgresTypes
  <2>2. Grows
    BY <1>2, TableGrows
  <2>3. /\ CreateCall(Len(table)) \subseteq CreateCall(Len(table'))
        /\ UpdateCall(Len(table)) \subseteq UpdateCall(Len(table'))
    BY <2>2 DEF Grows, CreateCall, UpdateCall
  <2>4. create' \in [Creators -> {Postgres!NoCreate} \cup CreateCall(Len(table'))]
    BY <1>2, <2>1, <2>3, CreateSteps DEF Holding
  <2>5. ASSUME NEW c \in Creators, create'[c].id # 0
        PROVE  table'[create'[c].id].rider = create'[c].rider
    <3>1. CASE create'[c] = create[c]
      <4>1. create[c].id \in 1 .. Len(table)
        BY <2>1, <2>5, <3>1 DEF CreateCall, Postgres!NoCreate
      <4>2. QED
        BY <2>1, <2>2, <2>5, <3>1, <4>1 DEF Grows
    <3>2. CASE create'[c] # create[c]
      BY <1>2, <2>1, <2>5, <3>2, CreateSteps DEF Holding
    <3>3. QED
      BY <3>1, <3>2
  <2>6. pending' \in [Updaters -> {Postgres!NoUpdate} \cup UpdateCall(Len(table'))]
    <3>1. ASSUME NEW r \in Riders, NEW i \in Postgres!ActiveRows(r),
                 NEW to \in Postgres!Ledger!RideStatus
          PROVE  [pc |-> "persist", id |-> i, to |-> to] \in UpdateCall(Len(table))
      BY DEF Postgres!ActiveRows, UpdateCall
    <3>2. pending' \in [Updaters -> {Postgres!NoUpdate} \cup UpdateCall(Len(table))]
      BY <1>2, <2>1, <3>1, UpdateSteps
    <3>3. QED
      BY <2>3, <3>2
  <2>7. table' \in Seq(Postgres!Row) /\ Len(table') <= MaxRides
    BY <2>2 DEF Grows
  <2>8. QED
    BY <2>4, <2>5, <2>6, <2>7 DEF Postgres!TypeOK, CreateCall, UpdateCall
<1>3. QED
  BY <1>1, <1>2

LEMMA PostgresInitType == Postgres!Init => Postgres!TypeOK
<1>1. <<>> \in Seq(Postgres!Row) /\ Len(<<>>) = 0 /\ 0 <= MaxRides
  BY RidesAssumption
<1>2. QED
  BY <1>1 DEF Postgres!Init, Postgres!TypeOK, Postgres!NoCreate, Postgres!NoUpdate

LEMMA PostgresTypeCorrect == Postgres!Spec => []Postgres!TypeOK
BY PostgresInitType, PostgresTypeStep, PTL DEF Postgres!Spec

(* The types of both repositories hold, whichever of the two is used.      *)
THEOREM BothTypesCorrect == BothSpec => []BothTypeOK
<1> DEFINE BothInv == Inv /\ Postgres!TypeOK
<1>1. BothInit => BothInv
  BY InitInv, PostgresInitType DEF BothInit
<1>2. BothInv /\ [BothNext]_<<vars, table, create, pending>> => BothInv'
  <2> SUFFICES ASSUME BothInv, [BothNext]_<<vars, table, create, pending>>
               PROVE  BothInv'
    OBVIOUS
  <2>1. [Next]_vars /\ [Postgres!Next]_Postgres!vars
    BY DEF BothNext, Postgres!vars
  <2>2. QED
    BY <2>1, StepInv, PostgresTypeStep
<1>3. BothInv => BothTypeOK
  BY DEF Inv, BothTypeOK
<1>4. QED
  BY <1>1, <1>2, <1>3, PTL DEF BothSpec

-----------------------------------------------------------------------------
LEMMA CreatedOnceStep ==
  ASSUME Postgres!TypeOK, CreatedOnce, [Postgres!Next]_Postgres!vars
  PROVE  CreatedOnce'
<1>1. CASE UNCHANGED Postgres!vars
  BY <1>1 DEF Postgres!vars, CreatedOnce, Postgres!CreatedOnce
<1>2. CASE Postgres!Next
  <2>1. Grows /\ create \in [Creators -> {Postgres!NoCreate} \cup CreateCall(Len(table))]
    BY <1>2, TableGrows, PostgresTypes
  (* A call that goes on being "created" names the row it named.           *)
  <2>2. ASSUME NEW c \in Creators, create[c].pc = "created"
        PROVE  /\ create[c].id \in 1 .. Len(table)
               /\ table'[create[c].id].driver = create[c].driver
    <3>1. create[c].id \in 1 .. Len(table)
      BY <2>1, <2>2 DEF CreatedOnce, Postgres!CreatedOnce, CreateCall, Postgres!NoCreate
    <3>2. QED
      BY <2>1, <2>2, <3>1 DEF CreatedOnce, Postgres!CreatedOnce, Grows
  <2>3. CASE UNCHANGED create
    BY <2>2, <2>3 DEF CreatedOnce, Postgres!CreatedOnce
  <2>4. ASSUME NEW a \in Creators, NEW call, Holding(call),
               create' = [create EXCEPT ![a] = call]
        PROVE  CreatedOnce'
    <3>1. create'[a] = call /\ \A c \in Creators \ {a} : create'[c] = create[c]
      BY <2>1, <2>4
    <3>2. Len(table) \in Nat
      BY <2>1 DEF Grows
    <3>3. call.pc = "created" =>
            /\ call.id = Len(table) + 1
            /\ table'[call.id].driver = call.driver
      BY <2>4 DEF Holding
    <3>4. ASSUME NEW c \in Creators, create'[c].pc = "created"
          PROVE  /\ create'[c].id # 0
                 /\ table'[create'[c].id].driver = create'[c].driver
                 /\ \A b \in Creators \ {c} :
                      create'[b].pc = "created" => create'[b].id # create'[c].id
      <4>1. CASE c = a
        BY <2>2, <3>1, <3>2, <3>3, <3>4, <4>1
      <4>2. CASE c # a
        BY <2>2, <3>1, <3>2, <3>3, <3>4, <4>2 DEF CreatedOnce, Postgres!CreatedOnce
      <4>3. QED
        BY <4>1, <4>2
    <3>5. QED
      BY <3>4 DEF CreatedOnce, Postgres!CreatedOnce
  <2>5. QED
    BY <1>2, <2>3, <2>4, CreateSteps
<1>3. QED
  BY <1>1, <1>2

(* A caller told that it created a ride created one for its own driver,    *)
(* and no other caller is told so of that ride, whatever fails and however *)
(* many callers create and update.                                         *)
THEOREM RideIsCreatedOnce == Postgres!Spec => []CreatedOnce
<1>1. Postgres!Init => CreatedOnce
  BY DEF Postgres!Init, Postgres!NoCreate, CreatedOnce, Postgres!CreatedOnce
<1>2. Postgres!TypeOK /\ CreatedOnce /\ [Postgres!Next]_Postgres!vars => CreatedOnce'
  BY CreatedOnceStep
<1>3. QED
  BY <1>1, <1>2, PostgresTypeCorrect, PTL DEF Postgres!Spec

-----------------------------------------------------------------------------
(* The refinement.  Inductive for one updater: an active row is the last   *)
(* of its rider, so that the row an update has found stays the rider's     *)
(* ride, with the status that was checked, until it is written.            *)

ActiveIsLast ==
  \A i, j \in 1 .. Len(table) :
    table[i].status \in Postgres!Ledger!ActiveStatus /\ table[j].rider = table[i].rider
      => j <= i

HasLast ==
  \A r \in Riders : Postgres!RowsOf(r) # {} =>
    \E i \in Postgres!RowsOf(r) : \A j \in Postgres!RowsOf(r) : j <= i

ChecksHold ==
  \A u \in Updaters : pending[u].pc = "persist" =>
    <<table[pending[u].id].status, pending[u].to>> \in Postgres!Ledger!RideEdges

PostgresInv == Postgres!TypeOK /\ ActiveIsLast /\ HasLast /\ ChecksHold

LEMMA GreatestIsUnique ==
  ASSUME NEW S \in SUBSET Nat, NEW i \in S, \A j \in S : j <= i
  PROVE  (CHOOSE k \in S : \A j \in S : j <= k) = i
<1>1. ASSUME NEW k \in S, \A j \in S : j <= k
      PROVE  k = i
  BY <1>1
<1>2. QED
  BY <1>1

(* What the ledger sees of a rider: the rider's last row.                  *)
RideOf(r) ==
  IF Postgres!RowsOf(r) = {} THEN [driver |-> NoDriver, status |-> "none"]
  ELSE [driver |-> table[Postgres!LastRow(r)].driver,
        status |-> table[Postgres!LastRow(r)].status]

LEMMA RideOfRow ==
  ASSUME Postgres!TypeOK, NEW r, NEW i \in Postgres!RowsOf(r),
         \A j \in Postgres!RowsOf(r) : j <= i
  PROVE  RideOf(r) = [driver |-> table[i].driver, status |-> table[i].status]
<1>1. Postgres!RowsOf(r) \in SUBSET Nat
  BY PostgresTypes DEF Postgres!RowsOf
<1>2. Postgres!LastRow(r) = i
  BY <1>1, GreatestIsUnique DEF Postgres!LastRow
<1>3. QED
  BY <1>2 DEF RideOf

LEMMA RideOfRowNext ==
  ASSUME Postgres!TypeOK', NEW r, NEW i \in Postgres!RowsOf(r)',
         \A j \in Postgres!RowsOf(r)' : j <= i
  PROVE  RideOf(r)' = [driver |-> table'[i].driver, status |-> table'[i].status]
<1>1. Postgres!RowsOf(r)' \in SUBSET Nat
  BY DEF Postgres!RowsOf, Postgres!TypeOK
<1>2. Postgres!LastRow(r)' = i
  BY <1>1, GreatestIsUnique DEF Postgres!LastRow
<1>3. QED
  BY <1>2 DEF RideOf

(* The rows of a rider that no statement has touched show the same ride.   *)
LEMMA RideOfUntouched ==
  ASSUME PostgresInv, Postgres!TypeOK', NEW r \in Riders,
         Postgres!RowsOf(r)' = Postgres!RowsOf(r),
         \A i \in Postgres!RowsOf(r) : table'[i] = table[i]
  PROVE  RideOf(r)' = RideOf(r)
<1>1. CASE Postgres!RowsOf(r) = {}
  BY <1>1 DEF RideOf
<1>2. CASE Postgres!RowsOf(r) # {}
  <2>1. PICK i \in Postgres!RowsOf(r) : \A j \in Postgres!RowsOf(r) : j <= i
    BY <1>2 DEF PostgresInv, HasLast
  <2>2. RideOf(r) = [driver |-> table[i].driver, status |-> table[i].status]
    BY <2>1, RideOfRow DEF PostgresInv
  <2>3. RideOf(r)' = [driver |-> table'[i].driver, status |-> table'[i].status]
    BY <2>1, RideOfRowNext
  <2>4. QED
    BY <2>1, <2>2, <2>3
<1>3. QED
  BY <1>1, <1>2

LEMMA LedgerStutters ==
  ASSUME \A r \in Riders : RideOf(r)' = RideOf(r)
  PROVE  UNCHANGED Postgres!Ledger!vars
BY DEF Postgres!Ledger!vars, RideOf

(* An INSERT adds the rider's last row, and only while the rider has no    *)
(* active one.                                                             *)
LEMMA InsertCreates ==
  ASSUME PostgresInv, NEW r \in Riders, NEW d \in Drivers, Len(table) < MaxRides,
         Postgres!Insert(r, d), Postgres!TypeOK'
  PROVE  /\ ActiveIsLast' /\ HasLast'
         /\ \A i \in 1 .. Len(table) : table'[i] = table[i]
         /\ Postgres!Ledger!CreateIfAbsent(r, d) \/ UNCHANGED Postgres!Ledger!vars
<1>1. /\ Grows
      /\ \A i \in 1 .. Len(table) : table'[i] = table[i]
      /\ Postgres!ActiveRows(r) = {} =>
           /\ Len(table') = Len(table) + 1
           /\ table'[Len(table')] = [rider |-> r, driver |-> d, status |-> "assigned"]
      /\ Postgres!ActiveRows(r) # {} => UNCHANGED table
  BY InsertGrows DEF PostgresInv
<1>2. Len(table) \in Nat /\ table \in Seq(Postgres!Row)
  BY PostgresTypes DEF PostgresInv
<1>3. CASE Postgres!ActiveRows(r) # {}
  <2>1. UNCHANGED table
    BY <1>1, <1>3
  <2>2. \A q \in Riders : Postgres!RowsOf(q)' = Postgres!RowsOf(q)
    BY <2>1 DEF Postgres!RowsOf
  <2>3. \A q \in Riders : RideOf(q)' = RideOf(q)
    BY <2>1, <2>2, RideOfUntouched
  <2>4. QED
    BY <2>1, <2>2, <2>3, LedgerStutters DEF PostgresInv, ActiveIsLast, HasLast
<1>4. CASE Postgres!ActiveRows(r) = {}
  <2> DEFINE n == Len(table) + 1
  <2>1. Len(table') = n /\ table'[n] = [rider |-> r, driver |-> d, status |-> "assigned"]
    BY <1>1, <1>4
  <2>2. \A i \in 1 .. n : i = n \/ i \in 1 .. Len(table)
    BY <1>2
  <2>3. \A i \in 1 .. Len(table) :
          table[i].rider = r => table[i].status \notin Postgres!Ledger!ActiveStatus
    BY <1>4 DEF Postgres!ActiveRows
  <2>4. /\ Postgres!RowsOf(r)' = Postgres!RowsOf(r) \cup {n}
        /\ \A q \in Riders \ {r} : Postgres!RowsOf(q)' = Postgres!RowsOf(q)
    BY <1>1, <1>2, <2>1, <2>2 DEF Postgres!RowsOf
  <2>5. n \in Postgres!RowsOf(r)' /\ \A j \in Postgres!RowsOf(r)' : j <= n
    BY <1>2, <2>4 DEF Postgres!RowsOf
  <2>6. ActiveIsLast'
    <3>1. ASSUME NEW i \in 1 .. n, NEW j \in 1 .. n,
                 table'[i].status \in Postgres!Ledger!ActiveStatus,
                 table'[j].rider = table'[i].rider
          PROVE  j <= i
      <4>1. CASE i = n
        BY <1>2, <4>1
      <4>2. CASE i \in 1 .. Len(table) /\ j \in 1 .. Len(table)
        BY <1>1, <3>1, <4>2 DEF PostgresInv, ActiveIsLast
      <4>3. CASE i \in 1 .. Len(table) /\ j = n
        BY <1>1, <2>1, <2>3, <3>1, <4>3
      <4>4. QED
        BY <2>2, <4>1, <4>2, <4>3
    <3>2. QED
      BY <2>1, <3>1 DEF ActiveIsLast
  <2>7. HasLast'
    BY <2>4, <2>5 DEF PostgresInv, HasLast
  <2>8. RideOf(r)' = [driver |-> d, status |-> "assigned"]
    BY <2>1, <2>5, RideOfRowNext
  <2>9. ASSUME NEW q \in Riders \ {r}
        PROVE  RideOf(q)' = RideOf(q)
    <3>1. \A i \in Postgres!RowsOf(q) : table'[i] = table[i]
      BY <1>1 DEF Postgres!RowsOf
    <3>2. QED
      BY <2>4, <3>1, RideOfUntouched
  <2>10. RideOf(r).status \notin Postgres!Ledger!ActiveStatus
    <3>1. CASE Postgres!RowsOf(r) = {}
      BY <3>1 DEF RideOf, Postgres!Ledger!ActiveStatus
    <3>2. CASE Postgres!RowsOf(r) # {}
      <4>1. PICK i \in Postgres!RowsOf(r) : \A j \in Postgres!RowsOf(r) : j <= i
        BY <3>2 DEF PostgresInv, HasLast
      <4>2. RideOf(r).status = table[i].status
        BY <4>1, RideOfRow DEF PostgresInv
      <4>3. QED
        BY <2>3, <4>1, <4>2 DEF Postgres!RowsOf
    <3>3. QED
      BY <3>1, <3>2
  <2>11. Postgres!Ledger!CreateIfAbsent(r, d)
    BY <2>8, <2>9, <2>10
       DEF Postgres!Ledger!CreateIfAbsent, Postgres!Ledger!Creates, Postgres!Ledger!Active,
           Postgres!Ledger!Assigned, RideOf
  <2>12. QED
    BY <1>1, <2>6, <2>7, <2>11
<1>5. QED
  BY <1>3, <1>4

(* An UPDATE writes the rider's last row, and takes it along the edge that *)
(* was checked.                                                            *)
LEMMA PersistAdvances ==
  ASSUME PostgresInv, NEW u \in Updaters, pending[u].pc = "persist",
         table' = Postgres!SetStatus(pending[u].id, pending[u].to), Postgres!TypeOK'
  PROVE  /\ ActiveIsLast' /\ HasLast'
         /\ \E r \in Riders : Postgres!Ledger!Advance(r, pending[u].to)
<1>1. /\ pending[u].id \in 1 .. Len(table) /\ pending[u].to \in Postgres!Ledger!RideStatus
      /\ Len(table) \in Nat /\ table \in Seq(Postgres!Row)
  BY UpdateFacts, PostgresTypes DEF PostgresInv
<1>2. PICK i \in 1 .. Len(table), to \in Postgres!Ledger!RideStatus, r \in Riders :
        i = pending[u].id /\ to = pending[u].to /\ r = table[i].rider
  <2>1. \A k \in 1 .. Len(table) : table[k] \in Postgres!Row
    BY <1>1
  <2>2. \A row \in Postgres!Row : row.rider \in Riders
    BY DEF Postgres!Row
  <2>3. QED
    BY <1>1, <2>1, <2>2
<1>3. /\ Len(table') = Len(table)
      /\ \A j \in 1 .. Len(table) :
           /\ table'[j] = IF j = i THEN [table[i] EXCEPT !.status = to] ELSE table[j]
           /\ table'[j].rider = table[j].rider
  BY <1>2, SetStatusGrows DEF PostgresInv, Grows
<1>4. <<table[i].status, to>> \in Postgres!Ledger!RideEdges
  BY <1>2 DEF PostgresInv, ChecksHold
<1>5. table[i].status \in Postgres!Ledger!ActiveStatus
  BY <1>4 DEF Postgres!Ledger!RideEdges, Postgres!Ledger!ActiveStatus
<1>6. \A q \in Riders : Postgres!RowsOf(q)' = Postgres!RowsOf(q)
  BY <1>3 DEF Postgres!RowsOf
<1>7. ActiveIsLast'
  BY <1>2, <1>3, <1>5 DEF PostgresInv, ActiveIsLast
<1>8. HasLast'
  BY <1>6 DEF PostgresInv, HasLast
<1>9. i \in Postgres!RowsOf(r) /\ \A j \in Postgres!RowsOf(r) : j <= i
  BY <1>2, <1>5 DEF PostgresInv, ActiveIsLast, Postgres!RowsOf
<1>10. RideOf(r) = [driver |-> table[i].driver, status |-> table[i].status]
  BY <1>9, RideOfRow DEF PostgresInv
<1>11. RideOf(r)' = [driver |-> table[i].driver, status |-> to]
  <2>1. RideOf(r)' = [driver |-> table'[i].driver, status |-> table'[i].status]
    BY <1>6, <1>9, RideOfRowNext
  <2>2. table[i] \in Postgres!Row /\ table'[i] = [table[i] EXCEPT !.status = to]
    BY <1>1, <1>3
  <2>3. table'[i].driver = table[i].driver /\ table'[i].status = to
    BY <2>2 DEF Postgres!Row
  <2>4. QED
    BY <2>1, <2>3
<1>12. ASSUME NEW q \in Riders \ {r}
       PROVE  RideOf(q)' = RideOf(q)
  <2>1. \A j \in Postgres!RowsOf(q) : table'[j] = table[j]
    BY <1>2, <1>3 DEF Postgres!RowsOf
  <2>2. QED
    BY <1>6, <2>1, RideOfUntouched
<1>13. Postgres!Ledger!Advance(r, to)
  BY <1>4, <1>10, <1>11, <1>12 DEF Postgres!Ledger!Advance, RideOf
<1>14. QED
  BY <1>2, <1>7, <1>8, <1>13

LEMMA PostgresStep ==
  ASSUME \A u, v \in Updaters : u = v,
         PostgresInv, [Postgres!Next]_Postgres!vars
  PROVE  PostgresInv' /\ [Postgres!Ledger!Next]_Postgres!Ledger!vars
<1>1. Postgres!TypeOK' /\ Postgres!TypeOK
  BY PostgresTypeStep DEF PostgresInv
<1>2. pending \in [Updaters -> {Postgres!NoUpdate} \cup UpdateCall(Len(table))]
  BY <1>1, PostgresTypes
<1>3. ASSUME UNCHANGED table
      PROVE  ActiveIsLast' /\ HasLast' /\ UNCHANGED Postgres!Ledger!vars
  <2>1. \A r \in Riders : Postgres!RowsOf(r)' = Postgres!RowsOf(r)
    BY <1>3 DEF Postgres!RowsOf
  <2>2. \A r \in Riders : RideOf(r)' = RideOf(r)
    BY <1>1, <1>3, <2>1, RideOfUntouched
  <2>3. QED
    BY <1>3, <2>1, <2>2, LedgerStutters DEF PostgresInv, ActiveIsLast, HasLast
<1>4. CASE UNCHANGED Postgres!vars
  <2>1. UNCHANGED table /\ UNCHANGED pending
    BY <1>4 DEF Postgres!vars
  <2>2. QED
    BY <1>1, <1>3, <2>1 DEF PostgresInv, ChecksHold
<1>5. ASSUME NEW r \in Riders, NEW d \in Drivers, Len(table) < MaxRides,
             Postgres!Insert(r, d), UNCHANGED pending
      PROVE  PostgresInv' /\ [Postgres!Ledger!Next]_Postgres!Ledger!vars
  <2>1. /\ ActiveIsLast' /\ HasLast'
        /\ \A i \in 1 .. Len(table) : table'[i] = table[i]
        /\ Postgres!Ledger!CreateIfAbsent(r, d) \/ UNCHANGED Postgres!Ledger!vars
    BY <1>1, <1>5, InsertCreates
  <2>2. ChecksHold'
    BY <1>1, <1>5, <2>1, UpdateFacts DEF PostgresInv, ChecksHold
  <2>3. QED
    BY <1>1, <2>1, <2>2 DEF PostgresInv, Postgres!Ledger!Next
<1>6. ASSUME NEW u \in Updaters, Postgres!PersistStatus(u)
      PROVE  PostgresInv' /\ [Postgres!Ledger!Next]_Postgres!Ledger!vars
  <2>1. ChecksHold'
    BY <1>2, <1>6 DEF Postgres!PersistStatus, Postgres!NoUpdate, ChecksHold
  <2>2. CASE UNCHANGED table
    BY <1>1, <1>3, <2>1, <2>2 DEF PostgresInv
  <2>3. CASE table' = Postgres!SetStatus(pending[u].id, pending[u].to)
    <3>1. /\ ActiveIsLast' /\ HasLast'
          /\ \E r \in Riders : Postgres!Ledger!Advance(r, pending[u].to)
      BY <1>1, <1>6, <2>3, PersistAdvances DEF Postgres!PersistStatus
    <3>2. pending[u].to \in Postgres!Ledger!RideStatus
      BY <1>1, <1>6, UpdateFacts DEF Postgres!PersistStatus
    <3>3. QED
      BY <1>1, <2>1, <3>1, <3>2 DEF PostgresInv, Postgres!Ledger!Next
  <2>4. QED
    BY <1>6, <2>2, <2>3 DEF Postgres!PersistStatus
<1>7. ASSUME UNCHANGED table,
             \/ UNCHANGED pending
             \/ \E u \in Updaters : pending' = [pending EXCEPT ![u] = Postgres!NoUpdate]
             \/ \E u \in Updaters, r \in Riders, to \in Postgres!Ledger!RideStatus :
                  Postgres!CheckRide(u, r, to)
      PROVE  PostgresInv' /\ [Postgres!Ledger!Next]_Postgres!Ledger!vars
  <2>1. ASSUME UNCHANGED pending
        PROVE  ChecksHold'
    BY <1>7, <2>1 DEF PostgresInv, ChecksHold
  <2>2. ASSUME NEW u \in Updaters, pending' = [pending EXCEPT ![u] = Postgres!NoUpdate]
        PROVE  ChecksHold'
    BY <1>2, <1>7, <2>2 DEF ChecksHold, Postgres!NoUpdate
  <2>3. ASSUME NEW u \in Updaters, NEW r \in Riders, NEW to \in Postgres!Ledger!RideStatus,
               Postgres!CheckRide(u, r, to)
        PROVE  ChecksHold'
    BY <1>2, <1>7, <2>3
       DEF ChecksHold, Postgres!CheckRide, Postgres!Ledger!ValidateRideTransition
  <2>4. ChecksHold'
    BY <1>7, <2>1, <2>2, <2>3
  <2>5. QED
    BY <1>1, <1>3, <1>7, <2>4 DEF PostgresInv
<1>8. QED
  BY <1>4, <1>5, <1>6, <1>7
     DEF Postgres!Next, Postgres!InsertRide, Postgres!InsertFails, Postgres!SelectRide,
         Postgres!SelectFails, Postgres!Return, Postgres!CheckRide, Postgres!PersistFails

(* With one update at a time the repository in Postgres keeps one ride of  *)
(* a rider at a time and takes it along legal edges only, however many     *)
(* callers create rides meanwhile and whatever statement fails.            *)
THEOREM PostgresImplementsLedger ==
  ASSUME \A u, v \in Updaters : u = v
  PROVE  Postgres!Spec => PostgresImplements
<1>1. Postgres!Init => PostgresInv
  <2> SUFFICES ASSUME Postgres!Init PROVE PostgresInv
    OBVIOUS
  <2>1. table = <<>> /\ Len(table) = 0
    BY DEF Postgres!Init
  <2>2. ActiveIsLast /\ HasLast
    BY <2>1 DEF ActiveIsLast, HasLast, Postgres!RowsOf
  <2>3. ChecksHold
    BY DEF Postgres!Init, ChecksHold, Postgres!NoUpdate
  <2>4. QED
    BY <2>2, <2>3, PostgresInitType DEF PostgresInv
<1>2. Postgres!Init => Postgres!Ledger!Init
  BY DEF Postgres!Init, Postgres!RowsOf, Postgres!Ledger!Init, Postgres!Ledger!NoRide
<1>3. PostgresInv /\ [Postgres!Next]_Postgres!vars
        => PostgresInv' /\ [Postgres!Ledger!Next]_Postgres!Ledger!vars
  BY PostgresStep
<1>4. QED
  BY <1>1, <1>2, <1>3, PTL
     DEF Postgres!Spec, PostgresImplements, Postgres!PostgresImplements, Postgres!Ledger!Spec
=============================================================================
