--------------------------------- MODULE Fleet ---------------------------------
(***************************************************************************)
(* The fleet: heartbeats (internal/service/driver_ingetion_service.go) and *)
(* TTL eviction (internal/service/ttl_eviction.go) over the driver         *)
(* repository and the spatial index, while the assignment protocol changes *)
(* the drivers' statuses.  Every method of the repository that writes has  *)
(* a caller here, and calls come in any order.                             *)
(*                                                                         *)
(* UpdateLocation reads the clock, gets the driver, upserts it and updates *)
(* the index in four critical sections; RunOnce lists the expired drivers  *)
(* and then deletes each from the repository and from the index.  A driver *)
(* numbers its positions: fix 2 was measured after fix 1.  lastSeenAt is   *)
(* abstracted to whether the TTL has passed since, which may happen at any *)
(* time.  The index is the Directory that SpatialIndex implements, every   *)
(* location here being one H3 accepts.                                     *)
(***************************************************************************)
EXTENDS Naturals

CONSTANTS
  Drivers, Riders, NoRider,  \* as in DriverStore
  NoDriver,                  \* no driver
  Nothing,                   \* no entry in the index
  Beats,                     \* goroutines that run UpdateLocation
  MaxFix,                    \* how many positions a driver sends
  MaxTime,                   \* how often the clock is read
  Strict,                    \* whether two readings of the clock always differ
  Reorders,                  \* whether packets may overtake each other
  Evicts                     \* whether the eviction runs

VARIABLES
  drivers,  \* the repository: driver -> status, Intent, MatchingSince
  stamp,    \* the repository: driver -> UpdatedAt and Location
  silent,   \* the repository: drivers whose lastSeenAt is older than the TTL
  index,    \* the spatial index: driver -> its last snapshot
  clock,    \* the last reading of the clock
  radio,    \* driver -> the fixes it sent and those still under way
  beat,     \* goroutine -> the locals of its UpdateLocation call
  sweep,    \* the locals of RunOnce: drivers still to evict, the one at hand
  torn      \* history: drivers evicted, or answered through RespondToIntent,
            \*   between a heartbeat's Get and its Upsert

vars == <<drivers, stamp, silent, index, clock, radio, beat, sweep, torn>>

Fix == 1 .. MaxFix

Snapshot == [status: {"idle", "matching", "busy", "offline"}, loc: Fix]

ASSUME FleetAssumption ==
  /\ NoDriver \notin Drivers /\ NoRider \notin Riders
  /\ Nothing \notin Snapshot
  /\ MaxFix \in Nat /\ MaxTime \in Nat
  /\ {Strict, Reorders, Evicts} \subseteq BOOLEAN

Store == INSTANCE DriverStore
Dir   == INSTANCE Directory WITH dir <- index, Snapshots <- Snapshot

NoStamp == [updated |-> 0, loc |-> 0]

Unborn == [pc |-> "none", driver |-> NoDriver, fix |-> 0, now |-> 0,
           copy |-> Store!Absent]

Present(d) == drivers[d] # Store!Absent

TypeOK ==
  /\ Store!TypeOK
  /\ stamp \in [Drivers -> [updated: 0 .. clock, loc: 0 .. MaxFix]]
  /\ \A d \in Drivers : stamp[d].loc # 0 <=> Present(d)
  /\ silent \subseteq {d \in Drivers : Present(d)}
  /\ index \in [Drivers -> Snapshot \cup {Nothing}]
  /\ clock \in 0 .. MaxTime
  /\ radio \in [Drivers -> [sent: 0 .. MaxFix, flying: SUBSET Fix]]
  /\ beat \in [Beats -> [pc: {"none", "get", "upsert", "index"},
                         driver: Drivers \cup {NoDriver}, fix: 0 .. MaxFix,
                         now: 0 .. clock, copy: Store!Entry]]
  /\ sweep \in [todo: SUBSET Drivers, at: Drivers \cup {NoDriver}]
  /\ torn \subseteq Drivers

Init ==
  /\ Store!Init
  /\ stamp = [d \in Drivers |-> NoStamp]
  /\ silent = {}
  /\ Dir!Init
  /\ clock = 0
  /\ radio = [d \in Drivers |-> [sent |-> 0, flying |-> {}]]
  /\ beat = [h \in Beats |-> Unborn]
  /\ sweep = [todo |-> {}, at |-> NoDriver]
  /\ torn = {}

(* time.Now().  A coarse clock may return the same reading again.          *)
Now == clock' \in (IF Strict THEN {clock + 1} ELSE {clock, clock + 1}) \cap 0 .. MaxTime

-----------------------------------------------------------------------------
(* The network.                                                            *)

Send(d) ==
  /\ radio[d].sent < MaxFix
  /\ radio' = [radio EXCEPT ![d] =
                  [sent |-> @.sent + 1, flying |-> @.flying \cup {@.sent + 1}]]
  /\ UNCHANGED <<drivers, stamp, silent, index, clock, beat, sweep, torn>>

Deliverable(d) ==
  {f \in radio[d].flying : Reorders \/ \A g \in radio[d].flying : f <= g}

-----------------------------------------------------------------------------
(* UpdateLocation.                                                         *)

At(h, pc) == beat[h].pc = pc

(* The heartbeat has read the driver and not yet written it back.          *)
Reading(h, d) == At(h, "upsert") /\ beat[h].driver = d

(* torn, once d changes in a way no timestamp tells a heartbeat of.        *)
Torn(d) == IF \E h \in Beats : Reading(h, d) THEN torn \cup {d} ELSE torn

Arrive(h, d) ==
  /\ At(h, "none")
  /\ Now
  /\ \E f \in Deliverable(d) :
       /\ radio' = [radio EXCEPT ![d].flying = @ \ {f}]
       /\ beat' = [beat EXCEPT ![h] =
            [pc |-> "get", driver |-> d, fix |-> f, now |-> clock', copy |-> Store!Absent]]
  /\ UNCHANGED <<drivers, stamp, silent, index, sweep, torn>>

(* Get; an unknown driver starts out idle.                                 *)
Load(h) ==
  /\ At(h, "get")
  /\ LET d == beat[h].driver IN
       beat' = [beat EXCEPT ![h] = 
            [pc |-> "upsert", driver |-> d, fix |-> @.fix, now |-> @.now,
             copy |-> IF Present(d) THEN drivers[d] ELSE Store!Fresh]]
  /\ UNCHANGED <<drivers, stamp, silent, index, clock, radio, sweep, torn>>

Late_Never(d, now) == FALSE

Late(d, now) == Present(d) /\ now < stamp[d].updated

(* Upsert replaces the whole entry by the caller's copy unless that is     *)
(* older.  The check against the future never refuses a time the server    *)
(* itself has read.                                                        *)
Upsert(h) ==
  /\ At(h, "upsert")
  /\ LET d == beat[h].driver IN
       IF Late(d, beat[h].now)
       THEN /\ beat' = [beat EXCEPT ![h] = Unborn]
            /\ UNCHANGED <<drivers, stamp, silent>>
       ELSE /\ Store!Upsert(d, beat[h].copy)
            /\ stamp' = [stamp EXCEPT ![d] = [updated |-> beat[h].now, loc |-> beat[h].fix]]
            /\ silent' = silent \ {d}
            /\ beat' = [beat EXCEPT ![h].pc = "index"]
  /\ torn' = torn \ {d \in Drivers : \A g \in Beats \ {h} : ~Reading(g, d)}
  /\ UNCHANGED <<index, clock, radio, sweep>>

Mirror(h) ==
  /\ At(h, "index")
  /\ Dir!Update(beat[h].driver, [status |-> beat[h].copy.status, loc |-> beat[h].fix])
  /\ beat' = [beat EXCEPT ![h] = Unborn]
  /\ UNCHANGED <<drivers, stamp, silent, clock, radio, sweep, torn>>

-----------------------------------------------------------------------------
(* RunOnce.                                                                *)

(* The TTL passes without an accepted heartbeat of the driver.             *)
FallSilent(d) ==
  /\ Evicts
  /\ Present(d)
  /\ silent' = silent \cup {d}
  /\ UNCHANGED <<drivers, stamp, index, clock, radio, beat, sweep, torn>>

Expired ==
  /\ sweep = [todo |-> {}, at |-> NoDriver]
  /\ sweep' = [sweep EXCEPT !.todo = silent]
  /\ UNCHANGED <<drivers, stamp, silent, index, clock, radio, beat, torn>>

Delete_KeepsStamp(d) ==
  /\ sweep.at = NoDriver /\ d \in sweep.todo
  /\ Store!Delete(d)
  /\ silent' = silent \ {d}
  /\ sweep' = [sweep EXCEPT !.at = d]
  /\ torn' = Torn(d)
  /\ UNCHANGED <<stamp, index, clock, radio, beat>>

(* Delete, whatever has become of the driver since it was listed.          *)
Delete(d) ==
  /\ sweep.at = NoDriver /\ d \in sweep.todo
  /\ Store!Delete(d)
  /\ stamp' = [stamp EXCEPT ![d] = NoStamp]
  /\ silent' = silent \ {d}
  /\ sweep' = [sweep EXCEPT !.at = d]
  /\ torn' = Torn(d)
  /\ UNCHANGED <<index, clock, radio, beat>>

Remove ==
  /\ sweep.at # NoDriver
  /\ Dir!Remove(sweep.at)
  /\ sweep' = [todo |-> sweep.todo \ {sweep.at}, at |-> NoDriver]
  /\ UNCHANGED <<drivers, stamp, silent, clock, radio, beat, torn>>

-----------------------------------------------------------------------------
(* The calls of anybody else on a driver.  A call that changes nothing is  *)
(* left out.                                                               *)

Protocol_Unstamped(d) ==
  /\ Present(d)
  /\ \/ \E to \in Store!DriverStatus : Store!TransitionStatus(d, to)
     \/ \E r \in Riders : Store!SetIntent(d, r) \/ Store!TryLockIntent(d, r)
     \/ Store!ClearIntent(d)
  /\ drivers' # drivers
  /\ Now
  /\ UNCHANGED <<stamp, silent, index, radio, beat, sweep, torn>>

(* These stamp UpdatedAt.                                                  *)
Protocol(d) ==
  /\ Present(d)
  /\ \/ \E to \in Store!DriverStatus : Store!TransitionStatus(d, to)
     \/ \E r \in Riders : Store!SetIntent(d, r) \/ Store!TryLockIntent(d, r)
     \/ Store!ClearIntent(d)
  /\ drivers' # drivers
  /\ Now
  /\ stamp' = [stamp EXCEPT ![d].updated = clock']
  /\ UNCHANGED <<silent, index, radio, beat, sweep, torn>>

(* RespondToIntent leaves UpdatedAt as it was.  Nobody calls it in the     *)
(* program.                                                                *)
Respond(d) ==
  /\ \E r \in Riders, response \in {"accept", "reject"} :
       Store!RespondToIntent(d, r, response)
  /\ drivers' # drivers
  /\ torn' = Torn(d)
  /\ UNCHANGED <<stamp, silent, index, clock, radio, beat, sweep>>

Next ==
  \/ \E d \in Drivers :
       Send(d) \/ Protocol(d) \/ Respond(d) \/ FallSilent(d) \/ Delete(d)
  \/ \E h \in Beats : Load(h) \/ Upsert(h) \/ Mirror(h)
  \/ \E h \in Beats, d \in Drivers : Arrive(h, d)
  \/ Expired \/ Remove

Spec == Init /\ [][Next]_vars

-----------------------------------------------------------------------------
(* A heartbeat never undoes a step of the protocol: whatever happened to   *)
(* the driver between Get and Upsert, its status and its reservation are   *)
(* written back unchanged or not at all ("Constraint: Never modifies       *)
(* Status", docs/plans.md:33).  Only two things in between let one         *)
(* through: an eviction, which deletes the time that protects the entry,   *)
(* and RespondToIntent, which does not renew it.                           *)
StatusKept ==
  [][\A h \in Beats, d \in Drivers :
       Upsert(h) /\ Present(d) /\ d \notin torn => drivers'[d] = drivers[d]]_vars

(* MatchingSince is "nil unless matching" (internal/domain/driver.go:17),  *)
(* and set in MATCHING, as FindStuckMatching needs it to be: through any   *)
(* order of transitions, responses and evictions, and although a heartbeat *)
(* writes a whole entry it has read earlier.                               *)
SinceOnlyMatching == \A d \in Drivers : drivers[d].since <=> drivers[d].status = "matching"

(* A driver that comes to IDLE or BUSY leaves its Intent behind ("critical *)
(* cleanup", internal/repository/inmemory_driver_repo.go:139): no claim of *)
(* a rider who has lost the driver survives there.  A heartbeat may bring  *)
(* one back to a driver that is gone, or torn, when it has read the Intent *)
(* of a TryLockIntent.                                                     *)
ReservationDropped ==
  [][\A d \in Drivers :
       /\ Present(d) /\ (d \in torn => UNCHANGED beat)
       /\ drivers'[d].status \in {"idle", "busy"} /\ drivers'[d].status # drivers[d].status
       => drivers'[d].intent = NoRider]_vars

(* A known driver's position never goes back to an earlier fix: "Location  *)
(* updates must be monotonic in time" (docs/domain.md:24).                 *)
LocationMonotonic ==
  [][\A d \in Drivers :
       Present(d) /\ Present(d)' => stamp'[d].loc >= stamp[d].loc]_vars

(* When no call is between the two stores, the index has a driver where    *)
(* the repository has it, and no other driver: "Index is a cache that      *)
(* mirrors accepted state" (docs/system.md:3).                             *)
Settled(d) ==
  /\ sweep.at # d
  /\ \A h \in Beats : ~(At(h, "index") /\ beat[h].driver = d)

IndexMirrors ==
  \A d \in Drivers : Settled(d) =>
    IF Present(d) THEN index[d] # Nothing /\ index[d].loc = stamp[d].loc
                  ELSE index[d] = Nothing
=============================================================================
