------------------------------ MODULE Fleet_proofs -----------------------------
(***************************************************************************)
(* What holds of the fleet for any number of drivers and heartbeats, for   *)
(* as many packets and readings of the clock as one likes.                 *)
(***************************************************************************)
EXTENDS Fleet, TLAPS

(* The locals of a heartbeat: it has a driver and a fix, and once it has   *)
(* read or made an entry, one that is not absent.                          *)
BeatsTyped ==
  \A h \in Beats :
    /\ beat[h].pc # "none" => beat[h].driver \in Drivers /\ beat[h].fix \in Fix
    /\ beat[h].pc \in {"upsert", "index"} => beat[h].copy.status # "absent"

Types == TypeOK /\ BeatsTyped

Locals == [pc: {"none", "get", "upsert", "index"}, driver: Drivers \cup {NoDriver},
           fix: 0 .. MaxFix, now: 0 .. clock, copy: Store!Entry]

-----------------------------------------------------------------------------
(* What each step does to the locals and to the repository.                *)

LEMMA PresentStatus ==
  ASSUME Store!TypeOK, NEW d \in Drivers
  PROVE  Present(d) <=> drivers[d].status # "absent"
BY DEF Present, Store!TypeOK, Store!Absent

LEMMA ClockStep ==
  ASSUME TypeOK, Now
  PROVE  /\ clock \in Nat /\ clock' \in Nat /\ clock' \in 0 .. MaxTime
         /\ clock <= clock' /\ (Strict => clock' = clock + 1)
         /\ 0 .. clock \subseteq 0 .. clock'
BY FleetAssumption DEF TypeOK, Now

LEMMA LocalsTyped ==
  ASSUME Types
  PROVE  beat \in [Beats -> Locals]
BY DEF Types, TypeOK, Locals

LEMMA ArriveStep ==
  ASSUME Types, NEW h \in Beats, NEW d \in Drivers, Arrive(h, d)
  PROVE  /\ beat[h].pc = "none" /\ Now
         /\ UNCHANGED <<drivers, stamp, silent, index, sweep, torn>>
         /\ \E f \in Deliverable(d) :
              /\ f \in Fix /\ f \in radio[d].flying
              /\ radio' = [radio EXCEPT ![d].flying = @ \ {f}]
              /\ beat' = [beat EXCEPT ![h] =
                   [pc |-> "get", driver |-> d, fix |-> f, now |-> clock',
                    copy |-> Store!Absent]]
<1>1. Deliverable(d) \subseteq Fix /\ Deliverable(d) \subseteq radio[d].flying
  BY DEF Deliverable, Types, TypeOK
<1>2. QED
  BY <1>1 DEF Arrive, At

LEMMA LoadStep ==
  ASSUME Types, NEW h \in Beats, Load(h)
  PROVE  /\ beat[h].pc = "get" /\ beat[h].driver \in Drivers
         /\ UNCHANGED <<drivers, stamp, silent, index, clock, radio, sweep, torn>>
         /\ beat' = [beat EXCEPT ![h] =
              [pc |-> "upsert", driver |-> beat[h].driver, fix |-> beat[h].fix,
               now |-> beat[h].now,
               copy |-> IF Present(beat[h].driver) THEN drivers[beat[h].driver]
                                                   ELSE Store!Fresh]]
BY LocalsTyped DEF Load, At, Types, BeatsTyped

LEMMA UpsertStep ==
  ASSUME Types, NEW h \in Beats, Upsert(h)
  PROVE  /\ beat[h].pc = "upsert" /\ beat[h].driver \in Drivers
         /\ UNCHANGED <<index, clock, radio, sweep>>
         /\ torn' = torn \ {d \in Drivers : \A g \in Beats \ {h} : ~Reading(g, d)}
         /\ LET d == beat[h].driver IN
              \/ /\ Late(d, beat[h].now)
                 /\ beat' = [beat EXCEPT ![h] = Unborn]
                 /\ UNCHANGED <<drivers, stamp, silent>>
              \/ /\ ~Late(d, beat[h].now)
                 /\ drivers' = [drivers EXCEPT ![d] = beat[h].copy]
                 /\ stamp' = [stamp EXCEPT ![d] = [updated |-> beat[h].now,
                                                   loc |-> beat[h].fix]]
                 /\ silent' = silent \ {d}
                 /\ beat' = [beat EXCEPT ![h] =
                      [pc |-> "index", driver |-> d, fix |-> beat[h].fix,
                       now |-> beat[h].now, copy |-> beat[h].copy]]
<1>1. beat[h] \in Locals /\ beat[h].pc = "upsert" /\ beat[h].driver \in Drivers
  BY LocalsTyped DEF Upsert, At, Types, BeatsTyped
<1>2. [beat[h] EXCEPT !.pc = "index"] =
         [pc |-> "index", driver |-> beat[h].driver, fix |-> beat[h].fix,
          now |-> beat[h].now, copy |-> beat[h].copy]
  BY <1>1 DEF Locals
<1>3. [beat EXCEPT ![h].pc = "index"] =
         [beat EXCEPT ![h] = [beat[h] EXCEPT !.pc = "index"]]
  OBVIOUS
<1>4. QED
  BY <1>1, <1>2, <1>3, Zenon DEF Upsert, Store!Upsert

(* What a call makes of the driver's entry: MatchingSince is set in        *)
(* MATCHING only, if it was before, and a driver that comes to IDLE or     *)
(* BUSY has no Intent.                                                     *)
Marked(e) == e.since <=> e.status = "matching"

Follows(e, f) ==
  /\ f \in Store!Entry /\ f.status # "absent"
  /\ Marked(e) => Marked(f)
  /\ f.status \in {"idle", "busy"} /\ f.status # e.status => f.intent = NoRider

LEMMA TransitionFollows ==
  ASSUME NEW e \in Store!Entry, NEW to \in Store!DriverStatus,
         Store!CanTransition(e.status, to)
  PROVE  Follows(e, Store!AfterTransition(e, to))
<1> DEFINE f == Store!AfterTransition(e, to)
<1>1. /\ f.status = to
      /\ f.intent = IF to \in {"busy", "idle"} THEN NoRider ELSE e.intent
      /\ f.since = (to = "matching" \/ (to = "offline" /\ e.since))
  BY DEF Store!AfterTransition
<1>2. f \in Store!Entry /\ f.status # "absent"
  BY DEF Store!AfterTransition, Store!Entry, Store!DriverStatus
<1>3. to = "offline" => e.status # "matching"
  BY DEF Store!CanTransition, Store!Edges
<1>4. Marked(e) => Marked(f)
  BY <1>1, <1>3 DEF Marked, Store!DriverStatus
<1>5. QED
  BY <1>1, <1>2, <1>4 DEF Follows

LEMMA CallWrites ==
  ASSUME Types, NEW d \in Drivers, Protocol(d) \/ Respond(d)
  PROVE  \E f : Follows(drivers[d], f) /\ drivers' = [drivers EXCEPT ![d] = f]
<1>1. /\ drivers \in [Drivers -> Store!Entry] /\ drivers[d] \in Store!Entry
      /\ drivers[d].status # "absent"
  BY PresentStatus DEF Protocol, Respond, Store!RespondToIntent, Types, TypeOK, Store!TypeOK
<1>2. ASSUME NEW to \in Store!DriverStatus, Store!TransitionStatus(d, to), drivers' # drivers
      PROVE  \E f : Follows(drivers[d], f) /\ drivers' = [drivers EXCEPT ![d] = f]
  <2>1. /\ Store!CanTransition(drivers[d].status, to)
        /\ drivers' = [drivers EXCEPT ![d] = Store!AfterTransition(drivers[d], to)]
    BY <1>2 DEF Store!TransitionStatus, Store!TransitionOK
  <2>2. QED
    BY <1>1, <2>1, TransitionFollows
<1>3. ASSUME NEW i \in Riders \cup {NoRider}, drivers' = [drivers EXCEPT ![d].intent = i]
      PROVE  \E f : Follows(drivers[d], f) /\ drivers' = [drivers EXCEPT ![d] = f]
  <2>1. Follows(drivers[d], [drivers[d] EXCEPT !.intent = i])
    BY <1>1 DEF Follows, Marked, Store!Entry
  <2>2. QED
    BY <1>3, <2>1
<1>4. CASE Protocol(d)
  <2>1. CASE \E to \in Store!DriverStatus : Store!TransitionStatus(d, to)
    BY <1>2, <1>4, <2>1 DEF Protocol
  <2>2. CASE \/ Store!ClearIntent(d)
             \/ \E q \in Riders : Store!SetIntent(d, q) \/ Store!TryLockIntent(d, q)
    <3>1. \E i \in Riders \cup {NoRider} : drivers' = [drivers EXCEPT ![d].intent = i]
      BY <1>4, <2>2 DEF Protocol, Store!ClearIntent, Store!SetIntent, Store!TryLockIntent
    <3>2. QED
      BY <1>3, <3>1
  <2>3. QED
    BY <1>4, <2>1, <2>2 DEF Protocol
<1>5. CASE Respond(d)
  <2>1. PICK status \in {"busy", "idle"} :
          drivers' = [drivers EXCEPT ![d] =
                        [status |-> status, intent |-> NoRider, since |-> FALSE]]
    BY <1>5 DEF Respond, Store!RespondToIntent
  <2>2. Follows(drivers[d], [status |-> status, intent |-> NoRider, since |-> FALSE])
    BY DEF Follows, Marked, Store!Entry, Store!DriverStatus
  <2>3. QED
    BY <2>1, <2>2
<1>6. QED
  BY <1>4, <1>5

LEMMA CallStep ==
  ASSUME Types, NEW d \in Drivers, Protocol(d) \/ Respond(d)
  PROVE  /\ Present(d) /\ Present(d)' /\ Store!TypeOK'
         /\ Follows(drivers[d], drivers'[d])
         /\ \A e \in Drivers \ {d} : drivers'[e] = drivers[e]
         /\ UNCHANGED <<silent, index, radio, beat, sweep>>
<1>1. PICK f : Follows(drivers[d], f) /\ drivers' = [drivers EXCEPT ![d] = f]
  BY CallWrites
<1>2. drivers \in [Drivers -> Store!Entry] /\ drivers'[d] = f
  BY <1>1 DEF Types, TypeOK, Store!TypeOK
<1>3. Store!TypeOK' /\ drivers'[d].status # "absent"
  BY <1>1, <1>2 DEF Follows, Types, TypeOK, Store!TypeOK
<1>4. Present(d) /\ Present(d)'
  BY <1>3 DEF Present, Store!Absent, Protocol, Respond, Store!RespondToIntent
<1>5. QED
  BY <1>1, <1>2, <1>3, <1>4 DEF Protocol, Respond

LEMMA ProtocolStep ==
  ASSUME Types, NEW d \in Drivers, Protocol(d)
  PROVE  /\ Present(d) /\ Present(d)' /\ Store!TypeOK'
         /\ \A e \in Drivers \ {d} : drivers'[e] = drivers[e]
         /\ Now
         /\ stamp' = [stamp EXCEPT ![d].updated = clock']
         /\ UNCHANGED <<silent, index, radio, beat, sweep, torn>>
BY CallStep DEF Protocol

LEMMA RespondStep ==
  ASSUME Types, NEW d \in Drivers, Respond(d)
  PROVE  /\ Present(d) /\ Present(d)' /\ Store!TypeOK'
         /\ \A e \in Drivers \ {d} : drivers'[e] = drivers[e]
         /\ torn \subseteq torn' /\ torn' \subseteq Drivers
         /\ \A h \in Beats : Reading(h, d) => d \in torn'
         /\ UNCHANGED <<stamp, silent, index, clock, radio, beat, sweep>>
BY CallStep DEF Respond, Torn, Types, TypeOK

-----------------------------------------------------------------------------
(* Types.                                                                  *)

LEMMA BeatSet ==
  ASSUME Types, 0 .. clock \subseteq 0 .. clock',
         NEW h \in Beats, NEW l \in Locals',
         l.pc # "none" => l.driver \in Drivers /\ l.fix \in Fix,
         l.pc \in {"upsert", "index"} => l.copy.status # "absent",
         beat' = [beat EXCEPT ![h] = l]
  PROVE  beat' \in [Beats -> Locals'] /\ BeatsTyped'
BY LocalsTyped DEF Locals, Types, BeatsTyped

LEMMA InitTypes == Init => Types
<1> SUFFICES ASSUME Init
             PROVE  Types
  OBVIOUS
<1>1. Store!TypeOK
  BY DEF Init, Store!Init, Store!TypeOK, Store!Entry, Store!Absent
<1>2. \A d \in Drivers : ~Present(d)
  BY DEF Init, Store!Init, Present
<1>3. Unborn \in [pc: {"none", "get", "upsert", "index"},
                  driver: Drivers \cup {NoDriver}, fix: 0 .. MaxFix,
                  now: 0 .. 0, copy: Store!Entry]
  BY FleetAssumption DEF Unborn, Store!Absent, Store!Entry
<1>4. QED
  BY <1>1, <1>2, <1>3, FleetAssumption
  DEF Init, Types, TypeOK, BeatsTyped, Unborn, NoStamp, Dir!Init

LEMMA ClockUnchanged ==
  ASSUME TypeOK, UNCHANGED clock
  PROVE  0 .. clock \subseteq 0 .. clock' /\ 0 .. clock' = 0 .. clock
OBVIOUS

LEMMA UnbornTyped ==
  ASSUME Types
  PROVE  Unborn \in Locals
BY FleetAssumption DEF Types, TypeOK, Unborn, Locals, Store!Absent, Store!Entry

LEMMA SendTypes ==
  ASSUME Types, NEW d \in Drivers, Send(d)
  PROVE  Types'
<1>1. [sent |-> radio[d].sent + 1,
       flying |-> radio[d].flying \cup {radio[d].sent + 1}]
        \in [sent: 0 .. MaxFix, flying: SUBSET Fix]
  BY FleetAssumption DEF Types, TypeOK, Send, Fix
<1>2. radio' \in [Drivers -> [sent: 0 .. MaxFix, flying: SUBSET Fix]]
  BY <1>1 DEF Types, TypeOK, Send
<1>3. QED
  BY <1>2 DEF Send, Types, TypeOK, BeatsTyped, Store!TypeOK, Present

LEMMA ProtocolTypes ==
  ASSUME Types, NEW d \in Drivers, Protocol(d)
  PROVE  Types'
<1>1. /\ stamp' \in [Drivers -> [updated: 0 .. clock', loc: 0 .. MaxFix]]
      /\ clock' \in 0 .. MaxTime
  <2>1. clock' \in 0 .. clock' /\ 0 .. clock \subseteq 0 .. clock' /\ clock' \in 0 .. MaxTime
    BY ProtocolStep, ClockStep DEF Types
  <2>2. QED
    BY <2>1, ProtocolStep DEF Types, TypeOK
<1>2. beat' \in [Beats -> Locals'] /\ BeatsTyped'
  BY ProtocolStep, ClockStep, LocalsTyped DEF Types, BeatsTyped, Locals
<1>3. \A e \in Drivers : Present(e)' <=> Present(e)
  BY ProtocolStep DEF Present
<1>4. \A e \in Drivers : stamp'[e].loc = stamp[e].loc
  BY ProtocolStep DEF Types, TypeOK
<1>5. QED
  BY <1>1, <1>2, <1>3, <1>4, ProtocolStep DEF Types, TypeOK, Locals

LEMMA RespondTypes ==
  ASSUME Types, NEW d \in Drivers, Respond(d)
  PROVE  Types'
<1>1. \A e \in Drivers : Present(e)' <=> Present(e)
  BY RespondStep DEF Present
<1>2. QED
  BY <1>1, RespondStep DEF Types, TypeOK, BeatsTyped

LEMMA ArriveTypes ==
  ASSUME Types, NEW h \in Beats, NEW d \in Drivers, Arrive(h, d)
  PROVE  Types'
<1>1. PICK f \in Fix :
        /\ radio' = [radio EXCEPT ![d].flying = @ \ {f}]
        /\ beat' = [beat EXCEPT ![h] =
             [pc |-> "get", driver |-> d, fix |-> f, now |-> clock',
              copy |-> Store!Absent]]
  BY ArriveStep
<1>2. clock' \in 0 .. clock' /\ 0 .. clock \subseteq 0 .. clock' /\ clock' \in 0 .. MaxTime
  BY ArriveStep, ClockStep DEF Types
<1>3. [pc |-> "get", driver |-> d, fix |-> f, now |-> clock', copy |-> Store!Absent]
        \in Locals'
  BY <1>2, FleetAssumption DEF Locals, Fix, Store!Absent, Store!Entry
<1>4. beat' \in [Beats -> Locals'] /\ BeatsTyped'
  BY <1>1, <1>2, <1>3, BeatSet
<1>5. radio' \in [Drivers -> [sent: 0 .. MaxFix, flying: SUBSET Fix]]
  BY <1>1 DEF Types, TypeOK
<1>6. QED
  BY <1>2, <1>4, <1>5, ArriveStep DEF Types, TypeOK, Locals, Store!TypeOK, Present

LEMMA LoadTypes ==
  ASSUME Types, NEW h \in Beats, Load(h)
  PROVE  Types'
<1> DEFINE d == beat[h].driver
           c == IF Present(d) THEN drivers[d] ELSE Store!Fresh
<1>1. c \in Store!Entry /\ c.status # "absent"
  <2>1. CASE Present(d)
    BY <2>1, LoadStep, PresentStatus DEF Types, TypeOK, Store!TypeOK
  <2>2. CASE ~Present(d)
    BY <2>2 DEF Store!Fresh, Store!Entry, Store!DriverStatus
  <2>3. QED
    BY <2>1, <2>2
<1>2. beat[h] \in Locals /\ beat[h].pc = "get" /\ UNCHANGED clock
  BY LocalsTyped, LoadStep
<1>3. [pc |-> "upsert", driver |-> d, fix |-> beat[h].fix, now |-> beat[h].now, copy |-> c]
        \in Locals'
  BY <1>1, <1>2 DEF Locals
<1>4. d \in Drivers /\ beat[h].fix \in Fix
  BY <1>2 DEF Types, BeatsTyped
<1>5. beat' = [beat EXCEPT ![h] =
        [pc |-> "upsert", driver |-> d, fix |-> beat[h].fix, now |-> beat[h].now, copy |-> c]]
  BY LoadStep
<1>6. beat' \in [Beats -> Locals'] /\ BeatsTyped'
  <2> HIDE DEF d, c
  <2>1. QED
    BY <1>1, <1>2, <1>3, <1>4, <1>5, ClockUnchanged, BeatSet DEF Types
<1>7. QED
  BY <1>6, LoadStep DEF Types, TypeOK, Locals, Store!TypeOK, Present

LEMMA MirrorTypes ==
  ASSUME Types, NEW h \in Beats, Mirror(h)
  PROVE  Types'
<1>1. beat[h] \in Locals /\ beat[h].fix \in Fix /\ beat[h].copy.status # "absent"
  BY LocalsTyped DEF Mirror, At, Types, BeatsTyped
<1>2. [status |-> beat[h].copy.status, loc |-> beat[h].fix] \in Snapshot
  BY <1>1 DEF Locals, Store!Entry, Store!DriverStatus, Snapshot
<1>3. index' \in [Drivers -> Snapshot \cup {Nothing}]
  BY <1>2 DEF Mirror, Dir!Update, Types, TypeOK
<1>4. beat' \in [Beats -> Locals'] /\ BeatsTyped'
  BY UnbornTyped, LocalsTyped DEF Mirror, Types, BeatsTyped, Unborn, Locals
<1>5. QED
  BY <1>3, <1>4 DEF Mirror, Types, TypeOK, Locals, Store!TypeOK, Present

LEMMA UpsertTypes ==
  ASSUME Types, NEW h \in Beats, Upsert(h)
  PROVE  Types'
<1> DEFINE d == beat[h].driver
           done == [pc |-> "index", driver |-> d, fix |-> beat[h].fix,
                    now |-> beat[h].now, copy |-> beat[h].copy]
<1>1. /\ beat[h] \in Locals /\ d \in Drivers /\ beat[h].fix \in Fix
      /\ beat[h].copy.status # "absent"
  BY LocalsTyped, UpsertStep DEF Types, BeatsTyped
<1>2. UNCHANGED <<index, clock, radio, sweep>> /\ torn' \subseteq Drivers
  BY UpsertStep DEF Types, TypeOK
<1>3. CASE Late(d, beat[h].now)
  <2>1. beat' = [beat EXCEPT ![h] = Unborn] /\ UNCHANGED <<drivers, stamp, silent>>
    BY <1>3, UpsertStep
  <2>2. beat' \in [Beats -> Locals'] /\ BeatsTyped'
    BY <1>2, <2>1, UnbornTyped, LocalsTyped DEF Types, BeatsTyped, Unborn, Locals
  <2>3. QED
    BY <1>2, <2>1, <2>2 DEF Types, TypeOK, Locals, Store!TypeOK, Present
<1>4. CASE ~Late(d, beat[h].now)
  <2>1. /\ drivers' = [drivers EXCEPT ![d] = beat[h].copy]
        /\ stamp' = [stamp EXCEPT ![d] = [updated |-> beat[h].now, loc |-> beat[h].fix]]
        /\ silent' = silent \ {d}
        /\ beat' = [beat EXCEPT ![h] = done]
    BY <1>4, UpsertStep
  <2>2. Store!TypeOK'
    BY <1>1, <2>1 DEF Types, TypeOK, Store!TypeOK, Locals
  <2>3. stamp' \in [Drivers -> [updated: 0 .. clock', loc: 0 .. MaxFix]]
    BY <1>1, <1>2, <2>1 DEF Types, TypeOK, Locals
  <2>4. \A e \in Drivers : Present(e)' <=> Present(e) \/ e = d
    <3>1. drivers'[d] = beat[h].copy /\ \A e \in Drivers \ {d} : drivers'[e] = drivers[e]
      BY <1>1, <2>1 DEF Types, TypeOK, Store!TypeOK
    <3>2. beat[h].copy # Store!Absent
      BY <1>1 DEF Store!Absent
    <3>3. QED
      BY <3>1, <3>2 DEF Present
  <2>5. \A e \in Drivers : stamp'[e].loc # 0 <=> Present(e)'
    BY <1>1, <2>1, <2>4 DEF Types, TypeOK, Fix
  <2>6. beat' \in [Beats -> Locals'] /\ BeatsTyped'
    <3>1. done \in Locals'
      BY <1>1, <1>2 DEF Locals
    <3>2. QED
      BY <1>1, <1>2, <2>1, <3>1, ClockUnchanged, BeatSet DEF Types
  <2>7. QED
    BY <1>2, <2>1, <2>2, <2>3, <2>4, <2>5, <2>6 DEF Types, TypeOK, Locals
<1>5. QED
  BY <1>3, <1>4

LEMMA SweepTypes ==
  ASSUME Types, NEW d \in Drivers, FallSilent(d) \/ Expired \/ Delete(d) \/ Remove
  PROVE  Types'
<1>1. CASE FallSilent(d)
  BY <1>1 DEF FallSilent, Types, TypeOK, BeatsTyped, Store!TypeOK, Present
<1>2. CASE Expired
  BY <1>2 DEF Expired, Types, TypeOK, BeatsTyped, Store!TypeOK, Present
<1>3. CASE Delete(d)
  <2>1. Store!TypeOK' /\ \A e \in Drivers : Present(e)' <=> Present(e) /\ e # d
    BY <1>3 DEF Delete, Store!Delete, Types, TypeOK, Store!TypeOK, Store!Absent,
                Store!Entry, Present
  <2>2. stamp' \in [Drivers -> [updated: 0 .. clock', loc: 0 .. MaxFix]]
    BY <1>3, FleetAssumption DEF Delete, NoStamp, Types, TypeOK
  <2>3. \A e \in Drivers : stamp'[e].loc # 0 <=> Present(e)'
    BY <1>3, <2>1 DEF Delete, NoStamp, Types, TypeOK
  <2>4. QED
    BY <1>3, <2>1, <2>2, <2>3 DEF Delete, Torn, Types, TypeOK, BeatsTyped
<1>4. CASE Remove
  BY <1>4 DEF Remove, Dir!Remove, Types, TypeOK, BeatsTyped, Store!TypeOK, Present
<1>5. QED
  BY <1>1, <1>2, <1>3, <1>4

LEMMA NextTypes == Types /\ [Next]_vars => Types'
<1> SUFFICES ASSUME Types, [Next]_vars
             PROVE  Types'
  OBVIOUS
<1>1. ASSUME NEW d \in Drivers,
             Send(d) \/ Protocol(d) \/ Respond(d) \/ FallSilent(d) \/ Delete(d)
      PROVE  Types'
  BY <1>1, SendTypes, ProtocolTypes, RespondTypes, SweepTypes
<1>2. ASSUME NEW h \in Beats, Load(h) \/ Upsert(h) \/ Mirror(h)
      PROVE  Types'
  BY <1>2, LoadTypes, UpsertTypes, MirrorTypes
<1>3. ASSUME NEW h \in Beats, NEW d \in Drivers, Arrive(h, d)
      PROVE  Types'
  BY <1>3, ArriveTypes
<1>4. CASE Expired \/ Remove
  <2>1. CASE Drivers = {}
    BY <1>4, <2>1 DEF Expired, Remove, Dir!Remove, Types, TypeOK, BeatsTyped,
                      Store!TypeOK, Present
  <2>2. CASE Drivers # {}
    BY <1>4, <2>2, SweepTypes
  <2>3. QED
    BY <2>1, <2>2
<1>5. CASE UNCHANGED vars
  BY <1>5 DEF vars, Types, TypeOK, BeatsTyped, Store!TypeOK, Present
<1>6. QED
  BY <1>1, <1>2, <1>3, <1>4, <1>5 DEF Next

(* Types of the two stores, the network, the clock and the locals of every *)
(* heartbeat and of the sweep, whatever the three switches say.            *)
THEOREM FleetTypeCorrect == Spec => []TypeOK
<1>1. Spec => []Types
  BY InitTypes, NextTypes, PTL DEF Spec
<1>2. Types => TypeOK
  BY DEF Types
<1>3. QED
  BY <1>1, <1>2, PTL

-----------------------------------------------------------------------------
(* What a heartbeat has read is either what the repository still has, or   *)
(* too old to be written back; after an eviction it may be neither.        *)
CopyCurrent ==
  \A h \in Beats, d \in Drivers :
    Reading(h, d) /\ d \notin torn =>
      IF Present(d) THEN Late(d, beat[h].now) \/ beat[h].copy = drivers[d]
                    ELSE beat[h].copy = Store!Fresh

LEMMA UpsertFrame ==
  ASSUME Types, NEW h \in Beats, Upsert(h)
  PROVE  /\ beat[h].driver \in Drivers /\ Reading(h, beat[h].driver)
         /\ beat[h].copy.status # "absent" /\ beat[h].now \in Nat
         /\ \A g \in Beats \ {h} : beat'[g] = beat[g]
         /\ beat'[h].pc \in {"none", "index"}
<1>1. beat[h].pc = "upsert" /\ beat[h].driver \in Drivers
  BY UpsertStep
<1>2. beat[h].copy.status # "absent" /\ beat[h].now \in Nat
  BY <1>1, LocalsTyped DEF Types, BeatsTyped, Locals
<1>3. PICK l : beat' = [beat EXCEPT ![h] = l] /\ l.pc \in {"none", "index"}
  <2>1. CASE Late(beat[h].driver, beat[h].now)
    <3>1. beat' = [beat EXCEPT ![h] = Unborn]
      BY <2>1, UpsertStep
    <3>2. Unborn.pc = "none"
      BY DEF Unborn
    <3>3. QED
      BY <3>1, <3>2
  <2>2. CASE ~Late(beat[h].driver, beat[h].now)
    <3> DEFINE done == [pc |-> "index", driver |-> beat[h].driver, fix |-> beat[h].fix,
                        now |-> beat[h].now, copy |-> beat[h].copy]
    <3>1. beat' = [beat EXCEPT ![h] = done] /\ done.pc = "index"
      BY <2>2, UpsertStep
    <3>2. QED
      BY <3>1
  <2>3. QED
    BY <2>1, <2>2
<1>4. QED
  BY <1>1, <1>2, <1>3, LocalsTyped DEF Reading, At

LEMMA UpsertDrops ==
  ASSUME Types, NEW h \in Beats, Upsert(h), Late(beat[h].driver, beat[h].now)
  PROVE  UNCHANGED <<drivers, stamp>>
BY UpsertStep

LEMMA UpsertWrites ==
  ASSUME Types, NEW h \in Beats, Upsert(h), ~Late(beat[h].driver, beat[h].now)
  PROVE  LET d == beat[h].driver IN
         /\ drivers'[d] = beat[h].copy /\ drivers'[d] # Store!Absent
         /\ stamp'[d] = [updated |-> beat[h].now, loc |-> beat[h].fix]
         /\ stamp'[d].updated = beat[h].now /\ stamp'[d].loc = beat[h].fix
         /\ \A e \in Drivers \ {d} : drivers'[e] = drivers[e] /\ stamp'[e] = stamp[e]
<1> DEFINE d == beat[h].driver
<1>1. /\ drivers' = [drivers EXCEPT ![d] = beat[h].copy]
      /\ stamp' = [stamp EXCEPT ![d] = [updated |-> beat[h].now, loc |-> beat[h].fix]]
  BY UpsertStep
<1>2. d \in Drivers /\ beat[h].copy.status # "absent"
  BY UpsertFrame
<1>3. drivers'[d] = beat[h].copy /\ \A e \in Drivers \ {d} : drivers'[e] = drivers[e]
  BY <1>1, <1>2 DEF Types, TypeOK, Store!TypeOK
<1>4. /\ stamp'[d] = [updated |-> beat[h].now, loc |-> beat[h].fix]
      /\ \A e \in Drivers \ {d} : stamp'[e] = stamp[e]
  BY <1>1, <1>2 DEF Types, TypeOK
<1>5. drivers'[d] # Store!Absent
  BY <1>2, <1>3 DEF Store!Absent
<1>6. QED
  BY <1>3, <1>4, <1>5

LEMMA CopyArrive ==
  ASSUME Types, CopyCurrent, NEW h \in Beats, NEW d \in Drivers, Arrive(h, d)
  PROVE  CopyCurrent'
<1>1. /\ UNCHANGED <<drivers, stamp, torn>>
      /\ beat'[h].pc = "get" /\ \A g \in Beats \ {h} : beat'[g] = beat[g]
  BY ArriveStep, LocalsTyped
<1>2. QED
  BY <1>1 DEF CopyCurrent, Reading, At, Late, Present

LEMMA CopyLoad ==
  ASSUME Types, CopyCurrent, NEW h \in Beats, Load(h)
  PROVE  CopyCurrent'
<1> DEFINE d == beat[h].driver
<1>1. /\ UNCHANGED <<drivers, stamp, torn>>
      /\ beat'[h].driver = d /\ beat'[h].now = beat[h].now
      /\ beat'[h].copy = IF Present(d) THEN drivers[d] ELSE Store!Fresh
      /\ \A g \in Beats \ {h} : beat'[g] = beat[g]
  BY LoadStep, LocalsTyped
<1>2. QED
  BY <1>1 DEF CopyCurrent, Reading, At, Late, Present

LEMMA CopyMirror ==
  ASSUME Types, CopyCurrent, NEW h \in Beats, Mirror(h)
  PROVE  CopyCurrent'
<1>1. /\ UNCHANGED <<drivers, stamp, torn>>
      /\ beat'[h].pc = "none" /\ \A g \in Beats \ {h} : beat'[g] = beat[g]
  BY LocalsTyped DEF Mirror, Unborn
<1>2. QED
  BY <1>1 DEF CopyCurrent, Reading, At, Late, Present

(* The step of the protocol puts its own time on the entry, which is later *)
(* than every time read before it.                                         *)
LEMMA CopyProtocol ==
  ASSUME Strict, Types, CopyCurrent, NEW d \in Drivers, Protocol(d)
  PROVE  CopyCurrent'
<1>1. /\ UNCHANGED <<beat, torn>>
      /\ \A e \in Drivers \ {d} : drivers'[e] = drivers[e] /\ stamp'[e] = stamp[e]
  BY ProtocolStep DEF Types, TypeOK
<1>2. stamp'[d].updated = clock + 1 /\ clock \in Nat
  BY ProtocolStep, ClockStep DEF Types, TypeOK
<1>3. \A h \in Beats : beat[h].now \in Nat /\ beat[h].now < clock + 1
  BY LocalsTyped, <1>2 DEF Locals
<1>4. ASSUME NEW h \in Beats
      PROVE  Late(d, beat[h].now)'
  BY <1>1, <1>2, <1>3, ProtocolStep DEF Late
<1>5. ASSUME NEW h \in Beats, NEW e \in Drivers, (Reading(h, e) /\ e \notin torn)'
      PROVE  (IF Present(e) THEN Late(e, beat[h].now) \/ beat[h].copy = drivers[e]
                            ELSE beat[h].copy = Store!Fresh)'
  <2>1. CASE e = d
    BY <1>4, <2>1, ProtocolStep
  <2>2. CASE e # d
    BY <1>1, <1>5, <2>2 DEF CopyCurrent, Reading, At, Late, Present
  <2>3. QED
    BY <2>1, <2>2
<1>6. QED
  BY <1>5 DEF CopyCurrent

(* The response goes without a time: whoever reads the driver is torn.     *)
LEMMA CopyRespond ==
  ASSUME Types, CopyCurrent, NEW d \in Drivers, Respond(d)
  PROVE  CopyCurrent'
<1>1. /\ UNCHANGED <<beat, stamp>>
      /\ torn \subseteq torn' /\ \A h \in Beats : Reading(h, d) => d \in torn'
      /\ \A e \in Drivers \ {d} : drivers'[e] = drivers[e]
  BY RespondStep
<1>2. QED
  BY <1>1 DEF CopyCurrent, Reading, At, Late, Present

(* Another heartbeat writes what this one has read too, or has made it     *)
(* late.                                                                   *)
LEMMA CopyUpsert ==
  ASSUME Types, CopyCurrent, NEW h \in Beats, Upsert(h)
  PROVE  CopyCurrent'
<1>1. SUFFICES ASSUME NEW g \in Beats, NEW e \in Drivers, Reading(g, e)', e \notin torn'
               PROVE  (IF Present(e) THEN Late(e, beat[g].now) \/ beat[g].copy = drivers[e]
                                     ELSE beat[g].copy = Store!Fresh)'
  BY DEF CopyCurrent
<1>2. g # h /\ beat'[g] = beat[g] /\ Reading(g, e)
  BY <1>1, UpsertFrame DEF Reading, At
<1>3. e \notin torn
  BY <1>1, <1>2, UpsertStep
<1>4. IF Present(e) THEN Late(e, beat[g].now) \/ beat[g].copy = drivers[e]
                    ELSE beat[g].copy = Store!Fresh
  BY <1>2, <1>3 DEF CopyCurrent
<1>5. CASE Late(beat[h].driver, beat[h].now)
  BY <1>2, <1>4, <1>5, UpsertDrops DEF Late, Present
<1>6. CASE ~Late(beat[h].driver, beat[h].now) /\ e # beat[h].driver
  BY <1>2, <1>4, <1>6, UpsertWrites DEF Late, Present
<1>7. CASE ~Late(beat[h].driver, beat[h].now) /\ e = beat[h].driver
  <2>1. /\ drivers'[e] = beat[h].copy /\ Present(e)'
        /\ stamp'[e] = [updated |-> beat[h].now, loc |-> beat[h].fix]
    BY <1>7, UpsertWrites DEF Present
  <2>2. IF Present(e) THEN beat[h].copy = drivers[e] ELSE beat[h].copy = Store!Fresh
    BY <1>3, <1>7, UpsertFrame DEF CopyCurrent
  <2>3. CASE beat[g].copy = beat[h].copy
    BY <1>2, <2>1, <2>3
  <2>4. CASE Present(e) /\ Late(e, beat[g].now)
    <3>1. beat[g].now \in Nat /\ beat[h].now \in Nat /\ stamp[e].updated \in Nat
      BY LocalsTyped DEF Locals, Types, TypeOK
    <3>2. beat[g].now < beat[h].now
      BY <1>7, <2>4, <3>1 DEF Late
    <3>3. QED
      BY <1>2, <2>1, <3>2 DEF Late
  <2>5. QED
    BY <1>4, <2>2, <2>3, <2>4
<1>8. QED
  BY <1>5, <1>6, <1>7

LEMMA CopyDelete ==
  ASSUME Types, CopyCurrent, NEW d \in Drivers, Delete(d)
  PROVE  CopyCurrent'
<1>1. /\ UNCHANGED beat
      /\ torn \subseteq torn' /\ \A h \in Beats : Reading(h, d) => d \in torn'
      /\ \A e \in Drivers \ {d} : drivers'[e] = drivers[e] /\ stamp'[e] = stamp[e]
  BY DEF Delete, Torn, Store!Delete, Types, TypeOK, Store!TypeOK
<1>2. QED
  BY <1>1 DEF CopyCurrent, Reading, At, Late, Present

LEMMA CopyNext == Strict /\ Types /\ CopyCurrent /\ [Next]_vars => CopyCurrent'
<1> SUFFICES ASSUME Strict, Types, CopyCurrent, [Next]_vars
             PROVE  CopyCurrent'
  OBVIOUS
<1>1. ASSUME NEW d \in Drivers, Protocol(d) \/ Respond(d) \/ Delete(d)
      PROVE  CopyCurrent'
  BY <1>1, CopyProtocol, CopyRespond, CopyDelete
<1>2. ASSUME NEW h \in Beats, Load(h) \/ Upsert(h) \/ Mirror(h)
      PROVE  CopyCurrent'
  BY <1>2, CopyLoad, CopyUpsert, CopyMirror
<1>3. ASSUME NEW h \in Beats, NEW d \in Drivers, Arrive(h, d)
      PROVE  CopyCurrent'
  BY <1>3, CopyArrive
<1>4. ASSUME UNCHANGED <<drivers, stamp, beat, torn>>
      PROVE  CopyCurrent'
  BY <1>4 DEF CopyCurrent, Reading, At, Late, Present
<1>5. ASSUME NEW d \in Drivers, Send(d) \/ FallSilent(d)
      PROVE  CopyCurrent'
  BY <1>4, <1>5 DEF Send, FallSilent
<1>6. CASE Expired \/ Remove \/ UNCHANGED vars
  BY <1>4, <1>6 DEF Expired, Remove, vars
<1>7. QED
  BY <1>1, <1>2, <1>3, <1>5, <1>6 DEF Next

LEMMA CopyMeansKept ==
  ASSUME Types, CopyCurrent, NEW h \in Beats, NEW d \in Drivers,
         Upsert(h), Present(d), d \notin torn
  PROVE  drivers'[d] = drivers[d]
<1>1. CASE Late(beat[h].driver, beat[h].now)
  BY <1>1, UpsertDrops
<1>2. CASE ~Late(beat[h].driver, beat[h].now) /\ d # beat[h].driver
  BY <1>2, UpsertWrites
<1>3. CASE ~Late(beat[h].driver, beat[h].now) /\ d = beat[h].driver
  <2>1. beat[h].copy = drivers[d]
    BY <1>3, UpsertFrame DEF CopyCurrent
  <2>2. QED
    BY <1>3, <2>1, UpsertWrites
<1>4. QED
  BY <1>1, <1>2, <1>3

(* When two readings of the clock always differ, a heartbeat never undoes  *)
(* a step of the protocol on a driver that was neither evicted nor         *)
(* answered through RespondToIntent between its Get and its Upsert: the    *)
(* comparison of times in Upsert is enough, although status and            *)
(* reservation are read in one critical section and written in another.    *)
THEOREM HeartbeatsKeepStatus ==
  ASSUME Strict
  PROVE  Spec => StatusKept
<1>1. Init => CopyCurrent
  BY DEF Init, CopyCurrent, Reading, At, Unborn
<1>2. Spec => [](Types /\ CopyCurrent)
  BY <1>1, InitTypes, NextTypes, CopyNext, PTL DEF Spec
<1>3. Types /\ CopyCurrent /\ [Next]_vars =>
        [\A h \in Beats, d \in Drivers :
           Upsert(h) /\ Present(d) /\ d \notin torn => drivers'[d] = drivers[d]]_vars
  BY CopyMeansKept
<1>4. QED
  BY <1>2, <1>3, PTL DEF Spec, StatusKept

-----------------------------------------------------------------------------
(* Packets that do not overtake each other are delivered, timed and hence  *)
(* accepted in the order in which the driver sent them.                    *)

Pending(h, d) == beat[h].pc \in {"get", "upsert"} /\ beat[h].driver = d

(* A packet under way was sent after every fix the server has seen.        *)
FlyingIsNewer ==
  \A d \in Drivers :
    /\ stamp[d].loc <= radio[d].sent
    /\ \A f \in radio[d].flying : f <= radio[d].sent /\ stamp[d].loc < f
    /\ \A h \in Beats : Pending(h, d) =>
         beat[h].fix <= radio[d].sent /\ \A f \in radio[d].flying : beat[h].fix < f

(* Two heartbeats of a driver read the clock in the order of their fixes.  *)
BeatsInOrder ==
  \A d \in Drivers, g, h \in Beats :
    g # h /\ Pending(g, d) /\ Pending(h, d) =>
      /\ beat[g].now # beat[h].now
      /\ beat[g].now < beat[h].now => beat[g].fix < beat[h].fix

(* A heartbeat that is still to be accepted is of a later fix.             *)
AcceptedIsNewer ==
  \A d \in Drivers, h \in Beats :
    Pending(h, d) /\ Present(d) /\ ~Late(d, beat[h].now) => stamp[d].loc < beat[h].fix

Ordered == FlyingIsNewer /\ BeatsInOrder /\ AcceptedIsNewer

LEMMA Numbers ==
  ASSUME Types
  PROVE  /\ clock \in Nat
         /\ \A d \in Drivers : /\ stamp[d].loc \in Nat /\ stamp[d].updated \in Nat
                               /\ stamp[d].updated <= clock
                               /\ radio[d].sent \in Nat /\ radio[d].flying \subseteq Nat
         /\ \A h \in Beats : beat[h].fix \in Nat /\ beat[h].now \in Nat /\ beat[h].now <= clock
<1>1. clock \in Nat
  BY FleetAssumption DEF Types, TypeOK
<1>2. ASSUME NEW d \in Drivers
      PROVE  /\ stamp[d].loc \in Nat /\ stamp[d].updated \in Nat
             /\ stamp[d].updated <= clock
             /\ radio[d].sent \in Nat /\ radio[d].flying \subseteq Nat
  BY <1>1, FleetAssumption DEF Types, TypeOK, Fix
<1>3. ASSUME NEW h \in Beats
      PROVE  beat[h].fix \in Nat /\ beat[h].now \in Nat /\ beat[h].now <= clock
  BY <1>1, LocalsTyped, FleetAssumption DEF Locals
<1>4. QED
  BY <1>1, <1>2, <1>3

LEMMA OrderedInit == Init => Ordered
BY DEF Init, Ordered, FlyingIsNewer, BeatsInOrder, AcceptedIsNewer, Pending, Unborn,
       NoStamp, Present, Store!Init

LEMMA OrderedSend ==
  ASSUME Types, Ordered, NEW d \in Drivers, Send(d)
  PROVE  Ordered'
<1>1. /\ radio'[d].sent = radio[d].sent + 1
      /\ radio'[d].flying = radio[d].flying \cup {radio[d].sent + 1}
      /\ \A e \in Drivers \ {d} : radio'[e] = radio[e]
      /\ UNCHANGED <<drivers, stamp, beat>>
  BY DEF Send, Types, TypeOK
<1>2. BeatsInOrder' /\ AcceptedIsNewer'
  BY <1>1 DEF Ordered, BeatsInOrder, AcceptedIsNewer, Pending, Late, Present
<1>3. ASSUME NEW e \in Drivers
      PROVE  /\ stamp[e].loc <= radio'[e].sent
             /\ \A f \in radio'[e].flying : f <= radio'[e].sent /\ stamp[e].loc < f
             /\ \A h \in Beats : Pending(h, e) =>
                  beat[h].fix <= radio'[e].sent /\ \A f \in radio'[e].flying : beat[h].fix < f
  <2>1. CASE e # d
    BY <1>1, <2>1 DEF Ordered, FlyingIsNewer
  <2>2. CASE e = d
    BY <1>1, <2>2, Numbers DEF Ordered, FlyingIsNewer
  <2>3. QED
    BY <2>1, <2>2
<1>4. QED
  BY <1>1, <1>2, <1>3 DEF Ordered, FlyingIsNewer, Pending

LEMMA OrderedArrive ==
  ASSUME Strict, ~Reorders, Types, Ordered, NEW h \in Beats, NEW d \in Drivers, Arrive(h, d)
  PROVE  Ordered'
<1>1. PICK f \in radio[d].flying :
        /\ \A g \in radio[d].flying : f <= g
        /\ radio' = [radio EXCEPT ![d].flying = @ \ {f}]
        /\ beat' = [beat EXCEPT ![h] =
             [pc |-> "get", driver |-> d, fix |-> f, now |-> clock',
              copy |-> Store!Absent]]
  BY ArriveStep DEF Deliverable
<1>2. /\ radio'[d].sent = radio[d].sent /\ radio'[d].flying = radio[d].flying \ {f}
      /\ \A e \in Drivers \ {d} : radio'[e] = radio[e]
  BY <1>1 DEF Types, TypeOK
<1>3. /\ Pending(h, d)' /\ beat'[h].fix = f /\ beat'[h].now = clock + 1
      /\ \A e \in Drivers : Pending(h, e)' => e = d
      /\ \A g \in Beats \ {h} : beat'[g] = beat[g]
  BY <1>1, ArriveStep, ClockStep, LocalsTyped DEF Pending, Types
<1>4. UNCHANGED <<drivers, stamp>>
  BY ArriveStep
<1>5. FlyingIsNewer'
  <2>1. ASSUME NEW e \in Drivers
        PROVE  /\ stamp[e].loc <= radio'[e].sent
               /\ \A k \in radio'[e].flying : k <= radio'[e].sent /\ stamp[e].loc < k
    BY <1>2 DEF Ordered, FlyingIsNewer
  <2>2. ASSUME NEW e \in Drivers, NEW g \in Beats, Pending(g, e)'
        PROVE  beat'[g].fix <= radio'[e].sent /\ \A k \in radio'[e].flying : beat'[g].fix < k
    <3>1. CASE g = h
      BY <1>1, <1>2, <1>3, <2>2, <3>1, Numbers DEF Ordered, FlyingIsNewer
    <3>2. CASE g # h
      BY <1>2, <1>3, <2>2, <3>2 DEF Ordered, FlyingIsNewer, Pending
    <3>3. QED
      BY <3>1, <3>2
  <2>3. QED
    BY <1>4, <2>1, <2>2 DEF FlyingIsNewer
<1>6. BeatsInOrder'
  <2>1. ASSUME NEW e \in Drivers, NEW g \in Beats \ {h}, Pending(g, e)', Pending(h, e)'
        PROVE  beat'[g].now < beat'[h].now /\ beat'[g].fix < beat'[h].fix
    BY <1>1, <1>3, <2>1, Numbers DEF Ordered, FlyingIsNewer, Pending
  <2>2. ASSUME NEW e \in Drivers, NEW g \in Beats \ {h}, NEW k \in Beats \ {h}, g # k,
               Pending(g, e)', Pending(k, e)'
        PROVE  /\ beat'[g].now # beat'[k].now
               /\ beat'[g].now < beat'[k].now => beat'[g].fix < beat'[k].fix
    BY <1>3, <2>2 DEF Ordered, BeatsInOrder, Pending
  <2>3. \A g \in Beats : beat'[g].now \in Nat
    BY <1>3, Numbers
  <2>4. QED
    BY <2>1, <2>2, <2>3 DEF BeatsInOrder
<1>7. AcceptedIsNewer'
  <2>1. ASSUME NEW e \in Drivers, NEW g \in Beats,
               Pending(g, e)', Present(e)', ~Late(e, beat[g].now)'
        PROVE  stamp'[e].loc < beat'[g].fix
    <3>1. CASE g = h
      BY <1>1, <1>3, <1>4, <2>1, <3>1 DEF Ordered, FlyingIsNewer
    <3>2. CASE g # h
      BY <1>3, <1>4, <2>1, <3>2 DEF Ordered, AcceptedIsNewer, Pending, Present, Late
    <3>3. QED
      BY <3>1, <3>2
  <2>2. QED
    BY <2>1 DEF AcceptedIsNewer
<1>8. QED
  BY <1>5, <1>6, <1>7 DEF Ordered

(* A step that adds no pending heartbeat and leaves the repository alone.  *)
LEMMA OrderedFrame ==
  ASSUME Types, Ordered, UNCHANGED <<drivers, stamp, radio>>,
         \A g \in Beats, e \in Drivers : Pending(g, e)' =>
           /\ Pending(g, e)
           /\ beat'[g].fix = beat[g].fix /\ beat'[g].now = beat[g].now
  PROVE  Ordered'
BY DEF Ordered, FlyingIsNewer, BeatsInOrder, AcceptedIsNewer, Pending, Late, Present

LEMMA OrderedProtocol ==
  ASSUME Strict, Types, Ordered, NEW d \in Drivers, Protocol(d)
  PROVE  Ordered'
<1>1. /\ UNCHANGED <<beat, radio>>
      /\ \A e \in Drivers \ {d} : drivers'[e] = drivers[e] /\ stamp'[e] = stamp[e]
      /\ stamp'[d].loc = stamp[d].loc /\ stamp'[d].updated = clock + 1 /\ Present(d)'
  BY ProtocolStep, ClockStep DEF Types, TypeOK
<1>2. \A e \in Drivers : stamp'[e].loc = stamp[e].loc
  BY <1>1
<1>3. FlyingIsNewer' /\ BeatsInOrder'
  BY <1>1, <1>2 DEF Ordered, FlyingIsNewer, BeatsInOrder, Pending
<1>4. ASSUME NEW e \in Drivers, NEW g \in Beats,
             Pending(g, e)', Present(e)', ~Late(e, beat[g].now)'
      PROVE  stamp'[e].loc < beat'[g].fix
  <2>1. e # d
    BY <1>1, <1>4, Numbers DEF Late
  <2>2. QED
    BY <1>1, <1>4, <2>1 DEF Ordered, AcceptedIsNewer, Pending, Present, Late
<1>5. QED
  BY <1>3, <1>4 DEF Ordered, AcceptedIsNewer

LEMMA OrderedRespond ==
  ASSUME Types, Ordered, NEW d \in Drivers, Respond(d)
  PROVE  Ordered'
<1>1. UNCHANGED <<beat, radio, stamp>> /\ \A e \in Drivers : Present(e)' <=> Present(e)
  BY RespondStep DEF Present
<1>2. QED
  BY <1>1 DEF Ordered, FlyingIsNewer, BeatsInOrder, AcceptedIsNewer, Pending, Late

LEMMA OrderedUpsert ==
  ASSUME Types, Ordered, NEW h \in Beats, Upsert(h)
  PROVE  Ordered'
<1> DEFINE d == beat[h].driver
<1>1. /\ d \in Drivers /\ Pending(h, d) /\ UNCHANGED radio
      /\ \A g \in Beats, e \in Drivers : Pending(g, e)' =>
           g # h /\ Pending(g, e) /\ beat'[g] = beat[g]
  BY UpsertFrame, UpsertStep DEF Pending, Reading, At
<1>2. CASE Late(d, beat[h].now)
  BY <1>1, <1>2, UpsertDrops, OrderedFrame
<1>3. CASE ~Late(d, beat[h].now)
  <2>1. /\ drivers'[d] # Store!Absent
        /\ stamp'[d].updated = beat[h].now /\ stamp'[d].loc = beat[h].fix
        /\ \A e \in Drivers \ {d} : drivers'[e] = drivers[e] /\ stamp'[e] = stamp[e]
    BY <1>3, UpsertWrites
  <2>2. BeatsInOrder'
    BY <1>1 DEF Ordered, BeatsInOrder
  <2>3. FlyingIsNewer'
    <3>1. ASSUME NEW e \in Drivers
          PROVE  /\ stamp'[e].loc <= radio[e].sent
                 /\ \A f \in radio[e].flying : f <= radio[e].sent /\ stamp'[e].loc < f
      BY <1>1, <2>1 DEF Ordered, FlyingIsNewer
    <3>2. QED
      BY <1>1, <3>1 DEF Ordered, FlyingIsNewer
  <2>4. AcceptedIsNewer'
    <3>1. SUFFICES ASSUME NEW e \in Drivers, NEW g \in Beats,
                          Pending(g, e)', Present(e)', ~Late(e, beat[g].now)'
                   PROVE  stamp'[e].loc < beat'[g].fix
      BY DEF AcceptedIsNewer
    <3>2. g # h /\ Pending(g, e) /\ beat'[g] = beat[g]
      BY <1>1, <3>1
    <3>3. CASE e # d
      BY <2>1, <3>1, <3>2, <3>3 DEF Ordered, AcceptedIsNewer, Present, Late
    <3>4. CASE e = d
      <4>1. ~(beat[g].now < beat[h].now)
        BY <2>1, <3>1, <3>2, <3>4 DEF Late
      <4>2. beat[h].now < beat[g].now
        BY <1>1, <3>2, <3>4, <4>1, Numbers DEF Ordered, BeatsInOrder
      <4>3. beat[h].fix < beat[g].fix
        BY <1>1, <3>2, <3>4, <4>2 DEF Ordered, BeatsInOrder
      <4>4. QED
        BY <2>1, <3>2, <3>4, <4>3
    <3>5. QED
      BY <3>3, <3>4
  <2>5. QED
    BY <2>2, <2>3, <2>4 DEF Ordered
<1>4. QED
  BY <1>2, <1>3

LEMMA OrderedDelete ==
  ASSUME Types, Ordered, NEW d \in Drivers, Delete(d)
  PROVE  Ordered'
<1>1. /\ UNCHANGED <<beat, radio>>
      /\ \A e \in Drivers \ {d} : drivers'[e] = drivers[e] /\ stamp'[e] = stamp[e]
      /\ drivers'[d] = Store!Absent /\ stamp'[d].loc = 0
  BY DEF Delete, Store!Delete, NoStamp, Types, TypeOK, Store!TypeOK
<1>2. BeatsInOrder'
  BY <1>1 DEF Ordered, BeatsInOrder, Pending
<1>3. AcceptedIsNewer'
  BY <1>1 DEF Ordered, AcceptedIsNewer, Pending, Present, Late
<1>4. \A f \in radio[d].flying : 0 < f
  BY DEF Types, TypeOK, Fix
<1>5. \A e \in Drivers :
        /\ stamp'[e].loc <= radio[e].sent
        /\ \A f \in radio[e].flying : f <= radio[e].sent /\ stamp'[e].loc < f
  BY <1>1, <1>4, Numbers DEF Ordered, FlyingIsNewer
<1>6. QED
  BY <1>1, <1>2, <1>3, <1>5 DEF Ordered, FlyingIsNewer, Pending

LEMMA OrderedNext == Strict /\ ~Reorders /\ Types /\ Ordered /\ [Next]_vars => Ordered'
<1> SUFFICES ASSUME Strict, ~Reorders, Types, Ordered, [Next]_vars
             PROVE  Ordered'
  OBVIOUS
<1>1. ASSUME NEW d \in Drivers, Send(d) \/ Protocol(d) \/ Respond(d) \/ Delete(d)
      PROVE  Ordered'
  BY <1>1, OrderedSend, OrderedProtocol, OrderedRespond, OrderedDelete
<1>2. ASSUME NEW h \in Beats, NEW d \in Drivers, Arrive(h, d)
      PROVE  Ordered'
  BY <1>2, OrderedArrive
<1>3. ASSUME NEW h \in Beats, Upsert(h)
      PROVE  Ordered'
  BY <1>3, OrderedUpsert
<1>4. ASSUME NEW h \in Beats, Load(h)
      PROVE  Ordered'
  <2>1. /\ UNCHANGED <<drivers, stamp, radio>> /\ beat[h].pc = "get"
        /\ beat'[h].driver = beat[h].driver /\ beat'[h].fix = beat[h].fix
        /\ beat'[h].now = beat[h].now
        /\ \A g \in Beats \ {h} : beat'[g] = beat[g]
    BY <1>4, LoadStep, LocalsTyped
  <2>2. QED
    BY <2>1, OrderedFrame DEF Pending
<1>5. ASSUME NEW h \in Beats, Mirror(h)
      PROVE  Ordered'
  <2>1. /\ UNCHANGED <<drivers, stamp, radio>> /\ beat'[h].pc = "none"
        /\ \A g \in Beats \ {h} : beat'[g] = beat[g]
    BY <1>5, LocalsTyped DEF Mirror, Unborn
  <2>2. QED
    BY <2>1, OrderedFrame DEF Pending
<1>6. ASSUME UNCHANGED <<drivers, stamp, radio, beat>>
      PROVE  Ordered'
  BY <1>6, OrderedFrame DEF Pending
<1>7. ASSUME NEW d \in Drivers, FallSilent(d)
      PROVE  Ordered'
  BY <1>6, <1>7 DEF FallSilent
<1>8. CASE Expired \/ Remove \/ UNCHANGED vars
  BY <1>6, <1>8 DEF Expired, Remove, vars
<1>9. QED
  BY <1>1, <1>2, <1>3, <1>4, <1>5, <1>7, <1>8 DEF Next

LEMMA OrderedMeansMonotonic ==
  ASSUME Types, Ordered, Next, NEW d \in Drivers, Present(d), Present(d)'
  PROVE  stamp'[d].loc >= stamp[d].loc
<1>1. CASE UNCHANGED stamp
  BY <1>1, Numbers
<1>2. ASSUME NEW e \in Drivers, Protocol(e)
      PROVE  stamp'[d].loc = stamp[d].loc
  BY <1>2, ProtocolStep DEF Types, TypeOK
<1>3. ASSUME NEW e \in Drivers, Delete(e)
      PROVE  stamp'[d].loc = stamp[d].loc
  BY <1>3 DEF Delete, Store!Delete, Types, TypeOK, Store!TypeOK, Present
<1>4. ASSUME NEW h \in Beats, Upsert(h)
      PROVE  stamp'[d].loc >= stamp[d].loc
  <2>1. CASE Late(beat[h].driver, beat[h].now)
    BY <1>1, <1>4, <2>1, UpsertDrops
  <2>2. CASE ~Late(beat[h].driver, beat[h].now) /\ d # beat[h].driver
    <3>1. stamp'[d] = stamp[d]
      BY <1>4, <2>2, UpsertWrites
    <3>2. QED
      BY <3>1, Numbers
  <2>3. CASE ~Late(beat[h].driver, beat[h].now) /\ d = beat[h].driver
    <3>1. stamp[d].loc < beat[h].fix
      BY <1>4, <2>3, UpsertFrame DEF Ordered, AcceptedIsNewer, Pending, Reading, At
    <3>2. stamp'[d].loc = beat[h].fix
      BY <1>4, <2>3, UpsertWrites
    <3>3. QED
      BY <3>1, <3>2, Numbers
  <2>4. QED
    BY <2>1, <2>2, <2>3
<1>5. CASE \E e \in Drivers : Send(e) \/ Respond(e) \/ FallSilent(e)
  BY <1>1, <1>5 DEF Send, Respond, FallSilent
<1>6. CASE \E h \in Beats : Load(h) \/ Mirror(h) \/ \E e \in Drivers : Arrive(h, e)
  BY <1>1, <1>6 DEF Load, Mirror, Arrive
<1>7. CASE Expired \/ Remove
  BY <1>1, <1>7 DEF Expired, Remove
<1>8. QED
  BY <1>2, <1>3, <1>4, <1>5, <1>6, <1>7, Numbers DEF Next

(* When packets arrive in the order they were sent and two readings of the *)
(* clock always differ, the repository never moves a known driver back to  *)
(* an earlier fix, however the heartbeats, the protocol and the eviction   *)
(* interleave.                                                             *)
THEOREM LocationsMoveForward ==
  ASSUME Strict, ~Reorders
  PROVE  Spec => LocationMonotonic
<1>1. Spec => [](Types /\ Ordered)
  BY InitTypes, OrderedInit, NextTypes, OrderedNext, PTL DEF Spec
<1>2. Types /\ Ordered /\ [Next]_vars =>
        [\A d \in Drivers :
           Present(d) /\ Present(d)' => stamp'[d].loc >= stamp[d].loc]_vars
  BY OrderedMeansMonotonic
<1>3. QED
  BY <1>1, <1>2, PTL DEF Spec, LocationMonotonic

-----------------------------------------------------------------------------
(* MatchingSince and the Intent.                                           *)

(* What a heartbeat may still write back is marked as the entries are.     *)
CopiesMarked == \A h \in Beats : At(h, "upsert") => Marked(beat[h].copy)

MarkInv == SinceOnlyMatching /\ CopiesMarked

LEMMA MarkInit == Init => MarkInv
BY DEF Init, MarkInv, SinceOnlyMatching, CopiesMarked, At, Unborn, Store!Init, Store!Absent

LEMMA MarkFrame ==
  ASSUME MarkInv, UNCHANGED <<drivers, beat>>
  PROVE  MarkInv'
BY DEF MarkInv, SinceOnlyMatching, CopiesMarked, At

LEMMA MarkCall ==
  ASSUME Types, MarkInv, NEW d \in Drivers, Protocol(d) \/ Respond(d)
  PROVE  MarkInv'
<1>1. Marked(drivers[d]) => Marked(drivers'[d])
  BY CallStep DEF Follows
<1>2. QED
  BY <1>1, CallStep DEF MarkInv, SinceOnlyMatching, CopiesMarked, Marked, At

LEMMA MarkDelete ==
  ASSUME Types, MarkInv, NEW d \in Drivers, Delete(d)
  PROVE  MarkInv'
<1>1. /\ UNCHANGED beat /\ Marked(drivers'[d])
      /\ \A e \in Drivers \ {d} : drivers'[e] = drivers[e]
  BY DEF Delete, Store!Delete, Store!Absent, Marked, Types, TypeOK, Store!TypeOK
<1>2. QED
  BY <1>1 DEF MarkInv, SinceOnlyMatching, CopiesMarked, Marked, At

LEMMA MarkLoad ==
  ASSUME Types, MarkInv, NEW h \in Beats, Load(h)
  PROVE  MarkInv'
<1>1. /\ UNCHANGED drivers /\ beat[h].driver \in Drivers
      /\ beat'[h].copy = IF Present(beat[h].driver) THEN drivers[beat[h].driver]
                                                    ELSE Store!Fresh
      /\ \A g \in Beats \ {h} : beat'[g] = beat[g]
  BY LoadStep, LocalsTyped
<1>2. Marked(beat'[h].copy)
  BY <1>1 DEF MarkInv, SinceOnlyMatching, Marked, Store!Fresh
<1>3. QED
  BY <1>1, <1>2 DEF MarkInv, SinceOnlyMatching, CopiesMarked, At

LEMMA MarkUpsert ==
  ASSUME Types, MarkInv, NEW h \in Beats, Upsert(h)
  PROVE  MarkInv'
<1>1. CopiesMarked'
  BY UpsertFrame DEF MarkInv, CopiesMarked, At
<1>2. Marked(beat[h].copy)
  BY UpsertFrame DEF MarkInv, CopiesMarked, Reading
<1>3. SinceOnlyMatching'
  <2>1. CASE Late(beat[h].driver, beat[h].now)
    BY <2>1, UpsertDrops DEF MarkInv, SinceOnlyMatching
  <2>2. CASE ~Late(beat[h].driver, beat[h].now)
    BY <1>2, <2>2, UpsertWrites DEF MarkInv, SinceOnlyMatching, Marked
  <2>3. QED
    BY <2>1, <2>2
<1>4. QED
  BY <1>1, <1>3 DEF MarkInv

LEMMA MarkNext == Types /\ MarkInv /\ [Next]_vars => MarkInv'
<1> SUFFICES ASSUME Types, MarkInv, [Next]_vars
             PROVE  MarkInv'
  OBVIOUS
<1>1. ASSUME NEW d \in Drivers, Protocol(d) \/ Respond(d) \/ Delete(d)
      PROVE  MarkInv'
  BY <1>1, MarkCall, MarkDelete
<1>2. ASSUME NEW h \in Beats, Load(h) \/ Upsert(h)
      PROVE  MarkInv'
  BY <1>2, MarkLoad, MarkUpsert
<1>3. ASSUME NEW h \in Beats, Mirror(h) \/ \E d \in Drivers : Arrive(h, d)
      PROVE  MarkInv'
  <2>1. /\ UNCHANGED drivers /\ beat'[h].pc # "upsert"
        /\ \A g \in Beats \ {h} : beat'[g] = beat[g]
    BY <1>3, LocalsTyped DEF Mirror, Arrive, Unborn
  <2>2. QED
    BY <2>1 DEF MarkInv, SinceOnlyMatching, CopiesMarked, At
<1>4. ASSUME NEW d \in Drivers, Send(d) \/ FallSilent(d)
      PROVE  MarkInv'
  BY <1>4, MarkFrame DEF Send, FallSilent
<1>5. CASE Expired \/ Remove \/ UNCHANGED vars
  BY <1>5, MarkFrame DEF Expired, Remove, vars
<1>6. QED
  BY <1>1, <1>2, <1>3, <1>4, <1>5 DEF Next

(* MatchingSince is set in MATCHING and nowhere else, through any sequence *)
(* of calls and evictions and whatever entry a heartbeat writes back: no   *)
(* transition and no response leaves a stamp behind, or forgets one, that  *)
(* FindStuckMatching reads.                                                *)
THEOREM SinceFollowsStatus == Spec => []SinceOnlyMatching
<1>1. Spec => []Types
  BY InitTypes, NextTypes, PTL DEF Spec
<1>2. MarkInv => SinceOnlyMatching
  BY DEF MarkInv
<1>3. QED
  BY <1>1, <1>2, MarkInit, MarkNext, PTL DEF Spec

LEMMA StepDropsIntent ==
  ASSUME Types, CopyCurrent, Next,
         NEW d \in Drivers, Present(d), d \in torn => UNCHANGED beat,
         drivers'[d].status \in {"idle", "busy"}, drivers'[d].status # drivers[d].status
  PROVE  drivers'[d].intent = NoRider
<1>1. drivers'[d] # drivers[d]
  OBVIOUS
<1>2. ASSUME NEW h \in Beats, Upsert(h)
      PROVE  FALSE
  <2>1. beat'[h] # beat[h]
    BY <1>2, UpsertFrame DEF Reading, At
  <2>2. QED
    BY <1>1, <1>2, <2>1, CopyMeansKept
<1>3. ASSUME NEW e \in Drivers, Protocol(e) \/ Respond(e)
      PROVE  drivers'[d].intent = NoRider
  <2>1. e = d
    BY <1>1, <1>3, CallStep
  <2>2. QED
    BY <1>3, <2>1, CallStep DEF Follows
<1>4. ASSUME NEW e \in Drivers, Delete(e)
      PROVE  drivers'[d].intent = NoRider
  <2>1. drivers'[d] = Store!Absent
    BY <1>1, <1>4 DEF Delete, Store!Delete, Types, TypeOK, Store!TypeOK
  <2>2. QED
    BY <2>1 DEF Store!Absent
<1>5. UNCHANGED drivers => FALSE
  BY <1>1
<1>6. CASE \/ \E e \in Drivers : Send(e) \/ FallSilent(e)
           \/ \E h \in Beats : Load(h) \/ Mirror(h) \/ \E e \in Drivers : Arrive(h, e)
           \/ Expired \/ Remove
  BY <1>5, <1>6 DEF Send, FallSilent, Load, Mirror, Arrive, Expired, Remove
<1>7. QED
  BY <1>2, <1>3, <1>4, <1>6 DEF Next

(* When two readings of the clock always differ, a driver that comes to    *)
(* IDLE or BUSY leaves its Intent behind: with TryLockIntent and           *)
(* ClearIntent called in any status, with RespondToIntent beside the state *)
(* machine, and with heartbeats that write back what they have read,       *)
(* except to a driver that is gone or torn.                                *)
THEOREM ReservationIsDropped ==
  ASSUME Strict
  PROVE  Spec => ReservationDropped
<1>1. Init => CopyCurrent
  BY DEF Init, CopyCurrent, Reading, At, Unborn
<1>2. Spec => [](Types /\ CopyCurrent)
  BY <1>1, InitTypes, NextTypes, CopyNext, PTL DEF Spec
<1>3. Types /\ CopyCurrent /\ [Next]_vars =>
        [\A d \in Drivers :
           /\ Present(d) /\ (d \in torn => UNCHANGED beat)
           /\ drivers'[d].status \in {"idle", "busy"} /\ drivers'[d].status # drivers[d].status
           => drivers'[d].intent = NoRider]_vars
  BY StepDropsIntent
<1>4. QED
  BY <1>2, <1>3, PTL DEF Spec, ReservationDropped

-----------------------------------------------------------------------------
(* The index mirrors the repository when nothing comes between the two     *)
(* writes of a heartbeat.                                                  *)

(* No driver has two heartbeats under way.                                 *)
OneAtATime ==
  \A g, h \in Beats :
    /\ beat[g].pc # "none" /\ beat[h].pc # "none"
    /\ beat[g].driver = beat[h].driver
    => g = h

(* A heartbeat on its way to the index carries what the repository has.    *)
CarriesStored ==
  \A h \in Beats :
    At(h, "index") => /\ Present(beat[h].driver)
                      /\ stamp[beat[h].driver].loc = beat[h].fix

NobodyEvicted == silent = {} /\ sweep = [todo |-> {}, at |-> NoDriver]

Mirrored == NobodyEvicted /\ CarriesStored /\ IndexMirrors

LEMMA MirroredInit == Init => Mirrored
BY FleetAssumption DEF Init, Mirrored, NobodyEvicted, CarriesStored, IndexMirrors, At, Unborn,
   Present, Store!Init, Dir!Init

(* Neither store tells a step of the protocol on a driver's status.        *)
LEMMA MirroredFrame ==
  ASSUME Mirrored, UNCHANGED <<index, silent, sweep>>,
         \A d \in Drivers : (Present(d)' <=> Present(d)) /\ stamp'[d].loc = stamp[d].loc,
         \A h \in Beats : /\ At(h, "index")' <=> At(h, "index")
                          /\ At(h, "index") => /\ beat'[h].driver = beat[h].driver
                                               /\ beat'[h].fix = beat[h].fix
                                               /\ beat[h].driver \in Drivers
  PROVE  Mirrored'
<1>1. NobodyEvicted'
  BY DEF Mirrored, NobodyEvicted
<1>2. CarriesStored'
  BY DEF Mirrored, CarriesStored
<1>3. \A d \in Drivers : Settled(d)' <=> Settled(d)
  BY DEF Settled
<1>4. IndexMirrors'
  BY <1>3 DEF Mirrored, IndexMirrors
<1>5. QED
  BY <1>1, <1>2, <1>4 DEF Mirrored

LEMMA MirroredUpsert ==
  ASSUME Types, Types', OneAtATime, Mirrored, NEW h \in Beats, Upsert(h)
  PROVE  Mirrored'
<1>0. PICK d \in Drivers : d = beat[h].driver
  BY UpsertStep
<1>1. /\ d \in Drivers /\ beat[h].pc = "upsert"
      /\ \A g \in Beats \ {h} : beat'[g] = beat[g]
      /\ UNCHANGED <<index, sweep>>
  BY <1>0, UpsertFrame, UpsertStep
<1>2. \A g \in Beats \ {h} : At(g, "index") => beat[g].driver \in Drivers \ {d}
  BY <1>0, <1>1 DEF OneAtATime, At, Types, BeatsTyped
<1>3. CASE Late(d, beat[h].now)
  <2>1. UNCHANGED <<drivers, stamp, silent>> /\ beat' = [beat EXCEPT ![h] = Unborn]
    BY <1>0, <1>3, UpsertStep
  <2>2. beat'[h].pc = "none"
    BY <2>1 DEF Types, TypeOK, Unborn
  <2>3. \A g \in Beats : At(g, "index")' <=> At(g, "index")
    BY <1>0, <1>1, <2>2 DEF At
  <2>4. QED
    BY <1>0, <1>1, <1>2, <2>1, <2>2, <2>3, MirroredFrame DEF Present, At
<1>4. CASE ~Late(d, beat[h].now)
  <2>1. /\ stamp'[d].loc = beat[h].fix /\ Present(d)'
        /\ \A e \in Drivers \ {d} : drivers'[e] = drivers[e] /\ stamp'[e] = stamp[e]
    <3>1. /\ stamp'[d].loc = beat[h].fix /\ drivers'[d] # Store!Absent
          /\ \A e \in Drivers \ {d} : drivers'[e] = drivers[e] /\ stamp'[e] = stamp[e]
      BY <1>0, <1>4, UpsertWrites
    <3>2. Present(d)' <=> drivers'[d] # Store!Absent
      BY <1>0, <1>1 DEF Present
    <3>3. QED
      BY <3>1, <3>2
  <2>2. silent' = {}
    BY <1>0, <1>4, UpsertStep DEF Mirrored, NobodyEvicted
  <2>3. beat'[h].pc = "index" /\ beat'[h].driver = d /\ beat'[h].fix = beat[h].fix
    <3>1. beat' = [beat EXCEPT ![h] =
            [pc |-> "index", driver |-> d, fix |-> beat[h].fix,
             now |-> beat[h].now, copy |-> beat[h].copy]]
      BY <1>0, <1>4, UpsertStep
    <3>2. QED
      BY <3>1 DEF Types, TypeOK
  <2>4. CarriesStored'
    <3>1. ASSUME NEW g \in Beats, At(g, "index")'
          PROVE  /\ Present(beat[g].driver)'
                 /\ stamp'[beat'[g].driver].loc = beat'[g].fix
      <4>1. CASE g = h
        BY <1>0, <2>1, <2>3, <4>1 DEF Present
      <4>2. CASE g # h
        BY <1>0, <1>1, <1>2, <2>1, <3>1, <4>2 DEF Mirrored, CarriesStored, At, Present
      <4>3. QED
        BY <4>1, <4>2
    <3>2. QED
      BY <3>1 DEF CarriesStored
  <2>5. IndexMirrors'
    <3>1. ~Settled(d)'
      BY <1>0, <2>3 DEF Settled, At
    <3>2. \A e \in Drivers \ {d} : Settled(e)' => Settled(e)
      BY <1>0, <1>1 DEF Settled, At
    <3>3. \A e \in Drivers \ {d} : Present(e)' <=> Present(e)
      BY <2>1 DEF Present
    <3>4. ASSUME NEW e \in Drivers, Settled(e)'
          PROVE  IF Present(e)' THEN index'[e] # Nothing /\ index'[e].loc = stamp'[e].loc
                                ELSE index'[e] = Nothing
      <4>1. e # d
        BY <1>0, <3>1, <3>4
      <4>2. IF Present(e) THEN index[e] # Nothing /\ index[e].loc = stamp[e].loc
                          ELSE index[e] = Nothing
        BY <3>2, <3>4, <4>1 DEF Mirrored, IndexMirrors
      <4>3. QED
        BY <1>0, <1>1, <2>1, <3>3, <4>1, <4>2
    <3>5. QED
      BY <3>4 DEF IndexMirrors
  <2>6. QED
    BY <1>0, <1>1, <2>2, <2>4, <2>5 DEF Mirrored, NobodyEvicted
<1>5. QED
  BY <1>0, <1>3, <1>4

LEMMA MirroredMirror ==
  ASSUME Types, OneAtATime, Mirrored, NEW h \in Beats, Mirror(h)
  PROVE  Mirrored'
<1> DEFINE d == beat[h].driver
           s == [status |-> beat[h].copy.status, loc |-> beat[h].fix]
<1>1. /\ beat[h].pc = "index" /\ d \in Drivers
      /\ index' = [index EXCEPT ![d] = s]
      /\ beat' = [beat EXCEPT ![h] = Unborn]
      /\ UNCHANGED <<drivers, stamp, silent, sweep>>
  BY DEF Mirror, At, Dir!Update, Types, BeatsTyped
<1>2. /\ beat'[h].pc = "none" /\ \A g \in Beats \ {h} : beat'[g] = beat[g]
      /\ index'[d] = s /\ \A e \in Drivers \ {d} : index'[e] = index[e]
  BY <1>1 DEF Types, TypeOK, Unborn
<1>3. s \in Snapshot
  <2>1. /\ beat[h] \in Locals /\ beat[h].fix \in Fix
        /\ beat[h].copy.status # "absent"
    BY <1>1, LocalsTyped DEF Types, BeatsTyped
  <2>2. QED
    BY <2>1 DEF Snapshot, Locals, Store!Entry, Store!DriverStatus
<1>4. CarriesStored'
  BY <1>1, <1>2 DEF Mirrored, CarriesStored, At, Present
<1>5. IndexMirrors'
  <2>1. index'[d] # Nothing /\ index'[d].loc = stamp[d].loc /\ Present(d)
    BY <1>1, <1>2, <1>3, FleetAssumption DEF Mirrored, CarriesStored, At
  <2>2. \A e \in Drivers \ {d} : Settled(e)' => Settled(e)
    BY <1>1, <1>2 DEF Settled, At
  <2>3. QED
    BY <1>1, <1>2, <2>1, <2>2 DEF Mirrored, IndexMirrors, Present
<1>6. QED
  BY <1>1, <1>4, <1>5 DEF Mirrored, NobodyEvicted

LEMMA MirroredNext ==
  ASSUME ~Evicts, Types, Types', OneAtATime, Mirrored, [Next]_vars
  PROVE  Mirrored'
<1>1. \A h \in Beats : At(h, "index") => beat[h].driver \in Drivers
  BY DEF Types, BeatsTyped, At
<1>2. CASE UNCHANGED vars
  BY <1>1, <1>2, MirroredFrame DEF vars, At, Present
<1>3. ASSUME NEW d \in Drivers, Protocol(d)
      PROVE  Mirrored'
  <2>1. /\ Present(d) /\ Present(d)' /\ UNCHANGED <<silent, index, beat, sweep>>
        /\ \A e \in Drivers \ {d} : drivers'[e] = drivers[e]
        /\ stamp' = [stamp EXCEPT ![d].updated = clock']
    BY <1>3, ProtocolStep
  <2>2. \A e \in Drivers : Present(e)' <=> Present(e)
    BY <2>1 DEF Present
  <2>3. \A e \in Drivers : stamp'[e].loc = stamp[e].loc
    BY <2>1 DEF Types, TypeOK
  <2>4. QED
    BY <1>1, <2>1, <2>2, <2>3, MirroredFrame DEF At
<1>4. ASSUME NEW d \in Drivers, Send(d) \/ Respond(d) \/ FallSilent(d) \/ Delete(d)
      PROVE  Mirrored'
  <2>1. Send(d) \/ Respond(d)
    BY <1>4 DEF FallSilent, Delete, Mirrored, NobodyEvicted
  <2>2. CASE Send(d)
    BY <1>1, <2>2, MirroredFrame DEF Send, At, Present
  <2>3. CASE Respond(d)
    <3>1. \A e \in Drivers : Present(e)' <=> Present(e)
      BY <2>3, RespondStep DEF Present
    <3>2. QED
      BY <1>1, <2>3, <3>1, RespondStep, MirroredFrame DEF At
  <2>4. QED
    BY <2>1, <2>2, <2>3
<1>5. ASSUME NEW h \in Beats, Load(h) \/ \E d \in Drivers : Arrive(h, d)
      PROVE  Mirrored'
  <2>1. /\ UNCHANGED <<drivers, stamp, silent, index, sweep>>
        /\ beat[h].pc \in {"none", "get"} /\ beat'[h].pc \in {"get", "upsert"}
        /\ \A g \in Beats \ {h} : beat'[g] = beat[g]
    <3>1. CASE Load(h)
      BY <1>5, <3>1, LoadStep DEF Types, TypeOK
    <3>2. ASSUME NEW d \in Drivers, Arrive(h, d)
          PROVE  /\ UNCHANGED <<drivers, stamp, silent, index, sweep>>
                 /\ beat[h].pc \in {"none", "get"} /\ beat'[h].pc \in {"get", "upsert"}
                 /\ \A g \in Beats \ {h} : beat'[g] = beat[g]
      BY <1>5, <3>2, ArriveStep DEF Types, TypeOK
    <3>3. QED
      BY <1>5, <3>1, <3>2
  <2>2. \A g \in Beats : At(g, "index")' <=> At(g, "index")
    BY <2>1 DEF At
  <2>3. \A g \in Beats : At(g, "index") => g # h
    BY <2>1 DEF At
  <2>4. QED
    BY <1>1, <2>1, <2>2, <2>3, MirroredFrame DEF Present
<1>6. CASE Expired \/ Remove
  <2>1. Expired
    BY <1>6 DEF Remove, Mirrored, NobodyEvicted
  <2>2. UNCHANGED <<drivers, stamp, silent, index, beat, sweep>>
    BY <2>1 DEF Expired, Mirrored, NobodyEvicted
  <2>3. QED
    BY <1>1, <2>2, MirroredFrame DEF At, Present
<1>7. QED
  BY <1>2, <1>3, <1>4, <1>5, <1>6, MirroredUpsert, MirroredMirror DEF Next

(* As long as no driver has two heartbeats under way and nobody is         *)
(* evicted, the index has every settled driver where the repository has    *)
(* it, in whatever order its packets come and whatever the protocol does   *)
(* to its status.  The counterexample of the run ghost needs the eviction. *)
THEOREM IndexMirrorsRepository ==
  ASSUME ~Evicts
  PROVE  Spec /\ []OneAtATime => []IndexMirrors
<1>1. Spec => []Types
  BY InitTypes, NextTypes, PTL DEF Spec
<1>2. Types /\ Types' /\ OneAtATime /\ Mirrored /\ [Next]_vars => Mirrored'
  BY MirroredNext
<1>3. Mirrored => IndexMirrors
  BY DEF Mirrored
<1>4. QED
  BY <1>1, <1>2, <1>3, MirroredInit, PTL DEF Spec
=============================================================================
