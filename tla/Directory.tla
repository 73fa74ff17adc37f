------------------------------- MODULE Directory -------------------------------
(***************************************************************************)
(* What a spatial index promises (internal/spatial/index.go): for each     *)
(* driver the snapshot it was last given, or nothing.  Who is near a place *)
(* follows from that and from nothing else.                                *)
(***************************************************************************)
CONSTANTS
  Drivers,    \* driver IDs
  Snapshots,  \* what an index keeps of a driver
  Nothing     \* no snapshot

VARIABLE dir  \* driver -> its snapshot

Init == dir = [d \in Drivers |-> Nothing]

Update(d, s) == dir' = [dir EXCEPT ![d] = s]

Remove(d) == dir' = [dir EXCEPT ![d] = Nothing]

Next == \E d \in Drivers : Remove(d) \/ \E s \in Snapshots : Update(d, s)

Spec == Init /\ [][Next]_dir
=============================================================================
