------------------------------ MODULE OfferGroups ------------------------------
(***************************************************************************)
(* The offer groups in Redis: internal/offer/redis_offer_group_store.go    *)
(* and internal/offer/lua/accept_offer.lua.  One hash per rider decides    *)
(* which driver wins the rider.                                            *)
(*                                                                         *)
(* Redis runs one command (or one script) at a time, so a command is an    *)
(* atomic operation here and a Go method that issues several commands is   *)
(* several of them.  The created_at field is never read and is left out:   *)
(* the HSET that writes it is folded into the EXPIRE that follows it.      *)
(***************************************************************************)
CONSTANTS
  Drivers,    \* driver IDs
  Riders,     \* rider IDs
  NoDriver    \* an unset winner field

VARIABLE groups   \* "offer_group:" + rider -> the hash at that key

Group == [status: {"missing", "pending", "accepted"},
          winner: Drivers \cup {NoDriver},
          ttl:    BOOLEAN]      \* whether the key has an expiry time

Missing == [status |-> "missing",  winner |-> NoDriver, ttl |-> FALSE]
Pending == [status |-> "pending",  winner |-> NoDriver, ttl |-> FALSE]

TypeOK == groups \in [Riders -> Group]

Init == groups = [r \in Riders |-> Missing]

-----------------------------------------------------------------------------
(* Create: HSETNX of the status field; only the call that created the key  *)
(* goes on to arm its expiry.                                              *)

Exists(r) == groups[r].status # "missing"

SetPending(r) ==
  groups' = IF Exists(r) THEN groups ELSE [groups EXCEPT ![r] = Pending]

(* EXPIRE does nothing to a key that is no longer there.                   *)
Arm(r) ==
  groups' = IF Exists(r) THEN [groups EXCEPT ![r].ttl = TRUE] ELSE groups

(* The script of Accept: what driver d learns, and what it leaves behind.  *)
Verdict_LastWins(r, d) == IF Exists(r) THEN "won" ELSE "expired"

Verdict_NeverWins(r, d) == IF Exists(r) THEN "lost" ELSE "expired"

Verdict(r, d) ==
  CASE ~Exists(r)                     -> "expired"
    [] groups[r].status = "pending"   -> "won"
    [] groups[r].status = "accepted"  ->
         IF groups[r].winner = d THEN "won" ELSE "lost"

Accept(r, d) ==
  groups' = IF Verdict(r, d) = "won"
            THEN [groups EXCEPT ![r].status = "accepted", ![r].winner = d]
            ELSE groups

(* Redis drops a key when its time to live has run out.                    *)
Expire(r) ==
  /\ Exists(r)
  /\ groups[r].ttl
  /\ groups' = [groups EXCEPT ![r] = Missing]
=============================================================================
