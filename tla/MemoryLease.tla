---------------------------- MODULE MemoryLease ----------------------------
(***************************************************************************)
(* acquireLock, renewLease and releaseLock of MemoryLockProvider           *)
(* (src/memory/MemoryProviders.ts) and of the bridge to a legacy adapter   *)
(* (src/core/storage/StorageManager.ts), one key.  A client that is        *)
(* refused the lease is done; one that has it may renew it, and releases   *)
(* it, late perhaps.                                                       *)
(***************************************************************************)
EXTENDS ServiceCalls

VARIABLES
  provider,  \* "memory" or "bridge"
  lease,     \* whose token is stored, and whether its time is over
  told       \* what each client knows: it was "refused" or "granted" the
             \* lease, or "lapsed" when the time it was told of is over

leaseVars == <<provider, lease, told>>

NoLease == [token |-> NoClient, over |-> FALSE]

LeaseInit ==
  /\ \E legacyAdapter \in BOOLEAN : provider = ProviderOf(legacyAdapter)
  /\ lease = NoLease
  /\ told = [c \in Client |-> "refused"]

Tell(c, what) == told' = [told EXCEPT ![c] = what]
Mine(c) == [token |-> c, over |-> FALSE]

(* Mutant of OwnToken: any token will do. *)
AnyToken(c) == lease # NoLease

OwnToken(c) == lease.token = c

Acquire(c) ==
  /\ Starts(c, "lease")
  /\ IF provider = "bridge" THEN Tell(c, "granted") /\ UNCHANGED lease
     ELSE IF lease = NoLease \/ lease.over THEN Tell(c, "granted") /\ lease' = Mine(c)
     ELSE Tell(c, "refused") /\ UNCHANGED lease
  /\ ToPc(c, IF told'[c] = "granted" THEN "holding" ELSE "done")
  /\ UNCHANGED provider

(* A lease that is over is renewed, too, if nobody took it meanwhile.  The *)
(* bridge has no renewLease.                                               *)
Renew(c) ==
  /\ pc[c] = "holding" /\ provider = "memory"
  /\ IF OwnToken(c) THEN lease' = Mine(c) /\ Tell(c, "granted")
                    ELSE Tell(c, "refused") /\ UNCHANGED lease
  /\ UNCHANGED <<callVars, provider>>

Release(c) ==
  /\ Goes(c, "holding", "done")
  /\ lease' = IF provider = "memory" /\ OwnToken(c) THEN NoLease ELSE lease
  /\ Tell(c, "refused")
  /\ UNCHANGED provider

Lapse ==
  /\ lease # NoLease /\ ~lease.over
  /\ lease' = [lease EXCEPT !.over = TRUE]
  /\ told' = [told EXCEPT ![lease.token] = "lapsed"]
  /\ UNCHANGED <<callVars, provider>>

LeaseNext == Lapse \/ \E c \in Client : Acquire(c) \/ Renew(c) \/ Release(c)

-----------------------------------------------------------------------------
(* A client that was granted the lease has it alone until its time is over *)
(* or it gives it back, whoever else acquires, renews or releases with an  *)
(* old token.  The bridge grants the lease to everybody                    *)
(* (StorageManager.ts:46-52).                                              *)
LeaseIsExclusive ==
  provider = "memory" =>
    \A c \in Client : told[c] = "granted" => lease = Mine(c)
=============================================================================
