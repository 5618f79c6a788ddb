---------------------------- MODULE ServiceCalls ----------------------------
(***************************************************************************)
(* The callers of the services around the diary and the coordinator: the   *)
(* event bus, the caches and leases, the observability services and the    *)
(* LangChain classes.  Each caller makes one call.                         *)
(***************************************************************************)
EXTENDS Integers, FiniteSetsExt, SequencesExt

CONSTANTS Client, NoClient

ASSUME ClientAssumption == NoClient \notin Client

VARIABLES
  op,     \* the call each client makes
  pc      \* how far it is

callVars == <<op, pc>>

ToPc(c, p) == pc' = [pc EXCEPT ![c] = p] /\ UNCHANGED op
Goes(c, from, to) == pc[c] = from /\ ToPc(c, to)
Starts(c, kind) == pc[c] = "idle" /\ op[c].kind = kind
Ended(c) == pc[c] \in {"done", "threw"}
(* The provider of a StorageManager that is not given one.                 *)
ProviderOf(legacyAdapter) == IF legacyAdapter THEN "bridge" ELSE "memory"
=============================================================================
