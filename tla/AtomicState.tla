----------------------------- MODULE AtomicState -----------------------------
(***************************************************************************)
(* What the state file promises to the calls that update it: an update     *)
(* happens in one step or not at all, it keeps every earlier one, and an   *)
(* update whose call reported success survives even a loss of power.  A    *)
(* platform that is not durable does not keep that promise.                *)
(***************************************************************************)
CONSTANTS Updates   \* the updates that may be asked for

VARIABLES durable,  \* what was reported as done is kept
          value,    \* the updates the file contains
          acked     \* the updates that were reported as done

vars == <<durable, value, acked>>

Init ==
    /\ durable \in BOOLEAN
    /\ value = {}
    /\ acked = {}

\* An update takes effect, before its call returns.
Commit(u) ==
    /\ u \notin value
    /\ value' = value \cup {u}
    /\ UNCHANGED <<durable, acked>>

\* Its call reports success.
Acknowledge(u) ==
    /\ u \in value
    /\ acked' = acked \cup {u}
    /\ UNCHANGED <<durable, value>>

\* Power is lost: what was not reported as done may be undone.
Lose ==
    /\ value' \in SUBSET value
    /\ acked \subseteq value'
    /\ UNCHANGED <<durable, acked>>

\* The platform loses updates, or brings some back that it had lost.
Waver ==
    /\ ~durable
    /\ value' \in SUBSET Updates
    /\ UNCHANGED <<durable, acked>>

Next == (\E u \in Updates : Commit(u) \/ Acknowledge(u)) \/ Lose \/ Waver

Spec == Init /\ [][Next]_vars
=============================================================================
