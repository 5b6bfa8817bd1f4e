---------------------------- MODULE TokenHandoff ----------------------------
(***************************************************************************)
(* What the daemon promises to whoever changes the runtime token: the      *)
(* connection to the gateway may go on under an old token for a while, but *)
(* only as long as a reload of the token is still owed.  A debt may arise  *)
(* at any time; it is settled only by a reload that picks up the token     *)
(* desired at that moment, so no change of the token is ever forgotten.    *)
(***************************************************************************)
CONSTANTS Tokens,    \* the tokens a gateway may issue
          NoToken    \* "no token": the value after pair clear-token

VARIABLES desired,   \* the token in the state file
          inUse,     \* the token the current connection was opened with
          owed       \* some actor has still to make the loop reload

vars == <<desired, inUse, owed>>

AnyToken == Tokens \cup {NoToken}

Init ==
    /\ desired \in AnyToken
    /\ inUse = NoToken
    /\ owed = TRUE

\* The desired token changes, and the change obliges someone to reload it.
Change ==
    /\ desired' \in AnyToken
    /\ owed' = TRUE
    /\ UNCHANGED inUse

\* A reload is requested although nothing changed.
Owe ==
    /\ owed' = TRUE
    /\ UNCHANGED <<desired, inUse>>

\* The loop reloads; a request made meanwhile may still be outstanding.
Adopt ==
    /\ inUse' = desired
    /\ owed' \in BOOLEAN
    /\ UNCHANGED desired

\* The daemon dies and starts again with nothing loaded.
Restart ==
    /\ inUse' = NoToken
    /\ owed' = TRUE
    /\ UNCHANGED desired

Next == Change \/ Owe \/ Adopt \/ Restart

Spec == Init /\ [][Next]_vars
=============================================================================
