----------------------------- MODULE ClaimProofs -----------------------------
(***************************************************************************)
(* Proofs about "hostd pair claim-invite".  About its claims, for any      *)
(* claims and gateways: success means that the token is in the file and is *)
(* the one the gateway takes, and that a daemon that has stored it does    *)
(* not go on without it (InviteClaim).  About the configuration it loads   *)
(* and saves, for any settings that fit their keys, any number of them at  *)
(* a time, and lists of any length: which source wins, what a save keeps,  *)
(* and that the daemon starts from what was saved (HostConfig).            *)
(***************************************************************************)
EXTENDS InviteClaim, HostConfig, FiniteSetTheorems, SequenceTheorems, TLAPS

(* Claims *)

Idle == Ended \cup {"todo"}

\* One claim of the command is under way at a time.
OneAtATime == \A c, d \in Claims : pc[c] \notin Idle /\ pc[d] \notin Idle => c = d

\* A claim that holds a token is the newest, and the gateway takes what it
\* gave last.
NewestIsValid ==
    /\ \A c \in HasToken : newest = c
    /\ newest \in Claims => /\ pc[newest] \in Ended \/ newest \in HasToken
                            /\ valid[Target[newest]] = newest

\* The stages of a claim whose token has reached the file.
Stored == {"stored", "answered", "bridged", "closing", "done"}

\* From then on everybody who is to write the file back holds that token: the
\* Update of a daemon, the last one of the claim, and the first of the next.
Settled(c) ==
    pc[c] \in Stored /\ newest = c =>
        /\ file = c
        /\ stage \in Updating => copy = c
        /\ pc[c] = "closing" => held = c
        /\ (\E d \in Claims : pc[d] = "ensuring") => held = c

\* A claim stores its token itself only while no daemon runs.
Alone(c) == pc[c] \in {"store", "storing"} => stage = "off"

\* The daemon that has stored the token uses it or will load.
Noticed(c) ==
    c \in via =>
        /\ pc[c] \in Stored \cup {"failed"}
        /\ pc[c] \in Stored \ {"stored"} /\ newest = c /\ stage # "off" =>
              using = c \/ signal \/ stage \in {"load", "loading"}

ClaimInv ==
    /\ ClaimTypeOK
    /\ OneAtATime
    /\ NewestIsValid
    /\ \A c \in Claims \ disturbed : Settled(c) /\ Alone(c) /\ Noticed(c)

-----------------------------------------------------------------------------
LEMMA InitInvariant == Init => ClaimInv
  <1> SUFFICES ASSUME Init PROVE ClaimInv
    OBVIOUS
  <1>1. ClaimTypeOK
    BY DEF Init, ClaimTypeOK, Token, Ended, Updating
  <1>2. OneAtATime /\ NewestIsValid
    BY ClaimAssumption DEF Init, OneAtATime, NewestIsValid, Idle, Ended, HasToken
  <1>3. \A c \in Claims : Settled(c) /\ Alone(c) /\ Noticed(c)
    BY DEF Init, Settled, Alone, Noticed, Stored
  <1> QED
    BY <1>1, <1>2, <1>3 DEF ClaimInv

\* The type of the variables, one action after the other.
LEMMA ClaimType ==
  ASSUME ClaimTypeOK, NEW c \in Claims, ClaimStep(c)
  PROVE  ClaimTypeOK'
  <1> USE DEF ClaimTypeOK, Step, Token, Ended, Updating, hostVars, remoteVars, daemonVars
  <1>n. Target[c] \in Gateways
    BY ClaimAssumption
  <1>1. CASE SaveConfig(c)
    BY <1>1, <1>n DEF SaveConfig
  <1>2. CASE EnsureReads(c) \/ StoreReads(c) \/ FinalReads(c)
    BY <1>2 DEF EnsureReads, StoreReads, FinalReads, Reads
  <1>3. CASE EnsureWrites(c) \/ StoreWrites(c) \/ FinalWrites(c)
    BY <1>3 DEF EnsureWrites, StoreWrites, FinalWrites, Writes
  <1>4. CASE Honoured(c)
    BY <1>4, <1>n DEF Honoured
  <1>5. CASE AsksDaemon(c) \/ FallsBack(c) \/ ReconnectFails(c)
    BY <1>5 DEF AsksDaemon, FallsBack, ReconnectFails, Moves
  <1>6. CASE Fails(c)
    BY <1>6 DEF Fails
  <1>7. CASE GivesUp(c)
    BY <1>7 DEF GivesUp
  <1>8. CASE HandlerSaves(c)
    BY <1>8 DEF HandlerSaves
  <1>9. CASE HandlerSignals(c) \/ AsksReconnect(c)
    BY ZenonT(100), <1>9 DEF HandlerSignals, AsksReconnect
  <1>10. CASE HandlerSavesLate(c)
    BY <1>10 DEF HandlerSavesLate
  <1> QED
    BY <1>1, <1>2, <1>3, <1>4, <1>5, <1>6, <1>7, <1>8, <1>9, <1>10 DEF ClaimStep

LEMMA HostType ==
  ASSUME ClaimTypeOK, DaemonStep \/ Start \/ Stop \/ UNCHANGED vars
  PROVE  ClaimTypeOK'
  <1> USE DEF ClaimTypeOK, Token, Updating, claimVars, hostVars, remoteVars, Elsewhere, Goes
  <1>1. CASE Start
    BY <1>1 DEF Start, HasToken
  <1>2. CASE Stop
    BY <1>2 DEF Stop
  <1>3. CASE LoadReads \/ GreetReads \/ RegretReads
    BY <1>3 DEF LoadReads, GreetReads, RegretReads, UpdateReads
  <1>4. CASE LoadWrites
    BY <1>4 DEF LoadWrites, UpdateWrites
  <1>5. CASE GreetWrites \/ RegretWrites
    BY <1>5 DEF GreetWrites, RegretWrites, UpdateWrites
  <1>6. CASE Accepted \/ Refused \/ Disconnected \/ Retries
    BY <1>6 DEF Accepted, Refused, Disconnected, Retries, Turns
  <1>7. CASE Reconnects
    BY <1>7 DEF Reconnects
  <1>8. CASE UNCHANGED vars
    BY <1>8 DEF vars
  <1> QED
    BY <1>1, <1>2, <1>3, <1>4, <1>5, <1>6, <1>7, <1>8 DEF DaemonStep

-----------------------------------------------------------------------------
(* One claim at a time, and the newest *)

\* What every step of a claim does to the stages: only its own moves.
LEMMA OwnStage ==
  ASSUME ClaimTypeOK, NEW c \in Claims, ClaimStep(c)
  PROVE  /\ \A x \in Claims \ {c} : pc'[x] = pc[x]
         /\ pc' = pc \/ pc[c] \notin Ended
         /\ pc' = pc \/ pc[c] # "todo" \/ \A d \in Claims \ {c} : pc[d] \in Idle
  BY DEF ClaimTypeOK, ClaimStep, Step, Reads, Writes, Moves, SaveConfig, EnsureReads,
         EnsureWrites, Honoured, AsksDaemon, FallsBack, StoreReads, StoreWrites,
         FinalReads, FinalWrites, Fails, GivesUp, HandlerSaves, HandlerSignals,
         HandlerSavesLate, AsksReconnect, ReconnectFails, Ended, Idle

LEMMA ClaimTurns ==
  ASSUME ClaimInv, NEW c \in Claims, ClaimStep(c)
  PROVE  OneAtATime' /\ NewestIsValid'
  <1> USE DEF ClaimInv
  <1>1. OneAtATime'
    BY OwnStage DEF OneAtATime, Idle, ClaimTypeOK
  <1>2. CASE Honoured(c)
    <2>1. /\ pc[c] = "ready" /\ pc' = [pc EXCEPT ![c] = "honoured"]
          /\ newest' = c /\ valid' = [valid EXCEPT ![Target[c]] = c]
      BY <1>2 DEF Honoured, Step
    <2>2. \A x \in Claims \ {c} : x \notin HasToken
      BY <2>1 DEF OneAtATime, HasToken, Idle, Ended
    <2> QED
      BY <1>1, <2>1, <2>2, ClaimAssumption DEF NewestIsValid, HasToken, ClaimTypeOK
  <1>3. CASE ~Honoured(c)
    <2>1. UNCHANGED <<newest, valid>>
      BY <1>3 DEF ClaimStep, Reads, Writes, Moves, SaveConfig, EnsureReads,
         EnsureWrites, AsksDaemon, FallsBack, StoreReads, StoreWrites,
         FinalReads, FinalWrites, Fails, GivesUp, HandlerSaves, HandlerSignals,
         HandlerSavesLate, AsksReconnect, ReconnectFails, remoteVars
    <2>2. /\ c \in HasToken' => c \in HasToken
          /\ c \in HasToken => c \in HasToken' \/ pc'[c] \in Ended
      BY <1>3 DEF ClaimTypeOK, ClaimStep, Step, Reads, Writes, Moves, SaveConfig, EnsureReads,
         EnsureWrites, AsksDaemon, FallsBack, StoreReads, StoreWrites,
         FinalReads, FinalWrites, Fails, GivesUp, HandlerSaves, HandlerSignals,
         HandlerSavesLate, AsksReconnect, ReconnectFails, Ended, HasToken
    <2>3. \A x \in Claims \ {c} : pc'[x] = pc[x]
      BY OwnStage
    <2>4. pc[c] \in Ended => pc'[c] \in Ended
      BY OwnStage
    <2> QED
      BY <1>1, <2>1, <2>2, <2>3, <2>4 DEF NewestIsValid, HasToken
  <1> QED
    BY <1>1, <1>2, <1>3

-----------------------------------------------------------------------------
(* The token of the newest claim *)

Kept(x) == Settled(x) /\ Alone(x) /\ Noticed(x)

\* Its own steps bring a claim's token to the file and keep it there.
LEMMA OwnStep ==
  ASSUME ClaimInv, NEW c \in Claims \ disturbed', ClaimStep(c)
  PROVE  Kept(c)'
  <1> USE DEF ClaimInv, ClaimTypeOK, Kept, Settled, Alone, Noticed, Stored, Step,
              hostVars, remoteVars, daemonVars
  <1>1. disturbed \subseteq disturbed'
    BY DEF ClaimStep, Reads, Writes, Moves, SaveConfig, EnsureReads,
         EnsureWrites, Honoured, AsksDaemon, FallsBack, StoreReads, StoreWrites,
         FinalReads, FinalWrites, Fails, GivesUp, HandlerSaves, HandlerSignals,
         HandlerSavesLate, AsksReconnect, ReconnectFails
  <1>2. Kept(c)
    BY <1>1
  <1>3. \A d \in Claims \ {c} : pc'[d] = pc[d]
    BY OwnStage
  <1>4. pc[c] \in Stored \ {"done"} => \A d \in Claims : pc[d] # "ensuring"
    BY DEF OneAtATime, Idle, Ended
  <1>5. c \in HasToken => newest = c
    BY DEF NewestIsValid
  <1>6. CASE SaveConfig(c) \/ Fails(c) \/ GivesUp(c)
    BY <1>2, <1>6 DEF SaveConfig, Fails, GivesUp, Ended
  <1>7. CASE EnsureReads(c) \/ EnsureWrites(c) \/ Honoured(c)
    BY <1>2, <1>7 DEF EnsureReads, EnsureWrites, Honoured, Reads, Writes
  <1>8. CASE AsksDaemon(c) \/ FallsBack(c)
    BY <1>2, <1>8 DEF AsksDaemon, FallsBack, Moves
  <1>9. CASE StoreReads(c)
    BY <1>2, <1>9 DEF StoreReads, Reads
  <1>10. CASE StoreWrites(c)
    <2>1. stage = "off" /\ "off" \notin Updating
      BY <1>2, <1>10 DEF StoreWrites, Writes, Updating
    <2>2. \A d \in Claims : pc[d] # "ensuring"
      BY <1>10 DEF StoreWrites, Writes, OneAtATime, Idle, Ended
    <2> QED
      BY <1>2, <1>3, <1>10, <2>1, <2>2 DEF StoreWrites, Writes
  <1>11. CASE FinalReads(c)
    BY <1>2, <1>3, <1>4, <1>11 DEF FinalReads, Reads
  <1>12. CASE FinalWrites(c)
    BY <1>2, <1>3, <1>4, <1>12 DEF FinalWrites, Writes
  <1>13. CASE HandlerSaves(c)
    <2>1. \A d \in Claims : pc[d] # "ensuring"
      BY <1>13 DEF HandlerSaves, OneAtATime, Idle, Ended
    <2> QED
      BY <1>2, <1>3, <1>13, <2>1 DEF HandlerSaves
  <1>14. CASE HandlerSignals(c) \/ AsksReconnect(c)
    BY <1>2, <1>3, <1>4, <1>14 DEF HandlerSignals, AsksReconnect
  <1>15. CASE ReconnectFails(c)
    BY <1>2, <1>3, <1>4, <1>15 DEF ReconnectFails, Moves
  <1>16. CASE HandlerSavesLate(c)
    BY <1>2, <1>16 DEF HandlerSavesLate
  <1> QED
    BY <1>6, <1>7, <1>8, <1>9, <1>10, <1>11, <1>12, <1>13, <1>14, <1>15, <1>16 DEF ClaimStep

\* Another claim either is not the newest and writes back what it has read, or
\* makes itself the newest.
LEMMA OtherStep ==
  ASSUME ClaimInv, NEW c \in Claims, ClaimStep(c), NEW x \in Claims \ disturbed', x # c
  PROVE  Kept(x)'
  <1> USE DEF ClaimInv, ClaimTypeOK, Kept, Settled, Alone, Noticed, Step,
              hostVars, remoteVars, daemonVars
  <1>1. disturbed \subseteq disturbed'
    BY DEF ClaimStep, Reads, Writes, Moves, SaveConfig, EnsureReads,
         EnsureWrites, Honoured, AsksDaemon, FallsBack, StoreReads, StoreWrites,
         FinalReads, FinalWrites, Fails, GivesUp, HandlerSaves, HandlerSignals,
         HandlerSavesLate, AsksReconnect, ReconnectFails
  <1>2. Kept(x) /\ pc'[x] = pc[x]
    BY <1>1, OwnStage
  <1>3. UNCHANGED stage
    BY DEF ClaimStep, Reads, Writes, Moves, SaveConfig, EnsureReads,
         EnsureWrites, Honoured, AsksDaemon, FallsBack, StoreReads, StoreWrites,
         FinalReads, FinalWrites, Fails, GivesUp, HandlerSaves, HandlerSignals,
         HandlerSavesLate, AsksReconnect, ReconnectFails
  <1>4. c \in HasToken => newest = c
    BY DEF NewestIsValid
  <1>5. \A d \in Claims \ {c} : pc'[d] = pc[d]
    BY OwnStage
  <1>6. CASE SaveConfig(c) \/ GivesUp(c) \/ AsksDaemon(c) \/ FallsBack(c) \/ ReconnectFails(c)
    BY <1>2, <1>5, <1>6 DEF SaveConfig, GivesUp, AsksDaemon, FallsBack, ReconnectFails, Moves
  <1>7. CASE EnsureReads(c)
    <2>1. pc[x] # "closing"
      BY <1>7 DEF EnsureReads, Reads, OneAtATime, Idle, Ended
    <2> QED
      BY <1>2, <1>5, <1>7, <2>1 DEF EnsureReads, Reads
  <1>8. CASE EnsureWrites(c)
    <2>1. pc[x] # "closing" /\ \A d \in Claims \ {c} : pc[d] # "ensuring"
      BY <1>8 DEF EnsureWrites, Writes, OneAtATime, Idle, Ended
    <2>2. pc'[c] = "ready" /\ file' = held /\ pc[c] = "ensuring"
      BY <1>8 DEF EnsureWrites, Writes
    <2>3. UNCHANGED <<newest, stage, copy, via, using, signal>>
      BY <1>8 DEF EnsureWrites, Writes
    <2>4. \A d \in Claims : pc'[d] # "ensuring"
      BY <1>5, <2>1, <2>2
    <2> QED
      BY <1>2, <2>1, <2>2, <2>3, <2>4
  <1>9. CASE Honoured(c)
    BY <1>2, <1>5, <1>9 DEF Honoured
  <1>10. CASE Fails(c)
    <2>1. pc[c] # "done" /\ pc'[c] = "failed" /\ pc[c] \notin Idle
      BY <1>10 DEF Fails, Idle, Ended
    <2>2. pc[x] # "closing" /\ \A d \in Claims : pc'[d] # "ensuring"
      BY <1>5, <2>1 DEF OneAtATime, Idle, Ended
    <2> QED
      BY <1>2, <2>2, <1>10 DEF Fails
  <1>11. CASE \/ StoreReads(c) \/ StoreWrites(c) \/ FinalReads(c) \/ FinalWrites(c)
              \/ HandlerSaves(c) \/ HandlerSignals(c) \/ AsksReconnect(c)
    <2>1. c \in HasToken /\ newest' = newest
      BY <1>11 DEF StoreReads, StoreWrites, FinalReads, FinalWrites, HandlerSaves,
                   HandlerSignals, AsksReconnect, Reads, Writes, HasToken
    <2>2. newest' # x
      BY <1>4, <2>1
    <2>3. x \in via' => x \in via
      BY <1>11 DEF StoreReads, StoreWrites, FinalReads, FinalWrites, HandlerSaves,
                   HandlerSignals, AsksReconnect, Reads, Writes
    <2> QED
      BY <1>2, <1>3, <2>2, <2>3
  <1>12. CASE HandlerSavesLate(c)
    BY <1>2, <1>12 DEF HandlerSavesLate, Stored
  <1> QED
    BY <1>6, <1>7, <1>8, <1>9, <1>10, <1>11, <1>12 DEF ClaimStep

\* The daemon: its Updates write back the token they have read, a start beside
\* a claim is in the history, and a signal is followed by a load.
LEMMA HostStep ==
  ASSUME ClaimInv, DaemonStep \/ Start \/ Stop \/ UNCHANGED vars,
         NEW x \in Claims \ disturbed'
  PROVE  Kept(x)'
  <1> USE DEF ClaimInv, ClaimTypeOK, Kept, Settled, Alone, Noticed, Updating, Stored,
              claimVars, hostVars, remoteVars, Elsewhere, Goes
  <1>1. disturbed \subseteq disturbed' /\ UNCHANGED <<pc, held, via, newest>>
    BY DEF DaemonStep, Start, Stop, LoadReads, LoadWrites, Accepted, Refused, GreetReads,
           GreetWrites, RegretReads, RegretWrites, Disconnected, Reconnects, Retries,
           UpdateReads, UpdateWrites, Turns, vars
  <1>2. Kept(x)
    BY <1>1
  <1>3. CASE Start
    BY <1>1, <1>2, <1>3 DEF Start, HasToken
  <1>4. CASE Stop
    BY <1>1, <1>2, <1>4 DEF Stop
  <1>5. CASE LoadReads \/ GreetReads \/ RegretReads
    BY <1>1, <1>2, <1>5 DEF LoadReads, GreetReads, RegretReads, UpdateReads
  <1>6. CASE LoadWrites
    BY <1>1, <1>2, <1>6 DEF LoadWrites, UpdateWrites
  <1>7. CASE GreetWrites \/ RegretWrites
    BY <1>1, <1>2, <1>7 DEF GreetWrites, RegretWrites, UpdateWrites
  <1>8. CASE Accepted \/ Refused \/ Disconnected \/ Retries
    BY <1>1, <1>2, <1>8 DEF Accepted, Refused, Disconnected, Retries, Turns
  <1>9. CASE Reconnects
    BY <1>1, <1>2, <1>9 DEF Reconnects
  <1>10. CASE UNCHANGED vars
    BY <1>1, <1>2, <1>10 DEF vars
  <1> QED
    BY <1>3, <1>4, <1>5, <1>6, <1>7, <1>8, <1>9, <1>10 DEF DaemonStep

-----------------------------------------------------------------------------
(* The theorems *)

LEMMA InvariantStep == ClaimInv /\ [Next]_vars => ClaimInv'
  <1> SUFFICES ASSUME ClaimInv, [Next]_vars PROVE ClaimInv'
    OBVIOUS
  <1>1. ASSUME NEW c \in Claims, ClaimStep(c)
        PROVE  ClaimInv'
    <2>1. ClaimTypeOK' /\ OneAtATime' /\ NewestIsValid'
      BY <1>1, ClaimType, ClaimTurns DEF ClaimInv
    <2>2. \A x \in Claims \ disturbed' : Kept(x)'
      BY <1>1, OwnStep, OtherStep
    <2> QED
      BY <2>1, <2>2 DEF ClaimInv, Kept
  <1>2. CASE DaemonStep \/ Start \/ Stop \/ UNCHANGED vars
    <2>1. ClaimTypeOK'
      BY <1>2, HostType DEF ClaimInv
    <2>2. UNCHANGED <<pc, newest, valid>>
      BY <1>2 DEF DaemonStep, Start, Stop, LoadReads, LoadWrites, Accepted, Refused,
           GreetReads, GreetWrites, RegretReads, RegretWrites, Disconnected, Reconnects,
           Retries, UpdateReads, UpdateWrites, Turns, vars, Elsewhere, claimVars, remoteVars
    <2>3. OneAtATime' /\ NewestIsValid'
      BY <2>2 DEF ClaimInv, OneAtATime, NewestIsValid, HasToken
    <2>4. \A x \in Claims \ disturbed' : Kept(x)'
      BY <1>2, HostStep
    <2> QED
      BY <2>1, <2>3, <2>4 DEF ClaimInv, Kept
  <1> QED
    BY <1>1, <1>2 DEF Next

\* The inductive invariant of the claims.
THEOREM ClaimInvariant == Spec => []ClaimInv
  BY InitInvariant, InvariantStep, PTL DEF Spec

\* Every variable keeps its type, for any claims and gateways.
THEOREM ClaimTypeCorrect == Spec => []ClaimTypeOK
  BY ClaimInvariant, PTL DEF ClaimInv

\* A claim that reports success leaves the host with the token the gateway takes.
THEOREM ClaimedTokenIsThere == Spec => []HostCanAuthenticate
  <1>1. ClaimInv => HostCanAuthenticate
    BY DEF ClaimInv, Settled, Stored, NewestIsValid, HostCanAuthenticate
  <1> QED
    BY <1>1, ClaimInvariant, PTL

\* A daemon that has stored a claim's token uses it or has a load of it ahead.
THEOREM ClaimNoticed == Spec => []NoSocketClaimUnnoticed
  <1>1. ClaimInv => NoSocketClaimUnnoticed
    BY DEF ClaimInv, ClaimTypeOK, Noticed, Stored, NoSocketClaimUnnoticed
  <1> QED
    BY <1>1, ClaimInvariant, PTL

-----------------------------------------------------------------------------
(* Lists: what is left of one when items are dropped *)

\* How many positions of at come up to i.
Rank(at, i) == Cardinality({j \in at : j <= i})

\* The position that Pick takes as its n-th.
Nth(at, n) == CHOOSE i \in at : Rank(at, i) = n

\* The positions of at are ranked from 1 to their number, each rank once.
LEMMA Ranking ==
    ASSUME NEW N \in Nat, NEW at \in SUBSET (1 .. N)
    PROVE  /\ IsFiniteSet(at)
           /\ Cardinality(at) \in Nat
           /\ \A i \in at : Rank(at, i) \in 1 .. Cardinality(at)
           /\ \A i, k \in at : i < k => Rank(at, i) < Rank(at, k)
           /\ \A n \in 1 .. Cardinality(at) : \E i \in at : Rank(at, i) = n
<1> DEFINE Upto(i) == {j \in at : j <= i}
<1>0. \A j \in at : j \in Int
  OBVIOUS
<1>1. IsFiniteSet(at) /\ Cardinality(at) \in Nat
  <2>1. IsFiniteSet(1 .. N)
    BY FS_Interval
  <2> QED
    BY <2>1, FS_Subset, FS_CardinalityType
<1>2. \A i \in at : /\ IsFiniteSet(Upto(i))
                    /\ Rank(at, i) \in 1 .. Cardinality(at)
  <2> TAKE i \in at
  <2>1. Upto(i) \in SUBSET at /\ i \in Upto(i)
    OBVIOUS
  <2>2. IsFiniteSet(Upto(i)) /\ Cardinality(Upto(i)) <= Cardinality(at)
    BY <2>1, <1>1, FS_Subset
  <2>3. Cardinality(Upto(i)) \in Nat /\ Cardinality(Upto(i)) # 0
    BY <2>1, <2>2, FS_EmptySet, FS_CardinalityType
  <2> QED
    BY <2>2, <2>3, <1>1 DEF Rank
<1>3. \A i, k \in at : i < k => Rank(at, i) < Rank(at, k)
  <2> SUFFICES ASSUME NEW i \in at, NEW k \in at, i < k
               PROVE  Rank(at, i) < Rank(at, k)
    OBVIOUS
  <2>1. /\ Upto(i) \in SUBSET Upto(k)
        /\ k \in Upto(k) /\ k \notin Upto(i)
    <3>1. i \in Int /\ k \in Int /\ \A j \in at : j \in Int
      BY <1>0
    <3>2. \A j \in at : j <= i => j <= k
      BY <3>1
    <3>3. ~ (k <= i) /\ k <= k
      BY <3>1
    <3> QED
      BY <3>2, <3>3
  <2>2. /\ Cardinality(Upto(i)) <= Cardinality(Upto(k))
        /\ Cardinality(Upto(k)) = Cardinality(Upto(i)) => Upto(k) = Upto(i)
    BY <2>1, <1>2, FS_Subset
  <2> QED
    BY <2>1, <2>2, <1>1, <1>2 DEF Rank
<1>4. \A n \in 1 .. Cardinality(at) : \E i \in at : Rank(at, i) = n
  <2> DEFINE ranks == 1 .. Cardinality(at)
             rank == [i \in at |-> Rank(at, i)]
  <2>1. IsFiniteSet(ranks) /\ Cardinality(ranks) = Cardinality(at)
    BY <1>1, FS_Interval
  <2>2. rank \in Injection(at, ranks)
    <3>1. rank \in [at -> ranks]
      BY <1>2
    <3>2. \A i, k \in at : rank[i] = rank[k] => i = k
      <4> SUFFICES ASSUME NEW i \in at, NEW k \in at, i # k
                   PROVE  Rank(at, i) # Rank(at, k)
        OBVIOUS
      <4>1. i < k \/ k < i
        BY <1>0
      <4>2. Rank(at, i) \in Int /\ Rank(at, k) \in Int
        <5>1. Cardinality(at) \in Int
          BY <1>1
        <5>2. Rank(at, i) \in 1 .. Cardinality(at) /\ Rank(at, k) \in 1 .. Cardinality(at)
          BY <1>2
        <5> QED
          BY <5>1, <5>2
      <4>3. Rank(at, i) < Rank(at, k) \/ Rank(at, k) < Rank(at, i)
        BY <4>1, <1>3
      <4> QED
        BY <4>2, <4>3
    <3> QED
      BY <3>1, <3>2 DEF Injection, IsInjective
  <2>3. rank \in Surjection(at, ranks)
    BY <2>1, <2>2, FS_Injection
  <2> QED
    BY <2>3 DEF Surjection
<1> QED
  BY <1>1, <1>2, <1>3, <1>4

\* What Pick returns: the items at these positions, each once; all of the list
\* if they are all its positions.
LEMMA Picking ==
    ASSUME NEW list, IsList(list), NEW at \in SUBSET DOMAIN list
    PROVE  /\ IsList(Pick(list, at))
           /\ DOMAIN Pick(list, at) = 1 .. Cardinality(at)
           /\ \A n \in DOMAIN Pick(list, at) :
                  Nth(at, n) \in at /\ Pick(list, at)[n] = list[Nth(at, n)]
           /\ \A m, n \in DOMAIN Pick(list, at) : Nth(at, m) = Nth(at, n) => m = n
           /\ ToSet(Pick(list, at)) = {list[i] : i \in at}
           /\ at = DOMAIN list => Pick(list, at) = list
<1> DEFINE picked == Pick(list, at)
           size == Cardinality(at)
<1>1. /\ Len(list) \in Nat
      /\ DOMAIN list = 1 .. Len(list)
      /\ list \in [1 .. Len(list) -> ToSet(list)]
  BY LenProperties DEF IsList
<1>2. /\ size \in Nat
      /\ \A i \in at : Rank(at, i) \in 1 .. size
      /\ \A i, k \in at : i < k => Rank(at, i) < Rank(at, k)
      /\ \A n \in 1 .. size : \E i \in at : Rank(at, i) = n
  BY <1>1, Ranking
<1>3. \A n \in 1 .. size : Nth(at, n) \in at /\ Rank(at, Nth(at, n)) = n
  BY <1>2 DEF Nth
<1>4. \A i \in at : Nth(at, Rank(at, i)) = i
  <2> TAKE i \in at
  <2> DEFINE k == Nth(at, Rank(at, i))
  <2>1. k \in at /\ Rank(at, k) = Rank(at, i)
    BY <1>2, <1>3
  <2>2. i \in Int /\ k \in Int
    BY <1>1, <2>1
  <2>3. Rank(at, i) \in Int
    BY <1>2
  <2> HIDE DEF k
  <2>4. ~ (i < k) /\ ~ (k < i)
    <3>1. i < k => Rank(at, i) < Rank(at, k)
      BY <1>2, <2>1
    <3>2. k < i => Rank(at, k) < Rank(at, i)
      BY <1>2, <2>1
    <3> QED
      BY <3>1, <3>2, <2>1, <2>3
  <2>5. k = i
    BY <2>2, <2>4
  <2> QED
    BY <2>5 DEF k
<1>5. picked = [n \in 1 .. size |-> list[Nth(at, n)]]
  BY DEF Pick, Nth, Rank
<1> HIDE DEF picked, size
<1>6. ToSet(picked) = {list[i] : i \in at}
  <2>1. \A n \in 1 .. size : list[Nth(at, n)] \in {list[i] : i \in at}
    BY <1>3
  <2>2. \A i \in at : list[i] \in {list[Nth(at, n)] : n \in 1 .. size}
    BY <1>2, <1>4
  <2>3. ToSet(picked) = {list[Nth(at, n)] : n \in 1 .. size}
    BY <1>5 DEF ToSet
  <2> QED
    BY <2>1, <2>2, <2>3
<1>7. IsList(picked)
  <2>1. \A n \in 1 .. size : picked[n] \in ToSet(picked)
    BY <1>5 DEF ToSet
  <2>2. picked \in [1 .. size -> ToSet(picked)]
    BY <1>5, <2>1
  <2> QED
    BY <2>2, <1>2, SeqDef DEF IsList
<1>8. at = DOMAIN list => picked = list
  <2> HAVE at = DOMAIN list
  <2>1. \A i \in at : Rank(at, i) = i
    <3> TAKE i \in at
    <3>1. {j \in at : j <= i} = 1 .. i
      BY <1>1
    <3>2. i \in Int /\ 1 <= i
      BY <1>1
    <3>3. Cardinality(1 .. i) = IF 1 > i THEN 0 ELSE i - 1 + 1
      BY <3>2, FS_Interval
    <3>4. Cardinality(1 .. i) = i
      BY <3>2, <3>3
    <3> QED
      BY <3>1, <3>4 DEF Rank
  <2>2. size = Len(list)
    <3>1. Cardinality(1 .. Len(list)) = IF 1 > Len(list) THEN 0 ELSE Len(list) - 1 + 1
      BY SMTT(60), <1>1, FS_Interval
    <3> QED
      BY <3>1, <1>1 DEF size
  <2>3. \A n \in 1 .. size : Nth(at, n) = n
    BY <2>1, <2>2, <1>1, <1>4
  <2>4. \A n \in 1 .. size : list[Nth(at, n)] = list[n]
    BY <2>3
  <2> QED
    BY <2>2, <2>4, <1>1, <1>5
<1> QED
  BY <1>3, <1>5, <1>6, <1>7, <1>8 DEF picked, size

\* No item of the list is blank, or would change if it were trimmed.
TrimmedItems(list) == \A i \in DOMAIN list : Trim(list[i]) = list[i] /\ list[i] # ""

LEMMA TrimTwice == \A text : Trim(Trim(text)) = Trim(text)
BY DEF Trim, Blank

LEMMA TrimmedList ==
    ASSUME NEW list, IsList(list)
    PROVE  /\ IsList(Trimmed(list))
           /\ DOMAIN Trimmed(list) = DOMAIN list
           /\ \A i \in DOMAIN list : Trimmed(list)[i] = Trim(list[i])
<1>1. Len(list) \in Nat /\ DOMAIN list = 1 .. Len(list)
  BY LenProperties DEF IsList
<1>2. Trimmed(list) \in [1 .. Len(list) -> ToSet(Trimmed(list))]
  BY <1>1 DEF Trimmed, ToSet
<1> QED
  BY <1>1, <1>2, SeqDef DEF IsList, Trimmed

\* What is left when blank items are dropped: a list of trimmed items, and the
\* list itself if it was one.
LEMMA NonBlankItems ==
    ASSUME NEW list, IsList(list)
    PROVE  /\ IsList(NonBlank(list))
           /\ TrimmedItems(NonBlank(list))
           /\ TrimmedItems(list) => NonBlank(list) = list
<1> DEFINE items == Trimmed(list)
           at == {i \in DOMAIN items : items[i] # ""}
<1>1. /\ IsList(items)
      /\ DOMAIN items = DOMAIN list
      /\ \A i \in DOMAIN list : items[i] = Trim(list[i])
  BY TrimmedList
<1>2. NonBlank(list) = Pick(items, at)
  BY DEF NonBlank
<1>3. at \in SUBSET DOMAIN items
  OBVIOUS
<1> HIDE DEF items
<1>4. /\ IsList(Pick(items, at))
      /\ \A n \in DOMAIN Pick(items, at) :
             Nth(at, n) \in at /\ Pick(items, at)[n] = items[Nth(at, n)]
      /\ at = DOMAIN items => Pick(items, at) = items
  BY <1>1, <1>3, Picking
<1>5. TrimmedItems(Pick(items, at))
  <2>1. \A i \in at : Trim(items[i]) = items[i] /\ items[i] # ""
    BY <1>1, TrimTwice
  <2> QED
    BY <1>4, <2>1 DEF TrimmedItems
<1>6. ASSUME TrimmedItems(list)
      PROVE  items = list /\ at = DOMAIN items
  <2>1. \A i \in DOMAIN list : items[i] = list[i] /\ list[i] # ""
    BY <1>1, <1>6 DEF TrimmedItems
  <2>2. items = [i \in DOMAIN list |-> items[i]] /\ list = [i \in DOMAIN list |-> list[i]]
    BY <1>1, LenProperties DEF IsList
  <2> QED
    BY ZenonT(100), <2>1, <2>2, <1>1
<1> QED
  BY <1>2, <1>4, <1>5, <1>6

\* No item of the list is there twice.
Different(list) == \A i, j \in DOMAIN list : i # j => list[i] # list[j]

\* What is left when repeats are dropped as well: a list of the same items, all
\* trimmed and different, and the list itself if it was one.
LEMMA DistinctItems ==
    ASSUME NEW list, IsList(list)
    PROVE  /\ IsList(Distinct(list))
           /\ TrimmedItems(Distinct(list))
           /\ Different(Distinct(list))
           /\ ToSet(Distinct(list)) = ToSet(NonBlank(list))
           /\ TrimmedItems(list) /\ Different(list) => Distinct(list) = list
<1> DEFINE items == NonBlank(list)
           at == {i \in DOMAIN items : \A j \in 1 .. (i - 1) : items[j] # items[i]}
<1>1. IsList(items) /\ TrimmedItems(items) /\ (TrimmedItems(list) => items = list)
  BY NonBlankItems
<1>2. Distinct(list) = Pick(items, at)
  BY DEF Distinct
<1>3. at \in SUBSET DOMAIN items
  OBVIOUS
<1> HIDE DEF items
<1>4. Len(items) \in Nat /\ DOMAIN items = 1 .. Len(items)
  BY <1>1, LenProperties DEF IsList
<1>5. /\ IsList(Pick(items, at))
      /\ \A n \in DOMAIN Pick(items, at) :
             Nth(at, n) \in at /\ Pick(items, at)[n] = items[Nth(at, n)]
      /\ \A m, n \in DOMAIN Pick(items, at) : Nth(at, m) = Nth(at, n) => m = n
      /\ ToSet(Pick(items, at)) = {items[i] : i \in at}
      /\ at = DOMAIN items => Pick(items, at) = items
  BY <1>1, <1>3, Picking
<1>6. TrimmedItems(Pick(items, at))
  BY <1>1, <1>5, <1>3 DEF TrimmedItems
<1>7. Different(Pick(items, at))
  <2>1. \A i, k \in at : i # k => items[i] # items[k]
    <3> SUFFICES ASSUME NEW i \in at, NEW k \in at, i # k
                 PROVE  items[i] # items[k]
      OBVIOUS
    <3>1. i \in 1 .. Len(items) /\ k \in 1 .. Len(items)
      BY <1>4
    <3>2. i \in 1 .. (k - 1) \/ k \in 1 .. (i - 1)
      BY <3>1
    <3> QED
      BY <3>2
  <2> QED
    BY <2>1, <1>5 DEF Different
<1>8. {items[i] : i \in at} = ToSet(items)
  <2>1. ASSUME NEW k \in DOMAIN items
        PROVE  \E i \in at : items[i] = items[k]
    <3> DEFINE same == {i \in DOMAIN items : items[i] = items[k]}
    <3>1. same \in SUBSET (1 .. Len(items))
      BY <1>4
    <3> HIDE DEF same
    <3>2. /\ IsFiniteSet(same) /\ Cardinality(same) \in Nat
          /\ \A i \in same : Rank(same, i) \in 1 .. Cardinality(same)
          /\ \A i, j \in same : i < j => Rank(same, i) < Rank(same, j)
          /\ \A n \in 1 .. Cardinality(same) : \E i \in same : Rank(same, i) = n
      BY <3>1, <1>4, Ranking
    <3>3. 1 \in 1 .. Cardinality(same)
      <4>1. k \in same
        BY DEF same
      <4>2. Rank(same, k) \in 1 .. Cardinality(same)
        BY <4>1, <3>2
      <4> QED
        BY <4>2, <3>2
    <3>4. PICK i \in same : Rank(same, i) = 1
      BY <3>2, <3>3
    <3>5. \A j \in 1 .. (i - 1) : items[j] # items[i]
      <4> SUFFICES ASSUME NEW j \in 1 .. (i - 1), items[j] = items[i]
                   PROVE  FALSE
        OBVIOUS
      <4>1. i \in 1 .. Len(items)
        BY <3>1
      <4>2. j \in DOMAIN items /\ j < i
        BY <4>1, <1>4
      <4>3. j \in same
        BY <4>2 DEF same
      <4>4. Rank(same, j) < 1 /\ Rank(same, j) \in 1 .. Cardinality(same)
        BY <3>2, <3>4, <4>2, <4>3
      <4> QED
        BY <4>4, <3>2
    <3> QED
      BY <3>4, <3>5 DEF same
  <2> QED
    BY <2>1 DEF ToSet
<1>9. Different(items) => at = DOMAIN items
  <2> HAVE Different(items)
  <2> SUFFICES ASSUME NEW i \in DOMAIN items, NEW j \in 1 .. (i - 1)
               PROVE  items[j] # items[i]
    OBVIOUS
  <2>1. j \in DOMAIN items /\ j # i
    BY <1>4
  <2> QED
    BY <2>1 DEF Different
<1> QED
  BY <1>1, <1>2, <1>5, <1>6, <1>7, <1>8, <1>9 DEF items

-----------------------------------------------------------------------------
(* The sources, key by key *)

LEMMA EveryKey ==
    Keys = {"wsURL", "tlsMode", "fingerprint", "displayName", "level", "heartbeat",
            "enabled", "methods", "hints", "command", "root", "download", "timeout"}
BY DEF Keys, TextKeys, HostKeys, UpdateKeys

\* A configuration with a value for each key, and sources with values for some:
\* of the right kind, but for a variable that does not parse.
Fitting(config) ==
    /\ DOMAIN config = Keys
    /\ \A k \in Keys : Fits(k, config[k])

FileSource(source) ==
    /\ DOMAIN source \subseteq Keys
    /\ \A k \in DOMAIN source : Fits(k, source[k])

EnvSource(source) ==
    /\ DOMAIN source \subseteq Keys \ {"hints"}
    /\ \A k \in DOMAIN source : source[k] = Unparsable \/ Fits(k, source[k])

FlagSource(source) ==
    /\ DOMAIN source \subseteq FlagKeys
    /\ \A k \in DOMAIN source : Fits(k, source[k])

\* What result takes from the file source, and what from config.
TextsOfFile(source, config, result) ==
    \A k \in TextKeys :
        result[k] = IF Gives(source, k) /\ source[k] # "" THEN source[k] ELSE config[k]

HeartbeatOfFile(source, config, result) ==
    result.heartbeat = IF Gives(source, "heartbeat") /\ source.heartbeat > 0
                       THEN source.heartbeat ELSE config.heartbeat

EnabledOfFile(source, config, result) ==
    result.enabled = IF HostKeys \cap DOMAIN source = {} THEN config.enabled
                     ELSE IF Gives(source, "enabled") THEN source.enabled ELSE FALSE

ListsOfFile(source, config, result) ==
    \A k \in {"methods", "hints"} :
        result[k] = IF Gives(source, k) /\ source[k] # <<>> THEN source[k] ELSE config[k]

UpdateOfFile(source, config, result) ==
    \A k \in UpdateKeys :
        result[k] = IF ~ (Gives(source, "command") /\ source.command # <<>>)
                    THEN config[k]
                    ELSE IF Gives(source, k) THEN source[k] ELSE Unsaid[k]

FromFileOrElse(source, config, result) ==
    /\ DOMAIN result = Keys
    /\ TextsOfFile(source, config, result)
    /\ HeartbeatOfFile(source, config, result)
    /\ EnabledOfFile(source, config, result)
    /\ ListsOfFile(source, config, result)
    /\ UpdateOfFile(source, config, result)

\* ApplyFile does that, and no more.
LEMMA FromFile ==
    ASSUME NEW source, DOMAIN source \subseteq Keys, NEW config
    PROVE  FromFileOrElse(source, config, ApplyFile(source, config))
<1> DEFINE result == ApplyFile(source, config)
           decided == FileDecides(source)
<1>1. result = [k \in Keys |->
                   IF k \in decided
                   THEN IF Gives(source, k) THEN source[k] ELSE Unsaid[k]
                   ELSE config[k]]
  BY DEF ApplyFile, Override
<1> HIDE DEF result, decided
<1>2. \A k \in TextKeys : k \in decided <=> Gives(source, k) /\ source[k] # ""
  BY DEF decided, FileDecides, TextKeys, UpdateKeys
<1>3. "heartbeat" \in decided <=> Gives(source, "heartbeat") /\ source.heartbeat > 0
  BY DEF decided, FileDecides, TextKeys, UpdateKeys
<1>4. "enabled" \in decided <=> HostKeys \cap DOMAIN source # {}
  BY DEF decided, FileDecides, TextKeys, UpdateKeys
<1>5. \A k \in {"methods", "hints"} :
          k \in decided <=> Gives(source, k) /\ source[k] # <<>>
  BY DEF decided, FileDecides, TextKeys, UpdateKeys
<1>6. \A k \in UpdateKeys :
          k \in decided <=> Gives(source, "command") /\ source.command # <<>>
  BY DEF decided, FileDecides, TextKeys, UpdateKeys
<1>7. TextsOfFile(source, config, result)
  BY <1>1, <1>2 DEF Keys, TextsOfFile
<1>8. HeartbeatOfFile(source, config, result)
  BY <1>1, <1>3 DEF Keys, HeartbeatOfFile
<1>9. EnabledOfFile(source, config, result)
  <2>1. "enabled" \in Keys /\ Unsaid.enabled = FALSE
    BY DEF Keys, HostKeys, Unsaid
  <2> QED
    BY <1>1, <1>4, <2>1 DEF EnabledOfFile
<1>10. ListsOfFile(source, config, result)
  BY <1>1, <1>5 DEF Keys, HostKeys, ListsOfFile
<1>11. UpdateOfFile(source, config, result)
  BY <1>1, <1>6 DEF Keys, HostKeys, UpdateOfFile
<1>12. DOMAIN result = Keys
  BY <1>1
<1> QED
  BY <1>7, <1>8, <1>9, <1>10, <1>11, <1>12 DEF result, FromFileOrElse

\* What the environment gives.
LEMMA FromEnv ==
    ASSUME NEW source, DOMAIN source \subseteq Keys, NEW config
    PROVE  /\ DOMAIN ApplyEnv(source, config) = Keys
           /\ EnvDecides(source) \subseteq DOMAIN source
           /\ \A k \in Keys :
                  ApplyEnv(source, config)[k] =
                      IF k \notin EnvDecides(source) THEN config[k]
                      ELSE IF k \in ListKeys THEN NonBlank(source[k]) ELSE source[k]
<1>1. EnvDecides(source) \subseteq DOMAIN source
  BY DEF EnvDecides
<1> QED
  BY <1>1 DEF ApplyEnv, Override

\* What the flags give.
LEMMA FromFlags ==
    ASSUME NEW source, DOMAIN source \subseteq Keys, NEW config
    PROVE  /\ DOMAIN ApplyOptions(source, config) = Keys
           /\ \A k \in Keys :
                  ApplyOptions(source, config)[k] =
                      IF k \notin DOMAIN source THEN config[k]
                      ELSE IF k \in TextKeys THEN Trim(source[k]) ELSE source[k]
BY DEF ApplyOptions, Override

\* The source that gives nothing is one of any kind.
LEMMA NothingGiven ==
    /\ DOMAIN Nothing = {} /\ EnvDecides(Nothing) = {} /\ EnvParses(Nothing)
    /\ FileSource(Nothing) /\ EnvSource(Nothing) /\ FlagSource(Nothing)
BY DEF Nothing, EnvDecides, EnvParses, FileSource, EnvSource, FlagSource

\* The sources of a configuration, one above the other.
Raw(source, env, options) ==
    ApplyOptions(options, ApplyEnv(env, ApplyFile(source, Default)))

\* A text is trimmed before it falls back to its default, or is compared, so it
\* makes no difference whether it was trimmed already.
LEMMA Trimming ==
    /\ \A text : Trim(Trim(text)) = Trim(text)
    /\ \A text, fallback : OrElse(Trim(text), fallback) = OrElse(text, fallback)
    /\ \A text, fallback : OrElse(Lower(Trim(text)), fallback) = OrElse(Lower(text), fallback)
BY DEF Trim, OrElse, Lower, Blank

LEMMA PinnedMeans ==
    /\ \A config : TLSMode(config) = "pinned" => config.tlsMode = "pinned"
    /\ \A text : Trim(text) = "pinned" => text = "pinned"
BY DEF TLSMode, OrElse, Lower, Trim, Blank

\* Neither the lack of a configuration nor a torn file is taken for a good one.
LEMMA NoMistakeForConfig ==
    /\ \A config : DOMAIN config = Keys => config # NoConfig
    /\ \A source : DOMAIN source \subseteq Keys => source # Torn
<1>1. DOMAIN NoConfig = {} /\ "level" \in Keys
  BY EveryKey DEF NoConfig, Nothing
<1>2. "torn" \in DOMAIN Torn /\ "torn" \notin Keys
  BY EveryKey DEF Torn
<1> QED
  BY <1>1, <1>2

\* All the methods there are: a list that Normalize leaves alone.
LEMMA HostMethodsAre ==
    /\ IsList(HostMethods) /\ HostMethods # <<>>
    /\ TrimmedItems(HostMethods) /\ Different(HostMethods)
    /\ ToSet(HostMethods) = {"stat", "exec", "update"}
<1>1. /\ DOMAIN HostMethods = {1, 2, 3}
      /\ HostMethods[1] = "stat" /\ HostMethods[2] = "exec" /\ HostMethods[3] = "update"
  BY DEF HostMethods
<1>2. ToSet(HostMethods) = {"stat", "exec", "update"}
  BY <1>1 DEF ToSet
<1>3. IsList(HostMethods)
  BY <1>2 DEF IsList, HostMethods
<1>4. HostMethods # <<>>
  BY DEF HostMethods
<1>5. TrimmedItems(HostMethods)
  BY <1>1 DEF TrimmedItems, Trim, Blank
<1>6. Different(HostMethods)
  BY <1>1 DEF Different
<1> QED
  BY <1>2, <1>3, <1>4, <1>5, <1>6

LEMMA EmptyList ==
    /\ IsList(<<>>) /\ TrimmedItems(<<>>) /\ Different(<<>>)
    /\ ToSet(<<>>) = {}
    /\ \A list : IsList(list) /\ ToSet(list) = {} => list = <<>>
<1>1. ToSet(<<>>) = {}
  BY DEF ToSet
<1>2. IsList(<<>>)
  BY EmptySeq DEF IsList
<1>3. ASSUME NEW list, IsList(list), ToSet(list) = {}
      PROVE  list = <<>>
  <2>1. Len(list) \in Nat /\ DOMAIN list = 1 .. Len(list)
    BY <1>3, LenProperties DEF IsList
  <2>2. DOMAIN list = {}
    BY <1>3 DEF ToSet
  <2>3. Len(list) = 0
    BY <2>1, <2>2
  <2> QED
    BY <1>3, <2>3, EmptySeq DEF IsList
<1> QED
  BY <1>1, <1>2, <1>3 DEF TrimmedItems, Different

\* Sources that fit give configurations that fit.
LEMMA DefaultFits == Fitting(Default)
<1>1. /\ Default.heartbeat \in Int /\ Default.timeout \in Int
      /\ Default.enabled \in BOOLEAN /\ Default.download \in BOOLEAN
      /\ Default.methods = HostMethods /\ Default.hints = <<>> /\ Default.command = <<>>
      /\ DOMAIN Default = Keys
  BY EveryKey DEF Default
<1> QED
  BY <1>1, HostMethodsAre, EmptyList DEF Fitting, Fits, ListKeys

LEMMA FileFits ==
    ASSUME NEW source, FileSource(source), NEW config, Fitting(config)
    PROVE  Fitting(ApplyFile(source, config))
<1> DEFINE result == ApplyFile(source, config)
<1>1. DOMAIN result = Keys
  BY DEF ApplyFile, Override
<1>2. \A k \in Keys : \/ result[k] = config[k]
                      \/ k \in DOMAIN source /\ result[k] = source[k]
                      \/ k \in UpdateKeys \cup {"enabled"} /\ result[k] = Unsaid[k]
  BY DEF ApplyFile, Override, FileDecides, Gives, TextKeys, UpdateKeys
<1>3. \A k \in UpdateKeys \cup {"enabled"} : Fits(k, Unsaid[k])
  <2>1. /\ Unsaid.enabled = FALSE /\ Unsaid.command = <<>>
        /\ Unsaid.download = TRUE /\ Unsaid.timeout = 0
    BY DEF Unsaid
  <2>2. /\ Fits("enabled", FALSE) /\ Fits("command", <<>>)
        /\ Fits("download", TRUE) /\ Fits("timeout", 0)
    BY EmptyList DEF Fits, ListKeys
  <2>3. Fits("root", Unsaid.root)
    BY DEF Fits, ListKeys
  <2> QED
    BY <2>1, <2>2, <2>3 DEF UpdateKeys
<1> HIDE DEF result
<1>4. \A k \in Keys : Fits(k, result[k])
  BY <1>2, <1>3 DEF FileSource, Fitting
<1> QED
  BY <1>1, <1>4 DEF Fitting, result

LEMMA EnvFits ==
    ASSUME NEW source, EnvSource(source), EnvParses(source), NEW config, Fitting(config)
    PROVE  Fitting(ApplyEnv(source, config))
<1>1. DOMAIN source \subseteq Keys /\ \A k \in DOMAIN source : Fits(k, source[k])
  BY DEF EnvSource, EnvParses
<1>2. ASSUME NEW k \in Keys PROVE Fits(k, ApplyEnv(source, config)[k])
  <2>1. CASE k \in EnvDecides(source) /\ k \in ListKeys
    <3>1. IsList(source[k]) /\ ApplyEnv(source, config)[k] = NonBlank(source[k])
      BY <2>1, <1>1, FromEnv DEF Fits
    <3>2. IsList(NonBlank(source[k]))
      BY <3>1, NonBlankItems
    <3> QED
      BY <3>1, <3>2, <2>1 DEF Fits, ListKeys
  <2>2. CASE k \in EnvDecides(source) /\ k \notin ListKeys
    BY <2>2, <1>1, FromEnv
  <2>3. CASE k \notin EnvDecides(source)
    BY <2>3, <1>1, FromEnv DEF Fitting
  <2> QED
    BY <2>1, <2>2, <2>3
<1> QED
  BY <1>1, <1>2, FromEnv DEF Fitting

LEMMA FlagsFit ==
    ASSUME NEW source, FlagSource(source), NEW config, Fitting(config)
    PROVE  Fitting(ApplyOptions(source, config))
<1>1. DOMAIN source \subseteq Keys /\ \A k \in DOMAIN source : Fits(k, source[k])
  BY DEF FlagSource, FlagKeys, Keys, HostKeys
<1>2. \A k \in TextKeys : \A value : Fits(k, value)
  BY DEF TextKeys, Fits, ListKeys
<1>3. \A k \in Keys : Fits(k, ApplyOptions(source, config)[k])
  BY <1>1, <1>2, FromFlags DEF Fitting
<1> QED
  BY <1>1, <1>3, FromFlags DEF Fitting

\* The sources give values of the right kind, before anything is normalised.
LEMMA RawFits ==
    ASSUME NEW source, FileSource(source), NEW env, EnvSource(env), EnvParses(env),
           NEW options, FlagSource(options)
    PROVE  Fitting(Raw(source, env, options))
BY DefaultFits, FileFits, EnvFits, FlagsFit DEF Raw

\* The value of each key: a flag, a variable that decides, or else the file.
LEMMA RawFrom ==
    ASSUME NEW source, FileSource(source), NEW env, EnvSource(env),
           NEW options, FlagSource(options)
    PROVE  \A k \in Keys :
               Raw(source, env, options)[k] =
                   IF k \in DOMAIN options
                   THEN IF k \in TextKeys THEN Trim(options[k]) ELSE options[k]
                   ELSE IF k \in EnvDecides(env)
                   THEN IF k \in ListKeys THEN NonBlank(env[k]) ELSE env[k]
                   ELSE ApplyFile(source, Default)[k]
<1> DEFINE lowest == ApplyFile(source, Default)
           middle == ApplyEnv(env, lowest)
<1>1. DOMAIN env \subseteq Keys /\ DOMAIN options \subseteq Keys
  BY DEF EnvSource, FlagSource, FlagKeys, Keys, HostKeys
<1> HIDE DEF lowest
<1>2. \A k \in Keys :
          middle[k] = IF k \notin EnvDecides(env) THEN lowest[k]
                      ELSE IF k \in ListKeys THEN NonBlank(env[k]) ELSE env[k]
  BY <1>1, FromEnv
<1> HIDE DEF middle
<1>3. \A k \in Keys :
          ApplyOptions(options, middle)[k] =
              IF k \notin DOMAIN options THEN middle[k]
              ELSE IF k \in TextKeys THEN Trim(options[k]) ELSE options[k]
  BY <1>1, FromFlags
<1>4. Raw(source, env, options) = ApplyOptions(options, middle)
  BY DEF Raw, middle, lowest
<1> QED
  BY <1>2, <1>3, <1>4 DEF lowest

\* A configuration as Normalize leaves it.
Normal(config) ==
    /\ Fitting(config)
    /\ config.tlsMode \in {"off", "system", "pinned"}
    /\ Trim(config.displayName) = config.displayName /\ config.displayName # ""
    /\ Trim(config.level) = config.level /\ config.level # ""
    /\ Lower(config.level) = config.level
    /\ config.heartbeat > 0
    /\ config.enabled =>
           /\ config.methods # <<>>
           /\ TrimmedItems(config.methods) /\ Different(config.methods)
           /\ ToSet(config.methods) \subseteq ToSet(HostMethods)
           /\ TrimmedItems(config.hints) /\ Different(config.hints)
           /\ TrimmedItems(config.command)
    /\ ~config.enabled =>
           config.methods = <<>> /\ config.hints = <<>> /\ config.command = <<>>
    /\ config.command = <<>> =>
           config.root = "" /\ config.download = FALSE /\ config.timeout = 0
    /\ config.command # <<>> =>
           Trim(config.root) = config.root /\ config.root # "" /\ config.timeout > 0

\* Methods that are normalised are all of them, or some without repeats.
LEMMA NormalisedMethods ==
    ASSUME NEW list, IsList(list)
    PROVE  /\ IsList(NormalMethods(list))
           /\ TrimmedItems(NormalMethods(list)) /\ Different(NormalMethods(list))
BY HostMethodsAre, DistinctItems DEF NormalMethods

\* Methods out of the environment, once they are normalised.
LEMMA MethodsOfEnv ==
    ASSUME NEW list, IsList(list), ToSet(NonBlank(list)) \subseteq ToSet(HostMethods)
    PROVE  /\ NormalMethods(NonBlank(list)) # <<>>
           /\ ToSet(NormalMethods(NonBlank(list))) \subseteq ToSet(HostMethods)
<1> DEFINE items == NonBlank(list)
<1>1. IsList(items) /\ TrimmedItems(items)
  BY NonBlankItems
<1> HIDE DEF items
<1>2. ToSet(Distinct(items)) = ToSet(items)
  BY <1>1, NonBlankItems, DistinctItems
<1>3. CASE items = <<>>
  BY <1>3, HostMethodsAre DEF NormalMethods, items
<1>4. CASE items # <<>>
  <2>1. ToSet(items) # {}
    BY <1>1, <1>4, EmptyList
  <2>2. Distinct(items) # <<>>
    BY <1>2, <2>1, EmptyList
  <2>3. ToSet(items) \subseteq ToSet(HostMethods)
    BY DEF items
  <2> QED
    BY <1>2, <1>4, <2>2, <2>3 DEF NormalMethods, items
<1> QED
  BY <1>3, <1>4

\* The update of a host, normalised.
UpdateFrom(config, update) ==
    /\ IsList(update.command) /\ TrimmedItems(update.command)
    /\ update.timeout \in Int /\ update.download \in BOOLEAN
    /\ update.command = NonBlank(config.command)
    /\ update.command = <<>> => update = NoUpdate
    /\ update.command # <<>> =>
           /\ Trim(update.root) = update.root /\ update.root # ""
           /\ update.timeout > 0
           /\ update.root = OrElse(config.root, "tmp")
           /\ update.download = config.download
           /\ update.timeout = Positive(config.timeout, 600)

\* NormalUpdate returns such an update.
LEMMA NormalisedUpdate ==
    ASSUME NEW config, IsList(config.command), config.timeout \in Int,
           config.download \in BOOLEAN
    PROVE  UpdateFrom(config, NormalUpdate(config))
<1>1. IsList(NonBlank(config.command)) /\ TrimmedItems(NonBlank(config.command))
  BY NonBlankItems
<1>2. NoUpdate.command = <<>> /\ NoUpdate.timeout \in Int /\ NoUpdate.download \in BOOLEAN
  BY DEF NoUpdate
<1>3. /\ Trim(OrElse(config.root, "tmp")) = OrElse(config.root, "tmp")
      /\ OrElse(config.root, "tmp") # ""
  BY DEF OrElse, Trim, Blank
<1>4. Positive(config.timeout, 600) \in Int /\ Positive(config.timeout, 600) > 0
  BY DEF Positive
<1>5. CASE NonBlank(config.command) = <<>>
  <2> DEFINE update == NormalUpdate(config)
  <2>1. update = NoUpdate
    BY <1>5 DEF NormalUpdate
  <2> HIDE DEF update
  <2>2. update.command = <<>>
    BY <2>1, <1>2
  <2>3. update.command = NonBlank(config.command)
    BY <2>2, <1>5
  <2>4. update.timeout \in Int /\ update.download \in BOOLEAN
    BY <2>1, <1>2
  <2> QED
    BY <2>1, <2>2, <2>3, <2>4, <1>1 DEF update, UpdateFrom
<1>6. CASE NonBlank(config.command) # <<>>
  <2> DEFINE update == NormalUpdate(config)
  <2>1. /\ update.command = NonBlank(config.command)
        /\ update.root = OrElse(config.root, "tmp")
        /\ update.download = config.download
        /\ update.timeout = Positive(config.timeout, 600)
    BY <1>6 DEF NormalUpdate
  <2> HIDE DEF update
  <2>2. update.timeout \in Int /\ update.timeout > 0
    BY <1>4, <2>1
  <2>3. Trim(update.root) = update.root /\ update.root # ""
    BY ZenonT(100), <1>3, <2>1
  <2>4. /\ IsList(update.command) /\ TrimmedItems(update.command)
        /\ update.command # <<>>
    BY <1>1, <1>6, <2>1
  <2> QED
    BY <2>1, <2>2, <2>3, <2>4 DEF update, UpdateFrom
<1> QED
  BY <1>5, <1>6

\* Normalize, key by key.
LEMMA NormalizeFields ==
    ASSUME NEW config
    PROVE  LET normal == Normalize(config)
           IN /\ DOMAIN normal = Keys
              /\ normal.wsURL = config.wsURL
              /\ normal.fingerprint = config.fingerprint
              /\ normal.enabled = config.enabled
              /\ normal.tlsMode = TLSMode(config)
              /\ normal.displayName = OrElse(config.displayName, "hostname")
              /\ normal.level = OrElse(Lower(config.level), "info")
              /\ normal.heartbeat = Positive(config.heartbeat, 20)
              /\ normal.methods = NormalHost(config).methods
              /\ normal.hints = NormalHost(config).hints
              /\ normal.command = NormalHost(config).update.command
              /\ normal.root = NormalHost(config).update.root
              /\ normal.download = NormalHost(config).update.download
              /\ normal.timeout = NormalHost(config).update.timeout
<1> DEFINE host == NormalHost(config)
<1> HIDE DEF host
<1> QED
  BY EveryKey DEF Normalize, host

\* A host that is enabled is normalised; one that is not loses its settings.
LEMMA NormalizeHost ==
    ASSUME NEW config, Fitting(config)
    PROVE  /\ config.enabled \in BOOLEAN
           /\ config.enabled =>
                  /\ NormalHost(config).methods = NormalMethods(config.methods)
                  /\ NormalHost(config).hints = Distinct(config.hints)
                  /\ NormalHost(config).update = NormalUpdate(config)
           /\ ~config.enabled =>
                  /\ NormalHost(config).methods = <<>>
                  /\ NormalHost(config).hints = <<>>
                  /\ NormalHost(config).update = NoUpdate
<1>1. config.enabled \in BOOLEAN
  BY EveryKey DEF Fitting, Fits
<1> QED
  BY <1>1 DEF NormalHost

\* What Normalize returns is normal.
LEMMA Normalised ==
    ASSUME NEW config, Fitting(config), Acceptable(config)
    PROVE  Normal(Normalize(config))
<1> DEFINE normal == Normalize(config)
           host == NormalHost(config)
           update == NormalUpdate(config)
<1>1. /\ IsList(config.methods) /\ IsList(config.hints) /\ IsList(config.command)
      /\ config.heartbeat \in Int /\ config.timeout \in Int
      /\ config.enabled \in BOOLEAN /\ config.download \in BOOLEAN
  BY EveryKey DEF Fitting, Fits, ListKeys
<1>2. /\ DOMAIN normal = Keys
      /\ normal.enabled = config.enabled
      /\ normal.tlsMode = TLSMode(config)
      /\ normal.displayName = OrElse(config.displayName, "hostname")
      /\ normal.level = OrElse(Lower(config.level), "info")
      /\ normal.heartbeat = Positive(config.heartbeat, 20)
      /\ normal.methods = host.methods /\ normal.hints = host.hints
      /\ normal.command = host.update.command /\ normal.root = host.update.root
      /\ normal.download = host.update.download
      /\ normal.timeout = host.update.timeout
  BY NormalizeFields
<1>3. /\ config.enabled =>
             /\ host.methods = NormalMethods(config.methods)
             /\ host.hints = Distinct(config.hints)
             /\ host.update = update
      /\ ~config.enabled =>
             host.methods = <<>> /\ host.hints = <<>> /\ host.update = NoUpdate
  BY NormalizeHost
<1>4. /\ NoUpdate.command = <<>> /\ NoUpdate.root = "" /\ NoUpdate.timeout = 0
      /\ NoUpdate.download = FALSE /\ NoUpdate.download \in BOOLEAN
  BY DEF NoUpdate
<1>5. /\ IsList(update.command) /\ TrimmedItems(update.command)
      /\ update.timeout \in Int /\ update.download \in BOOLEAN
      /\ update.command = <<>> => update = NoUpdate
      /\ update.command # <<>> =>
             /\ Trim(update.root) = update.root /\ update.root # ""
             /\ update.timeout > 0
  <2>1. UpdateFrom(config, update)
    BY <1>1, NormalisedUpdate
  <2> HIDE DEF update
  <2> QED
    BY <2>1 DEF UpdateFrom
<1>6. /\ normal.tlsMode \in {"off", "system", "pinned"}
      /\ Trim(normal.displayName) = normal.displayName /\ normal.displayName # ""
      /\ Trim(normal.level) = normal.level /\ normal.level # ""
      /\ Lower(normal.level) = normal.level
      /\ normal.heartbeat > 0 /\ normal.heartbeat \in Int
  <2> HIDE DEF normal
  <2>1. normal.tlsMode \in {"off", "system", "pinned"}
    BY <1>2 DEF Acceptable
  <2>2. Trim(normal.displayName) = normal.displayName /\ normal.displayName # ""
    BY <1>2 DEF OrElse, Trim, Blank
  <2>3. /\ Trim(normal.level) = normal.level /\ normal.level # ""
        /\ Lower(normal.level) = normal.level
    BY <1>2 DEF OrElse, Trim, Lower, Blank
  <2>4. normal.heartbeat > 0 /\ normal.heartbeat \in Int
    BY <1>1, <1>2 DEF Positive
  <2> QED
    BY <2>1, <2>2, <2>3, <2>4
<1>7. config.enabled =>
          /\ NormalMethods(config.methods) # <<>>
          /\ ToSet(NormalMethods(config.methods)) \subseteq ToSet(HostMethods)
  BY DEF Acceptable
<1>8. /\ IsList(NormalMethods(config.methods)) /\ IsList(Distinct(config.hints))
      /\ TrimmedItems(NormalMethods(config.methods))
      /\ Different(NormalMethods(config.methods))
      /\ TrimmedItems(Distinct(config.hints)) /\ Different(Distinct(config.hints))
  BY <1>1, NormalisedMethods, DistinctItems
<1> HIDE DEF normal, host, update
<1>9. host.update = update \/ host.update = NoUpdate
  BY <1>1, <1>3
<1>10. /\ normal.enabled \in BOOLEAN /\ normal.download \in BOOLEAN
       /\ normal.timeout \in Int
  <2>1. NoUpdate.timeout \in Int
    BY DEF NoUpdate
  <2> QED
    BY <1>1, <1>2, <1>4, <1>5, <1>9, <2>1
<1>11. IsList(normal.methods) /\ IsList(normal.hints) /\ IsList(normal.command)
  <2>1. CASE config.enabled
    BY <1>2, <1>3, <1>5, <1>8, <2>1
  <2>2. CASE ~config.enabled
    BY <1>2, <1>3, <1>4, <2>2, EmptyList
  <2> QED
    BY <2>1, <2>2
<1>12. Fitting(normal)
  <2>1. \A k \in Keys : Fits(k, normal[k])
    BY <1>6, <1>10, <1>11 DEF Fits, ListKeys
  <2> QED
    BY <1>2, <2>1 DEF Fitting
<1>13. normal.enabled =>
           /\ normal.methods # <<>>
           /\ TrimmedItems(normal.methods) /\ Different(normal.methods)
           /\ ToSet(normal.methods) \subseteq ToSet(HostMethods)
           /\ TrimmedItems(normal.hints) /\ Different(normal.hints)
           /\ TrimmedItems(normal.command)
  BY <1>2, <1>3, <1>5, <1>7, <1>8
<1>14. ~normal.enabled =>
           normal.methods = <<>> /\ normal.hints = <<>> /\ normal.command = <<>>
  BY <1>2, <1>3, <1>4
<1>15. /\ normal.command = <<>> =>
              normal.root = "" /\ normal.download = FALSE /\ normal.timeout = 0
       /\ normal.command # <<>> =>
              Trim(normal.root) = normal.root /\ normal.root # "" /\ normal.timeout > 0
  <2>1. CASE host.update = NoUpdate
    BY <1>2, <1>4, <2>1
  <2>2. CASE host.update = update
    BY <1>2, <1>4, <1>5, <2>2
  <2> QED
    BY <1>9, <2>1, <2>2
<1> QED
  BY <1>6, <1>12, <1>13, <1>14, <1>15 DEF Normal, normal

\* The texts, the number and the switch that Normalize leaves as they are.
LEMMA NormalValues ==
    ASSUME NEW config, Normal(config)
    PROVE  /\ TLSMode(config) = config.tlsMode
           /\ OrElse(config.displayName, "hostname") = config.displayName
           /\ OrElse(Lower(config.level), "info") = config.level
           /\ Positive(config.heartbeat, 20) = config.heartbeat
           /\ config.enabled =>
                  /\ NormalMethods(config.methods) = config.methods
                  /\ Distinct(config.hints) = config.hints
                  /\ NonBlank(config.command) = config.command
           /\ config.command # <<>> =>
                  /\ OrElse(config.root, "tmp") = config.root
                  /\ Positive(config.timeout, 600) = config.timeout
<1>1. IsList(config.methods) /\ IsList(config.hints) /\ IsList(config.command)
  BY EveryKey DEF Normal, Fitting, Fits, ListKeys
<1>2. TLSMode(config) = config.tlsMode
  BY DEF Normal, TLSMode, OrElse, Trim, Lower, Blank
<1>3. /\ OrElse(config.displayName, "hostname") = config.displayName
      /\ OrElse(Lower(config.level), "info") = config.level
      /\ Positive(config.heartbeat, 20) = config.heartbeat
  BY DEF Normal, OrElse, Positive
<1>4. config.enabled =>
          /\ NormalMethods(config.methods) = config.methods
          /\ Distinct(config.hints) = config.hints
          /\ NonBlank(config.command) = config.command
  BY <1>1, DistinctItems, NonBlankItems DEF Normal, NormalMethods
<1>5. config.command # <<>> =>
          /\ OrElse(config.root, "tmp") = config.root
          /\ Positive(config.timeout, 600) = config.timeout
  BY DEF Normal, OrElse, Positive
<1> QED
  BY <1>2, <1>3, <1>4, <1>5

\* What Acceptable asks of a configuration depends on three keys.
LEMMA AcceptableWhen ==
    ASSUME NEW config, config.enabled \in BOOLEAN
    PROVE  Acceptable(config) <=>
               /\ TLSMode(config) \in {"off", "system", "pinned"}
               /\ config.enabled =>
                      /\ NormalMethods(config.methods) # <<>>
                      /\ ToSet(NormalMethods(config.methods)) \subseteq ToSet(HostMethods)
BY DEF Acceptable

\* A normal configuration stays as it is.
LEMMA StaysNormal ==
    ASSUME NEW config, Normal(config)
    PROVE  /\ Acceptable(config)
           /\ \A k \in Keys : Normalize(config)[k] = config[k]
<1> DEFINE normal == Normalize(config)
           host == NormalHost(config)
           update == NormalUpdate(config)
<1>1. /\ Fitting(config)
      /\ IsList(config.methods) /\ IsList(config.hints) /\ IsList(config.command)
      /\ config.heartbeat \in Int /\ config.timeout \in Int
      /\ config.enabled \in BOOLEAN /\ config.download \in BOOLEAN
  BY EveryKey DEF Normal, Fitting, Fits, ListKeys
<1>2. /\ normal.wsURL = config.wsURL
      /\ normal.fingerprint = config.fingerprint
      /\ normal.enabled = config.enabled
      /\ normal.tlsMode = TLSMode(config)
      /\ normal.displayName = OrElse(config.displayName, "hostname")
      /\ normal.level = OrElse(Lower(config.level), "info")
      /\ normal.heartbeat = Positive(config.heartbeat, 20)
      /\ normal.methods = host.methods /\ normal.hints = host.hints
      /\ normal.command = host.update.command /\ normal.root = host.update.root
      /\ normal.download = host.update.download
      /\ normal.timeout = host.update.timeout
  BY NormalizeFields
<1>3. /\ config.enabled =>
             /\ host.methods = NormalMethods(config.methods)
             /\ host.hints = Distinct(config.hints)
             /\ host.update = update
      /\ ~config.enabled =>
             host.methods = <<>> /\ host.hints = <<>> /\ host.update = NoUpdate
  BY <1>1, NormalizeHost
<1>4. /\ NoUpdate.command = <<>> /\ NoUpdate.root = "" /\ NoUpdate.timeout = 0
      /\ NoUpdate.download = FALSE
  BY DEF NoUpdate
<1>5. /\ update.command = NonBlank(config.command)
      /\ update.command = <<>> => update = NoUpdate
      /\ update.command # <<>> =>
             /\ update.root = OrElse(config.root, "tmp")
             /\ update.download = config.download
             /\ update.timeout = Positive(config.timeout, 600)
  <2>1. UpdateFrom(config, update)
    BY <1>1, NormalisedUpdate
  <2> HIDE DEF update
  <2> QED
    BY <2>1 DEF UpdateFrom
<1> HIDE DEF normal, host, update
<1>6. /\ TLSMode(config) = config.tlsMode
      /\ OrElse(config.displayName, "hostname") = config.displayName
      /\ OrElse(Lower(config.level), "info") = config.level
      /\ Positive(config.heartbeat, 20) = config.heartbeat
  BY NormalValues
<1>7. /\ normal.displayName = config.displayName
      /\ normal.level = config.level
      /\ normal.heartbeat = config.heartbeat
  BY <1>2, <1>6
<1>8. config.enabled =>
          /\ NormalMethods(config.methods) = config.methods
          /\ Distinct(config.hints) = config.hints
          /\ NonBlank(config.command) = config.command
  BY NormalValues
<1>9. config.command # <<>> =>
          /\ OrElse(config.root, "tmp") = config.root
          /\ Positive(config.timeout, 600) = config.timeout
  BY NormalValues
<1>10. CASE config.enabled
  <2>1. normal.methods = config.methods /\ normal.hints = config.hints
    BY <1>2, <1>3, <1>8, <1>10
  <2>2. normal.command = config.command
    BY <1>2, <1>3, <1>5, <1>8, <1>10
  <2>3. /\ normal.root = config.root /\ normal.download = config.download
        /\ normal.timeout = config.timeout
    <3>1. CASE config.command = <<>>
      <4>1. host.update = NoUpdate
        BY <1>3, <1>5, <1>8, <1>10, <3>1
      <4>2. config.root = "" /\ config.download = FALSE /\ config.timeout = 0
        BY <3>1 DEF Normal
      <4> QED
        BY <1>2, <1>4, <4>1, <4>2
    <3>2. CASE config.command # <<>>
      BY <1>2, <1>3, <1>5, <1>8, <1>9, <1>10, <3>2
    <3> QED
      BY <3>1, <3>2
  <2>4. Acceptable(config)
    BY <1>6, <1>8, <1>10 DEF Acceptable, Normal
  <2> QED
    BY <1>2, <1>6, <1>7, <2>1, <2>2, <2>3, <2>4, EveryKey DEF normal
<1>11. CASE ~config.enabled
  <2>1. /\ normal.methods = config.methods /\ normal.hints = config.hints
        /\ normal.command = config.command /\ normal.root = config.root
        /\ normal.download = config.download /\ normal.timeout = config.timeout
    BY ZenonT(100), <1>2, <1>3, <1>4, <1>11 DEF Normal
  <2>2. Acceptable(config)
    BY <1>6, <1>11 DEF Acceptable, Normal
  <2> QED
    BY <1>2, <1>6, <1>7, <2>1, <2>2, EveryKey DEF normal
<1> QED
  BY <1>1, <1>10, <1>11

\* Load fails, or returns a normal configuration.
LEMMA Loading ==
    ASSUME NEW source, source = Torn \/ FileSource(source),
           NEW env, EnvSource(env), NEW options, FlagSource(options)
    PROVE  LET config == Load(source, env, options)
               raw    == Raw(source, env, options)
           IN /\ config # NoConfig <=>
                     source # Torn /\ EnvParses(env) /\ Acceptable(raw)
              /\ config # NoConfig =>
                     /\ FileSource(source) /\ Fitting(raw)
                     /\ config = Normalize(raw) /\ Normal(config)
<1> DEFINE config == Load(source, env, options)
           raw == Raw(source, env, options)
<1>1. config = IF source = Torn \/ ~EnvParses(env) \/ ~Acceptable(raw)
               THEN NoConfig ELSE Normalize(raw)
  BY DEF Load, Raw
<1>2. ASSUME ~ (source = Torn \/ ~EnvParses(env) \/ ~Acceptable(raw))
      PROVE  /\ Fitting(raw) /\ Normal(Normalize(raw))
             /\ Normalize(raw) # NoConfig
  <2>1. Fitting(raw)
    BY <1>2, RawFits
  <2>2. Normal(Normalize(raw))
    BY <1>2, <2>1, Normalised
  <2>3. Normalize(raw) # NoConfig
    BY <2>2, NoMistakeForConfig DEF Normal, Fitting
  <2> QED
    BY <2>1, <2>2, <2>3
<1> HIDE DEF config, raw
<1> QED
  BY <1>1, <1>2 DEF config, raw

\* The invite changes the gateway alone, and leaves no pin without pinning.
InvitedFrom(config, invited) ==
    /\ Normal(invited)
    /\ \A k \in Keys \ GatewayKeys : invited[k] = config[k]
    /\ invited.wsURL \in {"ws://two", "wss://two"}
    /\ \/ invited.tlsMode # "pinned" /\ invited.fingerprint = ""
       \/ invited.tlsMode = "pinned" /\ Trim(invited.fingerprint) # ""

\* Whatever the scheme of the gateway that invites.
LEMMA Inviting ==
    ASSUME NEW config, Normal(config), NEW scheme \in {"http", "https"}
    PROVE  InvitedFrom(config, Invited(config, scheme))
<1> DEFINE result == Invited(config, scheme)
<1>1. DOMAIN config = Keys /\ \A k \in Keys : Fits(k, config[k])
  BY DEF Normal, Fitting
<1>2. /\ DOMAIN result = Keys
      /\ \A k \in Keys \ GatewayKeys : result[k] = config[k]
      /\ result.wsURL \in {"ws://two", "wss://two"}
      /\ \/ result.tlsMode # "pinned" /\ result.fingerprint = ""
         \/ result.tlsMode = "pinned" /\ Trim(result.fingerprint) # ""
      /\ result.tlsMode \in {"off", "system", "pinned"}
  <2>1. CASE scheme = "http"
    <3>1. result = [config EXCEPT !.wsURL = "ws://two", !.tlsMode = "off",
                                  !.fingerprint = ""]
      BY <2>1 DEF Invited
    <3> HIDE DEF result
    <3> QED
      BY <1>1, <3>1, EveryKey DEF GatewayKeys
  <2>2. CASE scheme = "https" /\ config.tlsMode = "pinned" /\ Trim(config.fingerprint) # ""
    <3>1. result = [config EXCEPT !.wsURL = "wss://two"]
      BY <2>2 DEF Invited
    <3> HIDE DEF result
    <3> QED
      BY <1>1, <2>2, <3>1, EveryKey DEF GatewayKeys
  <2>3. CASE scheme = "https" /\ ~ (config.tlsMode = "pinned" /\ Trim(config.fingerprint) # "")
    <3>1. result = [config EXCEPT !.wsURL = "wss://two", !.tlsMode = "system",
                                  !.fingerprint = ""]
      BY <2>3 DEF Invited
    <3> HIDE DEF result
    <3> QED
      BY <1>1, <3>1, EveryKey DEF GatewayKeys
  <2> QED
    BY <2>1, <2>2, <2>3
<1> HIDE DEF result
<1>3. /\ result.displayName = config.displayName /\ result.level = config.level
      /\ result.heartbeat = config.heartbeat /\ result.enabled = config.enabled
      /\ result.methods = config.methods /\ result.hints = config.hints
      /\ result.command = config.command /\ result.root = config.root
      /\ result.download = config.download /\ result.timeout = config.timeout
  BY <1>2, EveryKey DEF GatewayKeys
<1>4. Fitting(result)
  <2>1. \A k \in GatewayKeys : Fits(k, result[k])
    BY DEF GatewayKeys, Fits, ListKeys
  <2> QED
    BY <1>1, <1>2, <2>1 DEF Fitting
<1>5. Normal(result)
  BY <1>2, <1>3, <1>4 DEF Normal
<1> QED
  BY <1>2, <1>5 DEF result, InvitedFrom

\* What is in the file that Save writes.
LEMMA Saving ==
    ASSUME NEW config, Normal(config)
    PROVE  /\ FileSource(Saved(config)) /\ Saved(config) # Torn
           /\ \A k \in Keys \ DOMAIN Zero : Gives(Saved(config), k)
           /\ \A k \in DOMAIN Zero : Gives(Saved(config), k) <=> config[k] # Zero[k]
           /\ \A k \in DOMAIN Saved(config) : Saved(config)[k] = config[k]
<1> DEFINE normal == Normalize(config)
           kept == {k \in Keys : k \in DOMAIN Zero => normal[k] # Zero[k]}
<1>1. \A k \in Keys : normal[k] = config[k]
  BY StaysNormal
<1>2. Saved(config) = [k \in kept |-> normal[k]]
  BY DEF Saved, Restrict
<1>3. DOMAIN Zero \subseteq Keys
  BY EveryKey DEF Zero
<1> HIDE DEF normal
<1>4. \A k \in kept : Saved(config)[k] = config[k] /\ Fits(k, config[k])
  BY <1>1, <1>2 DEF Normal, Fitting
<1>5. DOMAIN Saved(config) = kept
  BY <1>2
<1>6. FileSource(Saved(config))
  BY <1>4, <1>5 DEF FileSource
<1>7. Saved(config) # Torn
  BY <1>5, NoMistakeForConfig
<1> QED
  BY <1>1, <1>3, <1>4, <1>5, <1>6, <1>7 DEF Gives

\* And how it reads back over the defaults: as it was, but for the methods of a
\* host that is not enabled, and an update that downloads.
LEMMA ReadingBack ==
    ASSUME NEW config, Normal(config)
    PROVE  LET result == ApplyFile(Saved(config), Default)
           IN /\ \A k \in Keys \ {"methods", "download"} : result[k] = config[k]
              /\ config.methods # <<>> => result.methods = config.methods
              /\ \/ result.download = config.download
                 \/ config.command # <<>> /\ result.download = TRUE
<1> DEFINE source == Saved(config)
           result == ApplyFile(source, Default)
<1>1. /\ DOMAIN source \subseteq Keys
      /\ \A k \in Keys \ DOMAIN Zero : Gives(source, k)
      /\ \A k \in DOMAIN Zero : Gives(source, k) <=> config[k] # Zero[k]
      /\ \A k \in DOMAIN source : source[k] = config[k]
  BY Saving DEF FileSource
<1>2. /\ DOMAIN Zero = {"fingerprint", "hints", "command", "root", "download", "timeout"}
      /\ Zero.fingerprint = "" /\ Zero.hints = <<>> /\ Zero.command = <<>>
      /\ Zero.root = "" /\ Zero.download = FALSE /\ Zero.timeout = 0
  BY DEF Zero
<1>3. /\ Default.fingerprint = "" /\ Default.hints = <<>> /\ Default.command = <<>>
      /\ Default.root = "" /\ Default.download = FALSE /\ Default.timeout = 0
      /\ Default.wsURL = ""
  BY DEF Default
<1> HIDE DEF source, result
<1>4. FromFileOrElse(source, Default, result)
  BY <1>1, FromFile DEF result
<1>5. \A k \in TextKeys : result[k] = config[k]
  <2>0. TextsOfFile(source, Default, result)
    BY <1>4 DEF FromFileOrElse
  <2>1. config.tlsMode # "" /\ config.displayName # "" /\ config.level # ""
    BY DEF Normal
  <2>2. /\ Gives(source, "wsURL") /\ Gives(source, "tlsMode")
        /\ Gives(source, "displayName") /\ Gives(source, "level")
        /\ Gives(source, "fingerprint") <=> config.fingerprint # ""
    BY ZenonT(100), <1>1, <1>2, EveryKey
  <2>3. /\ source.wsURL = config.wsURL /\ source.tlsMode = config.tlsMode
        /\ source.displayName = config.displayName /\ source.level = config.level
        /\ Gives(source, "fingerprint") => source.fingerprint = config.fingerprint
    BY <1>1, <2>2 DEF Gives
  <2> QED
    BY ZenonT(100), <1>3, <2>0, <2>1, <2>2, <2>3 DEF TextsOfFile, TextKeys
<1>6. result.heartbeat = config.heartbeat
  <2>0. HeartbeatOfFile(source, Default, result)
    BY <1>4 DEF FromFileOrElse
  <2>1. Gives(source, "heartbeat")
    BY ZenonT(100), <1>1, <1>2, EveryKey
  <2>2. source.heartbeat = config.heartbeat
    BY <1>1, <2>1 DEF Gives
  <2> QED
    BY <2>0, <2>1, <2>2 DEF HeartbeatOfFile, Normal
<1>7. result.enabled = config.enabled
  <2>0. EnabledOfFile(source, Default, result)
    BY <1>4 DEF FromFileOrElse
  <2>1. Gives(source, "enabled")
    BY ZenonT(100), <1>1, <1>2, EveryKey
  <2>2. source.enabled = config.enabled /\ HostKeys \cap DOMAIN source # {}
    BY <1>1, <2>1 DEF Gives, HostKeys
  <2> QED
    BY <2>0, <2>1, <2>2 DEF EnabledOfFile
<1>8. /\ result.hints = config.hints
      /\ config.methods # <<>> => result.methods = config.methods
  <2>1. Gives(source, "methods") /\ (Gives(source, "hints") <=> config.hints # <<>>)
    BY ZenonT(100), <1>1, <1>2, EveryKey
  <2>2. /\ source.methods = config.methods
        /\ Gives(source, "hints") => source.hints = config.hints
    BY <1>1, <2>1 DEF Gives
  <2> QED
    BY <1>3, <1>4, <2>1, <2>2 DEF FromFileOrElse, ListsOfFile
<1>9. CASE config.command = <<>>
  <2>1. ~Gives(source, "command")
    BY <1>1, <1>2, <1>9
  <2>2. \A k \in UpdateKeys : result[k] = Default[k]
    BY <1>4, <2>1 DEF FromFileOrElse, UpdateOfFile
  <2>3. /\ result.command = <<>> /\ result.root = "" /\ result.download = FALSE
        /\ result.timeout = 0
    BY <1>3, <2>2 DEF UpdateKeys
  <2>4. config.root = "" /\ config.download = FALSE /\ config.timeout = 0
    BY <1>9 DEF Normal
  <2>5. result.download = config.download
    BY <2>3, <2>4
  <2> QED
    BY ZenonT(100), <1>5, <1>6, <1>7, <1>8, <1>9, <2>3, <2>4, <2>5, EveryKey
       DEF TextKeys, result, source
<1>10. CASE config.command # <<>>
  <2>0. config.timeout \in Int /\ config.root # "" /\ config.timeout > 0
    <3>1. config.timeout \in Int
      BY EveryKey DEF Normal, Fitting, Fits
    <3> QED
      BY <1>10, <3>1 DEF Normal
  <2>1. config.root # "" /\ config.timeout # 0
    <3>1. \A n \in Int : n > 0 => n # 0
      OBVIOUS
    <3>2. config.timeout # 0
      BY <2>0, <3>1, Zenon
    <3> QED
      BY <2>0, <3>2
  <2>2. Gives(source, "command") /\ Gives(source, "root") /\ Gives(source, "timeout")
    BY <1>1, <1>2, <1>10, <2>1
  <2>3. /\ source.command = config.command /\ source.root = config.root
        /\ source.timeout = config.timeout
    BY <1>1, <2>2 DEF Gives
  <2>4. \A k \in UpdateKeys :
            result[k] = IF Gives(source, k) THEN source[k] ELSE Unsaid[k]
    BY <1>4, <1>10, <2>2, <2>3 DEF FromFileOrElse, UpdateOfFile
  <2>5. /\ result.command = config.command /\ result.root = config.root
        /\ result.timeout = config.timeout
    BY <2>2, <2>3, <2>4 DEF UpdateKeys
  <2>6. result.download = config.download \/ result.download = TRUE
    <3>1. Unsaid.download = TRUE
      BY DEF Unsaid
    <3>2. Gives(source, "download") => source.download = config.download
      BY <1>1 DEF Gives
    <3> QED
      BY <2>4, <3>1, <3>2 DEF UpdateKeys
  <2> QED
    BY <1>5, <1>6, <1>7, <1>8, <1>10, <2>5, <2>6, EveryKey DEF TextKeys, result, source
<1> QED
  BY <1>9, <1>10

-----------------------------------------------------------------------------
(* The invariant *)

\* The file is torn or fits, whatever wrote it, and the other sources fit.
SourcesFit ==
    /\ document = Torn \/ FileSource(document)
    /\ was = Torn \/ FileSource(was)
    /\ DOMAIN given = {"service", "flags", "shell"}
    /\ EnvSource(given["service"])
    /\ FlagSource(given["flags"])
    /\ EnvSource(given["shell"])

\* What the claim holds in memory was loaded from a file and then invited; what
\* it has saved is in the file still.
SavingInv ==
    /\ claim \in {"idle", "loaded", "saving", "saved", "done", "failed"}
    /\ claim = "idle" => FileSource(document)
    /\ draft = NoConfig \/ Normal(draft)
    /\ claim \in {"loaded", "saving", "saved", "done"} =>
           LET config == Load(was, given["shell"], Nothing)
           IN /\ config # NoConfig
              /\ \E scheme \in {"http", "https"} : draft = Invited(config, scheme)
    /\ claim \in {"saved", "done"} => document = Saved(draft)
    /\ claim = "done" => draft.enabled

\* A daemon runs with a configuration that was normalised.
DaemonInv ==
    /\ daemon \in {"off", "refused", "running"}
    /\ daemon = "running" <=> running # NoConfig
    /\ running = NoConfig \/ Normal(running)

\* The inductive invariant of the configuration.
ConfigInv == SourcesFit /\ SavingInv /\ DaemonInv

\* A source with one more setting.
LEMMA OneMore ==
    ASSUME NEW source, NEW setting
    PROVE  /\ DOMAIN With(source, setting) = DOMAIN source \cup {setting[1]}
           /\ \A k \in DOMAIN With(source, setting) :
                  \/ k = setting[1] /\ With(source, setting)[k] = setting[2]
                  \/ k \in DOMAIN source /\ With(source, setting)[k] = source[k]
BY DEF With

\* It still fits, because the settings do (ConfigAssumption).
LEMMA OneMoreFits ==
    /\ \A source, setting :
           FileSource(source) /\ setting \in FileSettings => FileSource(With(source, setting))
    /\ \A source, setting :
           FlagSource(source) /\ setting \in FlagSettings => FlagSource(With(source, setting))
    /\ \A source, setting :
           EnvSource(source) /\ setting \in ServiceSettings \cup ShellSettings
           => EnvSource(With(source, setting))
<1>1. ASSUME NEW source, NEW setting, FileSource(source), setting \in FileSettings
      PROVE  FileSource(With(source, setting))
  <2>1. setting[1] \in Keys /\ Fits(setting[1], setting[2])
    BY <1>1, ConfigAssumption DEF ConfigAssumption
  <2> QED
    BY <1>1, <2>1, OneMore DEF FileSource
<1>2. ASSUME NEW source, NEW setting, FlagSource(source), setting \in FlagSettings
      PROVE  FlagSource(With(source, setting))
  <2>1. setting[1] \in FlagKeys /\ Fits(setting[1], setting[2])
    BY <1>2, ConfigAssumption DEF ConfigAssumption
  <2> QED
    BY <1>2, <2>1, OneMore DEF FlagSource
<1>3. ASSUME NEW source, NEW setting, EnvSource(source),
             setting \in ServiceSettings \cup ShellSettings
      PROVE  EnvSource(With(source, setting))
  <2>1. /\ setting[1] \in Keys \ {"hints"}
        /\ setting[2] = Unparsable \/ Fits(setting[1], setting[2])
    BY <1>3, ConfigAssumption DEF ConfigAssumption
  <2>2. DOMAIN With(source, setting) \subseteq Keys \ {"hints"}
    BY <1>3, <2>1, OneMore DEF EnvSource
  <2>3. ASSUME NEW k \in DOMAIN With(source, setting)
        PROVE  With(source, setting)[k] = Unparsable \/ Fits(k, With(source, setting)[k])
    BY ZenonT(100), <1>3, <2>1, OneMore DEF EnvSource
  <2> QED
    BY <2>2, <2>3 DEF EnvSource
<1> QED
  BY <1>1, <1>2, <1>3

\* The invariant holds at first, and one action after the other keeps it.
LEMMA ConfigInitInv == ConfigInit => ConfigInv
<1> SUFFICES ASSUME ConfigInit PROVE ConfigInv
  OBVIOUS
<1>1. SourcesFit
  <2>1. document = Nothing /\ was = Nothing
    BY DEF ConfigInit
  <2>2. given = [from \in {"service", "flags", "shell"} |-> Nothing]
    BY DEF ConfigInit
  <2> QED
    BY <2>1, <2>2, NothingGiven DEF SourcesFit
<1>2. SavingInv
  <2>1. claim = "idle" /\ draft = NoConfig /\ document = Nothing
    BY DEF ConfigInit
  <2> QED
    BY <2>1, NothingGiven DEF SavingInv
<1>3. DaemonInv
  BY DEF ConfigInit, DaemonInv
<1> QED
  BY <1>1, <1>2, <1>3 DEF ConfigInv

LEMMA ConfigStepInv == ConfigInv /\ [ConfigNext]_configVars => ConfigInv'
<1> SUFFICES ASSUME ConfigInv, [ConfigNext]_configVars PROVE ConfigInv'
  OBVIOUS
<1> USE DEF ConfigInv
<1>1. CASE Configure
  <2>1. /\ claim = "idle" /\ claim' = claim /\ draft' = draft /\ was' = was
        /\ daemon' = daemon /\ running' = running
    BY <1>1 DEF Configure, commandVars, serviceVars
  <2>2. SourcesFit' /\ FileSource(document')
    <3>1. ASSUME NEW setting \in FileSettings, EditFile(setting)
          PROVE  SourcesFit' /\ FileSource(document')
      <4>1. FileSource(document')
        BY <2>1, <3>1, OneMoreFits DEF SavingInv, EditFile
      <4> QED
        BY <2>1, <3>1, <4>1 DEF EditFile, SourcesFit
    <3>2. ASSUME NEW from \in {"service", "flags", "shell"}, NEW setting,
                 Give(from, setting),
                 from = "service" => setting \in ServiceSettings,
                 from = "flags" => setting \in FlagSettings,
                 from = "shell" => setting \in ShellSettings
          PROVE  SourcesFit' /\ FileSource(document')
      <4>1. /\ DOMAIN given' = {"service", "flags", "shell"}
            /\ given'[from] = With(given[from], setting)
            /\ \A other \in {"service", "flags", "shell"} \ {from} :
                   given'[other] = given[other]
        BY <3>2 DEF Give, SourcesFit
      <4>2. /\ EnvSource(given'["service"]) /\ FlagSource(given'["flags"])
            /\ EnvSource(given'["shell"])
        BY <3>2, <4>1, OneMoreFits DEF SourcesFit
      <4>3. document' = document /\ FileSource(document)
        BY <2>1, <3>2 DEF Give, SavingInv
      <4> QED
        BY <2>1, <4>1, <4>2, <4>3 DEF SourcesFit
    <3> QED
      BY <1>1, <3>1, <3>2 DEF Configure
  <2>3. SavingInv'
    BY <2>1, <2>2 DEF SavingInv
  <2>4. DaemonInv'
    BY <2>1 DEF DaemonInv
  <2> QED
    BY <2>2, <2>3, <2>4
<1>2. ASSUME NEW scheme \in {"http", "https"}, ClaimLoads(scheme) PROVE ConfigInv'
  <2> DEFINE config == Load(document, given["shell"], Nothing)
  <2>1. /\ was' = document /\ document' = document /\ given' = given
        /\ daemon' = daemon /\ running' = running
        /\ IF config = NoConfig
           THEN claim' = "failed" /\ draft' = NoConfig
           ELSE claim' = "loaded" /\ draft' = Invited(config, scheme)
    BY <1>2 DEF ClaimLoads, Shell, serviceVars
  <2>2. config # NoConfig => Normal(config)
    BY Loading, NothingGiven DEF SourcesFit
  <2>3. config # NoConfig => Normal(Invited(config, scheme))
    BY <2>2, Inviting DEF InvitedFrom
  <2>4. config' = config /\ Load(was', given'["shell"], Nothing) = config
    BY <2>1
  <2>5. SourcesFit' /\ DaemonInv'
    BY <2>1 DEF SourcesFit, DaemonInv
  <2> HIDE DEF config
  <2>6. SavingInv'
    BY <2>1, <2>3, <2>4 DEF SavingInv
  <2> QED
    BY <2>5, <2>6
<1>3. CASE SaveTruncates
  <2>1. /\ claim = "loaded" /\ claim' = "saving" /\ document' = Torn
        /\ given' = given /\ draft' = draft /\ was' = was
        /\ daemon' = daemon /\ running' = running
    BY <1>3 DEF SaveTruncates, serviceVars
  <2> QED
    BY <2>1 DEF SourcesFit, SavingInv, DaemonInv
<1>4. CASE SaveWrites
  <2>1. /\ claim = "saving" /\ claim' = "saved" /\ document' = Saved(draft)
        /\ given' = given /\ draft' = draft /\ was' = was
        /\ daemon' = daemon /\ running' = running
    BY <1>4 DEF SaveWrites, serviceVars
  <2>2. Normal(draft)
    <3> DEFINE config == Load(was, given["shell"], Nothing)
    <3>1. config # NoConfig => Normal(config)
      BY Loading, NothingGiven DEF SourcesFit
    <3>2. PICK scheme \in {"http", "https"} :
              config # NoConfig /\ draft = Invited(config, scheme)
      BY <2>1 DEF SavingInv
    <3> QED
      BY <3>1, <3>2, Inviting DEF InvitedFrom
  <2>3. FileSource(Saved(draft))
    BY <2>2, Saving
  <2> QED
    BY <2>1, <2>2, <2>3 DEF SourcesFit, SavingInv, DaemonInv
<1>5. CASE ClaimEnds
  <2>1. /\ claim = "saved" /\ claim' \in IF draft.enabled THEN {"done", "failed"} ELSE {"failed"}
        /\ document' = document
        /\ given' = given /\ draft' = draft /\ was' = was
        /\ daemon' = daemon /\ running' = running
    BY <1>5 DEF ClaimEnds, serviceVars
  <2>2. claim' \in {"done", "failed"} /\ (claim' = "done" => draft.enabled)
    BY <2>1
  <2> QED
    BY <2>1, <2>2 DEF SourcesFit, SavingInv, DaemonInv
<1>6. CASE ClaimKilled
  <2>1. /\ claim' = "failed" /\ claim # "idle" /\ document' = document
        /\ given' = given /\ draft' = draft /\ was' = was
        /\ daemon' = daemon /\ running' = running
    BY <1>6 DEF ClaimKilled, serviceVars
  <2> QED
    BY <2>1 DEF SourcesFit, SavingInv, DaemonInv
<1>7. CASE StartDaemon
  <2>1. /\ document' = document /\ given' = given /\ claim' = claim
        /\ draft' = draft /\ was' = was /\ daemon # "running"
    BY <1>7 DEF StartDaemon, commandVars
  <2>2. SourcesFit' /\ SavingInv'
    BY <2>1 DEF SourcesFit, SavingInv
  <2> DEFINE config == Load(document, given["service"], given["flags"])
  <2>3. config # NoConfig => Normal(config)
    BY Loading DEF SourcesFit
  <2>4. IF ValidForRun(config) THEN daemon' = "running" /\ running' = config
        ELSE daemon' = "refused" /\ running' = running
    BY <1>7 DEF StartDaemon, Effective
  <2>5. ValidForRun(config) => config # NoConfig
    BY DEF ValidForRun
  <2> HIDE DEF config
  <2>6. DaemonInv'
    BY <2>1, <2>3, <2>4, <2>5 DEF DaemonInv
  <2> QED
    BY <2>2, <2>6
<1>8. CASE StopDaemon
  <2>1. /\ document' = document /\ given' = given /\ claim' = claim
        /\ draft' = draft /\ was' = was
        /\ daemon' = "off" /\ running' = NoConfig
    BY <1>8 DEF StopDaemon, commandVars
  <2> QED
    BY <2>1 DEF SourcesFit, SavingInv, DaemonInv
<1>9. CASE UNCHANGED configVars
  BY <1>9 DEF configVars, SourcesFit, SavingInv, DaemonInv
<1> QED
  BY <1>1, <1>2, <1>3, <1>4, <1>5, <1>6, <1>7, <1>8, <1>9 DEF ConfigNext

\* The invariant the proofs about the configuration rest on.
THEOREM ConfigInvariant == ConfigSpec => []ConfigInv
BY ConfigInitInv, ConfigStepInv, PTL DEF ConfigSpec

\* The types are a part of it.
LEMMA InvTypes == ConfigInv => ConfigTypeOK
<1> SUFFICES ASSUME ConfigInv PROVE ConfigTypeOK
  OBVIOUS
<1>1. \A from \in DOMAIN given : DOMAIN given[from] \subseteq Keys
  BY EveryKey DEF ConfigInv, SourcesFit, EnvSource, FlagSource, FlagKeys, TextKeys
<1> QED
  BY <1>1 DEF ConfigInv, SourcesFit, SavingInv, DaemonInv, ConfigTypeOK, FileSource,
              Normal, Fitting

\* The variables keep their types, whatever is configured, claimed, killed half
\* way and started.
THEOREM ConfigTypes == ConfigSpec => []ConfigTypeOK
BY ConfigInvariant, InvTypes, PTL

\* StartDaemon does not start a daemon from a file that os.WriteFile has emptied
\* and not yet written, or that a command killed by then has left: Load fails.
THEOREM ConfigNoStartFromTornFile == ConfigSpec => NoStartFromTornFile
<1>1. ConfigInv /\ [ConfigNext]_configVars
      => [daemon # "running" /\ daemon' = "running" => document # Torn]_configVars
  <2> SUFFICES ASSUME ConfigInv, ConfigNext, daemon # "running", daemon' = "running"
               PROVE  document # Torn
    BY DEF configVars
  <2>1. StartDaemon
    BY DEF ConfigNext, Configure, ClaimLoads, SaveTruncates, SaveWrites, ClaimEnds,
           ClaimKilled, StopDaemon, commandVars, serviceVars
  <2>2. ValidForRun(Effective)
    BY <2>1 DEF StartDaemon
  <2> QED
    BY <2>2 DEF ValidForRun, Effective, Load
<1> QED
  BY <1>1, ConfigInvariant, PTL DEF ConfigSpec, NoStartFromTornFile

-----------------------------------------------------------------------------
(* Which source wins *)

\* What the source of a rank has to offer for key k: 0 is the defaults, 1 the
\* file, 2 the environment of the daemon, 3 its flags.
Offer(rank, value) == <<rank, value>>

Proposed(k, offer) ==
    \/ offer[1] = 0 /\ offer[2] = Default[k]
    \/ /\ offer[1] = 1 /\ offer[2] = document[k]
       /\ Gives(document, k) /\ document[k] # ""
    \/ /\ offer[1] = 2 /\ offer[2] = given["service"][k]
       /\ Gives(given["service"], k) /\ Trim(given["service"][k]) # ""
    \/ /\ offer[1] = 3 /\ offer[2] = given["flags"][k]
       /\ Gives(given["flags"], k)

\* Offers(k) are these offers and no others.
LEMMA Offering ==
    ASSUME NEW k
    PROVE  /\ \A rank, value : Offer(rank, value)[1] = rank /\ Offer(rank, value)[2] = value
           /\ Offer(0, Default[k]) \in Offers(k)
           /\ Gives(document, k) /\ document[k] # ""
              => Offer(1, document[k]) \in Offers(k)
           /\ Gives(given["service"], k) /\ Trim(given["service"][k]) # ""
              => Offer(2, given["service"][k]) \in Offers(k)
           /\ Gives(given["flags"], k) => Offer(3, given["flags"][k]) \in Offers(k)
           /\ \A offer \in Offers(k) : Proposed(k, offer)
<1> DEFINE source == <<document, given["service"], given["flags"]>>
           Offered(rank) == /\ Gives(source[rank], k)
                            /\ rank = 1 => source[1][k] # ""
                            /\ rank = 2 => Trim(source[2][k]) # ""
<1>1. /\ source[1] = document /\ source[2] = given["service"]
      /\ source[3] = given["flags"]
  OBVIOUS
<1>2. Offers(k) = {Offer(0, Default[k])}
                  \cup {Offer(rank, source[rank][k]) : rank \in {r \in 1 .. 3 : Offered(r)}}
  BY DEF Offers, Offer
<1> HIDE DEF source
<1>3. /\ Offered(1) <=> Gives(document, k) /\ document[k] # ""
      /\ Offered(2) <=> Gives(given["service"], k) /\ Trim(given["service"][k]) # ""
      /\ Offered(3) <=> Gives(given["flags"], k)
  BY <1>1
<1> HIDE DEF Offered
<1>4. {r \in 1 .. 3 : Offered(r)} = {r \in {1, 2, 3} : Offered(r)}
  OBVIOUS
<1>5. \A rank, value : Offer(rank, value)[1] = rank /\ Offer(rank, value)[2] = value
  BY DEF Offer
<1>6. ASSUME NEW offer
      PROVE  offer \in Offers(k) <=>
                 \/ offer = Offer(0, Default[k])
                 \/ offer = Offer(1, source[1][k]) /\ Offered(1)
                 \/ offer = Offer(2, source[2][k]) /\ Offered(2)
                 \/ offer = Offer(3, source[3][k]) /\ Offered(3)
  BY <1>2, <1>4, Zenon
<1>7. ASSUME NEW offer \in Offers(k)
      PROVE  Proposed(k, offer)
  <2>1. CASE offer = Offer(0, Default[k])
    <3>1. offer[1] = 0 /\ offer[2] = Default[k]
      <4>1. Offer(0, Default[k])[1] = 0 /\ Offer(0, Default[k])[2] = Default[k]
        BY <1>5
      <4> QED
        BY <2>1, <4>1
    <3> QED
      BY <3>1 DEF Proposed
  <2>2. CASE offer = Offer(1, source[1][k]) /\ Offered(1)
    <3>1. offer[1] = 1 /\ offer[2] = source[1][k]
      <4>1. Offer(1, source[1][k])[1] = 1 /\ Offer(1, source[1][k])[2] = source[1][k]
        BY <1>5
      <4> QED
        BY <2>2, <4>1
    <3> QED
      BY <1>1, <1>3, <2>2, <3>1 DEF Proposed
  <2>3. CASE offer = Offer(2, source[2][k]) /\ Offered(2)
    <3>1. offer[1] = 2 /\ offer[2] = source[2][k]
      <4>1. Offer(2, source[2][k])[1] = 2 /\ Offer(2, source[2][k])[2] = source[2][k]
        BY <1>5
      <4> QED
        BY <2>3, <4>1
    <3> QED
      BY <1>1, <1>3, <2>3, <3>1 DEF Proposed
  <2>4. CASE offer = Offer(3, source[3][k]) /\ Offered(3)
    <3>1. offer[1] = 3 /\ offer[2] = source[3][k]
      <4>1. Offer(3, source[3][k])[1] = 3 /\ Offer(3, source[3][k])[2] = source[3][k]
        BY <1>5
      <4> QED
        BY <2>4, <4>1
    <3> QED
      BY <1>1, <1>3, <2>4, <3>1 DEF Proposed
  <2> QED
    BY <1>6, <2>1, <2>2, <2>3, <2>4
<1>8. /\ Offer(0, Default[k]) \in Offers(k)
      /\ Gives(document, k) /\ document[k] # ""
         => Offer(1, document[k]) \in Offers(k)
      /\ Gives(given["service"], k) /\ Trim(given["service"][k]) # ""
         => Offer(2, given["service"][k]) \in Offers(k)
      /\ Gives(given["flags"], k) => Offer(3, given["flags"][k]) \in Offers(k)
  BY <1>1, <1>3, <1>6
<1> QED
  BY <1>5, <1>7, <1>8, Zenon

\* So the offer that wins is the flag's, or else the variable's, the file's, or
\* the default.
LEMMA Winning ==
    ASSUME NEW k
    PROVE  Winner(k) =
               IF Gives(given["flags"], k) THEN given["flags"][k]
               ELSE IF Gives(given["service"], k) /\ Trim(given["service"][k]) # ""
               THEN given["service"][k]
               ELSE IF Gives(document, k) /\ document[k] # "" THEN document[k]
               ELSE Default[k]
<1> DEFINE Top(rank, value) ==
               /\ rank \in Int /\ Offer(rank, value) \in Offers(k)
               /\ \A offer \in Offers(k) :
                      /\ offer[1] \in Int /\ offer[1] <= rank
                      /\ offer[1] = rank => offer[2] = value
<1>1. ASSUME NEW rank, NEW value, Top(rank, value) PROVE Winner(k) = value
  <2> DEFINE Best(best) == \A offer \in Offers(k) : offer[1] <= best[1]
             best == CHOOSE b \in Offers(k) : Best(b)
  <2>1. Offer(rank, value)[1] = rank
    BY Offering
  <2>2. Best(Offer(rank, value))
    BY <1>1, <2>1
  <2>3. best \in Offers(k) /\ Best(best)
    BY <1>1, <2>2
  <2>4. rank <= best[1]
    BY <1>1, <2>1, <2>3
  <2>5. Winner(k) = best[2]
    BY DEF Winner
  <2> HIDE DEF best, Best
  <2> QED
    BY <1>1, <2>3, <2>4, <2>5
<1>2. CASE Gives(given["flags"], k)
  <2>1. Top(3, given["flags"][k])
    <3>1. Offer(3, given["flags"][k]) \in Offers(k)
      BY <1>2, Offering
    <3>2. ASSUME NEW offer \in Offers(k)
          PROVE  /\ offer[1] \in Int /\ offer[1] <= 3
                 /\ offer[1] = 3 => offer[2] = given["flags"][k]
      <4>1. \/ offer[1] = 0
            \/ offer[1] = 1
            \/ offer[1] = 2
            \/ offer[1] = 3 /\ offer[2] = given["flags"][k]
        BY <1>2, Offering DEF Proposed
      <4>2. \A rank : \/ rank = 0 \/ rank = 1 \/ rank = 2 \/ rank = 3
                      => rank \in Int /\ rank <= 3
        OBVIOUS
      <4>3. 0 # 3 /\ 1 # 3 /\ 2 # 3
        OBVIOUS
      <4> QED
        BY <4>1, <4>2, <4>3, Zenon
    <3> QED
      BY <3>1, <3>2
  <2> HIDE DEF Top
  <2> QED
    BY <1>1, <1>2, <2>1
<1>3. CASE ~Gives(given["flags"], k) /\ Gives(given["service"], k)
           /\ Trim(given["service"][k]) # ""
  <2>1. Top(2, given["service"][k])
    <3>1. Offer(2, given["service"][k]) \in Offers(k)
      BY <1>3, Offering
    <3>2. ASSUME NEW offer \in Offers(k)
          PROVE  /\ offer[1] \in Int /\ offer[1] <= 2
                 /\ offer[1] = 2 => offer[2] = given["service"][k]
      <4>1. \/ offer[1] = 0
            \/ offer[1] = 1
            \/ offer[1] = 2 /\ offer[2] = given["service"][k]
        BY <1>3, Offering DEF Proposed
      <4>2. \A rank : \/ rank = 0 \/ rank = 1 \/ rank = 2
                      => rank \in Int /\ rank <= 2
        OBVIOUS
      <4>3. 0 # 2 /\ 1 # 2
        OBVIOUS
      <4> QED
        BY <4>1, <4>2, <4>3, Zenon
    <3> QED
      BY <3>1, <3>2
  <2> HIDE DEF Top
  <2> QED
    BY <1>1, <1>3, <2>1
<1>4. CASE /\ ~Gives(given["flags"], k)
           /\ ~ (Gives(given["service"], k) /\ Trim(given["service"][k]) # "")
           /\ Gives(document, k) /\ document[k] # ""
  <2>1. Top(1, document[k])
    <3>1. Offer(1, document[k]) \in Offers(k)
      BY <1>4, Offering
    <3>2. ASSUME NEW offer \in Offers(k)
          PROVE  /\ offer[1] \in Int /\ offer[1] <= 1
                 /\ offer[1] = 1 => offer[2] = document[k]
      <4>1. \/ offer[1] = 0
            \/ offer[1] = 1 /\ offer[2] = document[k]
        BY <1>4, Offering DEF Proposed
      <4>2. \A rank : \/ rank = 0 \/ rank = 1
                      => rank \in Int /\ rank <= 1
        OBVIOUS
      <4>3. 0 # 1
        OBVIOUS
      <4> QED
        BY <4>1, <4>2, <4>3, Zenon
    <3> QED
      BY <3>1, <3>2
  <2> HIDE DEF Top
  <2> QED
    BY <1>1, <1>4, <2>1
<1>5. CASE /\ ~Gives(given["flags"], k)
           /\ ~ (Gives(given["service"], k) /\ Trim(given["service"][k]) # "")
           /\ ~ (Gives(document, k) /\ document[k] # "")
  <2>1. Top(0, Default[k])
    <3>1. Offer(0, Default[k]) \in Offers(k)
      BY <1>5, Offering
    <3>2. ASSUME NEW offer \in Offers(k)
          PROVE  /\ offer[1] \in Int /\ offer[1] <= 0
                 /\ offer[1] = 0 => offer[2] = Default[k]
      <4>1. \/ offer[1] = 0 /\ offer[2] = Default[k]
        BY <1>5, Offering DEF Proposed
      <4>2. \A rank : rank = 0
                      => rank \in Int /\ rank <= 0
        OBVIOUS
      <4> QED
        BY <4>1, <4>2, Zenon
    <3> QED
      BY <3>1, <3>2
  <2> HIDE DEF Top
  <2> QED
    BY <1>1, <1>5, <2>1
<1> QED
  BY <1>2, <1>3, <1>4, <1>5

\* The text of key k, as the sources have it.
TextOf(source, env, options, k) ==
    IF Gives(options, k) THEN Trim(options[k])
    ELSE IF Gives(env, k) /\ Trim(env[k]) # "" THEN env[k]
    ELSE IF Gives(source, k) /\ source[k] # "" THEN source[k]
    ELSE Default[k]

\* The sources laid over one another come to the same.
LEMMA RawTexts ==
    ASSUME NEW source, FileSource(source), NEW env, EnvSource(env),
           NEW options, FlagSource(options), NEW k \in TextKeys
    PROVE  Raw(source, env, options)[k] = TextOf(source, env, options, k)
<1> DEFINE lowest == ApplyFile(source, Default)
           middle == ApplyEnv(env, lowest)
<1>1. /\ DOMAIN source \subseteq Keys /\ DOMAIN env \subseteq Keys
      /\ DOMAIN options \subseteq Keys /\ k \in Keys
  BY DEF FileSource, EnvSource, FlagSource, FlagKeys, Keys, HostKeys
<1>2. lowest[k] = IF Gives(source, k) /\ source[k] # "" THEN source[k] ELSE Default[k]
  <2>1. FromFileOrElse(source, Default, lowest)
    BY <1>1, FromFile
  <2> QED
    BY <2>1 DEF FromFileOrElse, TextsOfFile
<1> HIDE DEF lowest
<1>3. middle[k] = IF Gives(env, k) /\ Trim(env[k]) # "" THEN env[k] ELSE lowest[k]
  <2>1. k \in EnvDecides(env) <=> Gives(env, k) /\ Trim(env[k]) # ""
    BY DEF EnvDecides, Gives, TextKeys, ListKeys
  <2>2. k \notin ListKeys
    BY DEF TextKeys, ListKeys
  <2> QED
    BY <1>1, <2>1, <2>2, FromEnv
<1> HIDE DEF middle
<1>4. ApplyOptions(options, middle)[k] =
          IF Gives(options, k) THEN Trim(options[k]) ELSE middle[k]
  BY <1>1, FromFlags DEF Gives
<1>5. Raw(source, env, options) = ApplyOptions(options, middle)
  BY DEF Raw, middle, lowest
<1> QED
  BY <1>2, <1>3, <1>4, <1>5 DEF TextOf

\* And the winner is normalised after it has won.
LEMMA InOrder == SourcesFit => SourcesInOrder
<1> DEFINE config == Effective
           raw == Raw(document, given["service"], given["flags"])
<1> SUFFICES ASSUME SourcesFit, config # NoConfig
             PROVE  /\ \A k \in {"wsURL", "fingerprint"} : Trim(config[k]) = Trim(Winner(k))
                    /\ config.displayName = OrElse(Winner("displayName"), "hostname")
                    /\ config.level = OrElse(Lower(Winner("level")), "info")
                    /\ config.tlsMode = OrElse(Lower(Winner("tlsMode")), "system")
  BY DEF SourcesInOrder
<1>1. FileSource(document) /\ config = Normalize(raw)
  BY Loading DEF SourcesFit, Effective
<1>2. \A k \in TextKeys : raw[k] = Winner(k) \/ raw[k] = Trim(Winner(k))
  <2> TAKE k \in TextKeys
  <2>1. /\ FileSource(document) /\ EnvSource(given["service"])
        /\ FlagSource(given["flags"])
    BY <1>1 DEF SourcesFit
  <2>2. raw[k] = TextOf(document, given["service"], given["flags"], k)
    BY <2>1, RawTexts
  <2> HIDE DEF raw
  <2> QED
    BY <2>2, Winning DEF TextOf
<1> HIDE DEF raw
<1>3. /\ config.wsURL = raw.wsURL /\ config.fingerprint = raw.fingerprint
      /\ config.displayName = OrElse(raw.displayName, "hostname")
      /\ config.level = OrElse(Lower(raw.level), "info")
      /\ config.tlsMode = OrElse(Lower(raw.tlsMode), "system")
  BY <1>1, NormalizeFields DEF TLSMode
<1> HIDE DEF config
<1>4. \A k \in {"wsURL", "fingerprint"} : Trim(config[k]) = Trim(Winner(k))
  BY <1>2, <1>3, Trimming DEF TextKeys
<1>5. config.displayName = OrElse(Winner("displayName"), "hostname")
  BY <1>2, <1>3, Trimming DEF TextKeys
<1>6. config.level = OrElse(Lower(Winner("level")), "info")
  BY <1>2, <1>3, Trimming DEF TextKeys
<1>7. config.tlsMode = OrElse(Lower(Winner("tlsMode")), "system")
  BY <1>2, <1>3, Trimming DEF TextKeys
<1> QED
  BY <1>4, <1>5, <1>6, <1>7

\* Load: a flag wins over the environment, the environment over the file, and the
\* file over the defaults, for every text of the configuration and any settings.
THEOREM ConfigSourcesInOrder == ConfigSpec => []SourcesInOrder
BY ConfigInvariant, InOrder, PTL DEF ConfigInv

-----------------------------------------------------------------------------
(* What a claim saves *)

\* A configuration that was loaded with no flags, and how it was invited.
LEMMA Claimed ==
    ASSUME SourcesFit, SavingInv, claim \in {"saved", "done"}
    PROVE  LET raw    == Raw(was, given["shell"], Nothing)
               config == Load(was, given["shell"], Nothing)
           IN /\ FileSource(was) /\ EnvSource(given["shell"]) /\ FlagSource(Nothing)
              /\ EnvParses(given["shell"])
              /\ Fitting(raw) /\ Acceptable(raw)
              /\ config = Normalize(raw) /\ Normal(config)
              /\ Normal(draft) /\ document = Saved(draft)
              /\ \A k \in Keys \ GatewayKeys : draft[k] = config[k]
              /\ draft.wsURL \in {"ws://two", "wss://two"}
              /\ \/ draft.tlsMode # "pinned" /\ draft.fingerprint = ""
                 \/ draft.tlsMode = "pinned" /\ Trim(draft.fingerprint) # ""
<1> DEFINE raw == Raw(was, given["shell"], Nothing)
           config == Load(was, given["shell"], Nothing)
<1>1. /\ was = Torn \/ FileSource(was)
      /\ EnvSource(given["shell"]) /\ FlagSource(Nothing)
  BY NothingGiven DEF SourcesFit
<1>2. PICK scheme \in {"http", "https"} :
          config # NoConfig /\ draft = Invited(config, scheme)
  BY DEF SavingInv
<1>3. /\ EnvParses(given["shell"]) /\ Acceptable(raw) /\ FileSource(was) /\ Fitting(raw)
      /\ config = Normalize(raw) /\ Normal(config)
  BY <1>1, <1>2, Loading
<1>4. document = Saved(draft)
  BY DEF SavingInv
<1> HIDE DEF raw, config
<1>5. /\ Normal(draft)
      /\ \A k \in Keys \ GatewayKeys : draft[k] = config[k]
      /\ draft.wsURL \in {"ws://two", "wss://two"}
      /\ \/ draft.tlsMode # "pinned" /\ draft.fingerprint = ""
         \/ draft.tlsMode = "pinned" /\ Trim(draft.fingerprint) # ""
  <2>1. InvitedFrom(config, draft)
    BY <1>2, <1>3, Inviting
  <2> QED
    BY <2>1 DEF InvitedFrom
<1> QED
  BY <1>1, <1>3, <1>4, <1>5 DEF raw, config

\* The lists of the file are loaded, normalised, invited, normalised again and
\* saved: their items are the same at every stage.
LEMMA KeepsLists == SourcesFit /\ SavingInv => ClaimKeepsLists
<1> SUFFICES ASSUME SourcesFit, SavingInv, claim = "done",
                    NEW k \in ListKeys, Gives(was, k), ~Gives(given["shell"], k)
             PROVE  \/ ToSet(NonBlank(was[k])) = {}
                    \/ /\ Gives(document, k)
                       /\ ToSet(document[k]) = ToSet(NonBlank(was[k]))
  BY DEF ClaimKeepsLists
<1> DEFINE raw == Raw(was, given["shell"], Nothing)
           config == Load(was, given["shell"], Nothing)
<1>1. /\ FileSource(was) /\ EnvSource(given["shell"]) /\ FlagSource(Nothing)
      /\ Fitting(raw) /\ config = Normalize(raw)
      /\ Normal(draft) /\ document = Saved(draft)
      /\ \A key \in Keys \ GatewayKeys : draft[key] = config[key]
  BY Claimed
<1>2. k \in Keys \ GatewayKeys /\ k \notin TextKeys
  BY EveryKey DEF ListKeys, GatewayKeys, TextKeys
<1>3. IsList(was[k]) /\ DOMAIN was \subseteq Keys
  BY <1>1 DEF FileSource, Fits, Gives
<1>4. CASE was[k] = <<>>
  <2>1. NonBlank(<<>>) = <<>>
    BY EmptyList, NonBlankItems
  <2> QED
    BY <1>4, <2>1, EmptyList
<1>5. CASE was[k] # <<>>
  <2>1. raw[k] = ApplyFile(was, Default)[k]
    <3>1. k \notin DOMAIN Nothing /\ k \notin EnvDecides(given["shell"])
      BY NothingGiven DEF Gives, EnvDecides
    <3> QED
      BY <1>1, <1>2, <3>1, RawFrom
  <2>2. raw[k] = was[k]
    <3> DEFINE lowest == ApplyFile(was, Default)
    <3>1. FromFileOrElse(was, Default, lowest)
      BY <1>3, FromFile
    <3> HIDE DEF lowest
    <3>2. lowest[k] = was[k]
      BY <1>5, <3>1 DEF FromFileOrElse, ListsOfFile, UpdateOfFile, ListKeys, UpdateKeys
    <3> QED
      BY <2>1, <3>2 DEF lowest
  <2> HIDE DEF raw, config
  <2>3. draft.enabled /\ draft.enabled = config.enabled
    <3>1. "enabled" \in Keys \ GatewayKeys
      BY EveryKey DEF GatewayKeys
    <3> QED
      BY <1>1, <3>1 DEF SavingInv
  <2>4. raw.enabled
    BY <1>1, <2>3, NormalizeFields
  <2>5. /\ config.methods = NormalMethods(raw.methods)
        /\ config.hints = Distinct(raw.hints)
        /\ config.command = NormalUpdate(raw).command
    BY <1>1, <2>4, NormalizeFields, NormalizeHost
  <2>6. NormalUpdate(raw).command = NonBlank(raw.command)
    <3>1. IsList(raw.command) /\ raw.timeout \in Int /\ raw.download \in BOOLEAN
      BY <1>1, EveryKey DEF Fitting, Fits, ListKeys
    <3> QED
      BY <3>1, NormalisedUpdate DEF UpdateFrom
  <2>7. ToSet(Distinct(was[k])) = ToSet(NonBlank(was[k]))
    BY <1>3, DistinctItems
  <2>8. draft[k] = config[k] /\ ToSet(config[k]) = ToSet(NonBlank(was[k]))
    BY <1>1, <1>2, <1>5, <2>2, <2>5, <2>6, <2>7 DEF ListKeys, NormalMethods
  <2>9. /\ \A key \in Keys \ DOMAIN Zero : Gives(document, key)
        /\ \A key \in DOMAIN Zero : Gives(document, key) <=> draft[key] # Zero[key]
        /\ \A key \in DOMAIN document : document[key] = draft[key]
    BY <1>1, Saving
  <2>10. Gives(document, k) \/ draft[k] = <<>>
    <3>1. "methods" \notin DOMAIN Zero /\ Zero.hints = <<>> /\ Zero.command = <<>>
      BY DEF Zero
    <3> QED
      BY <1>2, <2>9, <3>1 DEF ListKeys
  <2>11. CASE Gives(document, k)
    BY <2>8, <2>9, <2>11 DEF Gives
  <2>12. CASE draft[k] = <<>>
    BY <2>8, <2>12, EmptyList
  <2> QED
    BY <2>10, <2>11, <2>12
<1> QED
  BY <1>4, <1>5

\* A claim that succeeds writes back every item of the methods, hints and update
\* command that its file had, for lists of any length.
THEOREM ConfigClaimKeepsLists == ConfigSpec => []ClaimKeepsLists
BY ConfigInvariant, KeepsLists, PTL DEF ConfigInv

\* The saved file is loaded key by key, over the environment it was loaded under
\* in the first place: what the environment says, it said then.
LEMMA ReadsBack == SourcesFit /\ SavingInv => SavedConfigReadsBack
<1> DEFINE old    == Raw(was, given["shell"], Nothing)
           loaded == Load(was, given["shell"], Nothing)
           back   == ApplyFile(document, Default)
           new    == Raw(document, given["shell"], Nothing)
           config == Load(document, given["shell"], Nothing)
<1> SUFFICES ASSUME SourcesFit, SavingInv, claim = "saved"
             PROVE  /\ config # NoConfig
                    /\ \A k \in Keys :
                           \/ config[k] = draft[k]
                           \/ k \in GatewayKeys /\ Gives(given["shell"], k)
                           \/ k = "download" /\ draft.command # <<>> /\ config.download
  BY DEF SavedConfigReadsBack, Shell
<1>1. /\ FileSource(was) /\ EnvSource(given["shell"]) /\ FlagSource(Nothing)
      /\ EnvParses(given["shell"])
      /\ Fitting(old) /\ Acceptable(old)
      /\ loaded = Normalize(old) /\ Normal(loaded)
      /\ Normal(draft) /\ document = Saved(draft)
      /\ \A k \in Keys \ GatewayKeys : draft[k] = loaded[k]
  BY Claimed
<1>2. FileSource(document) /\ document # Torn
  BY <1>1, Saving
<1>3. /\ \A k \in Keys \ {"methods", "download"} : back[k] = draft[k]
      /\ draft.methods # <<>> => back.methods = draft.methods
      /\ \/ back.download = draft.download
         \/ draft.command # <<>> /\ back.download = TRUE
  BY <1>1, ReadingBack
<1>4. \A k \in Keys : IF k \in EnvDecides(given["shell"]) THEN new[k] = old[k]
                      ELSE new[k] = back[k]
  <2>1. DOMAIN Nothing = {}
    BY NothingGiven
  <2>2. \A k \in Keys :
            new[k] = IF k \in DOMAIN Nothing
                     THEN IF k \in TextKeys THEN Trim(Nothing[k]) ELSE Nothing[k]
                     ELSE IF k \in EnvDecides(given["shell"])
                     THEN IF k \in ListKeys THEN NonBlank(given["shell"][k])
                          ELSE given["shell"][k]
                     ELSE back[k]
    BY <1>1, <1>2, RawFrom
  <2>3. \A k \in Keys :
            old[k] = IF k \in DOMAIN Nothing
                     THEN IF k \in TextKeys THEN Trim(Nothing[k]) ELSE Nothing[k]
                     ELSE IF k \in EnvDecides(given["shell"])
                     THEN IF k \in ListKeys THEN NonBlank(given["shell"][k])
                          ELSE given["shell"][k]
                     ELSE ApplyFile(was, Default)[k]
    BY <1>1, RawFrom
  <2> HIDE DEF new, old, back
  <2> QED
    BY <2>1, <2>2, <2>3
<1>5. Fitting(new)
  BY <1>1, <1>2, RawFits
<1>6. config # NoConfig <=> Acceptable(new)
  BY <1>1, <1>2, Loading
<1>7. config # NoConfig => config = Normalize(new) /\ Normal(config)
  BY <1>1, <1>2, Loading
<1> HIDE DEF old, loaded, back, new, config
<1>8. /\ loaded.wsURL = old.wsURL /\ loaded.fingerprint = old.fingerprint
      /\ loaded.enabled = old.enabled
      /\ loaded.tlsMode = TLSMode(old)
      /\ loaded.displayName = OrElse(old.displayName, "hostname")
      /\ loaded.level = OrElse(Lower(old.level), "info")
      /\ loaded.heartbeat = Positive(old.heartbeat, 20)
      /\ loaded.methods = NormalHost(old).methods /\ loaded.hints = NormalHost(old).hints
      /\ loaded.command = NormalHost(old).update.command
      /\ loaded.root = NormalHost(old).update.root
      /\ loaded.download = NormalHost(old).update.download
      /\ loaded.timeout = NormalHost(old).update.timeout
  BY <1>1, NormalizeFields
<1>9. /\ draft.displayName = loaded.displayName /\ draft.level = loaded.level
      /\ draft.heartbeat = loaded.heartbeat /\ draft.enabled = loaded.enabled
      /\ draft.methods = loaded.methods /\ draft.hints = loaded.hints
      /\ draft.command = loaded.command /\ draft.root = loaded.root
      /\ draft.download = loaded.download /\ draft.timeout = loaded.timeout
  BY <1>1, EveryKey DEF GatewayKeys
<1>10. /\ new.tlsMode \in {old.tlsMode, draft.tlsMode}
       /\ new.displayName \in {old.displayName, draft.displayName}
       /\ new.level \in {old.level, draft.level}
       /\ new.heartbeat \in {old.heartbeat, draft.heartbeat}
       /\ new.enabled \in {old.enabled, draft.enabled}
       /\ new.methods = old.methods \/ new.methods = back.methods
       /\ new.hints = draft.hints
       /\ new.command \in {old.command, draft.command}
       /\ new.root \in {old.root, draft.root}
       /\ new.timeout \in {old.timeout, draft.timeout}
       /\ new.download = old.download \/ new.download = back.download
  <2>1. "hints" \notin EnvDecides(given["shell"])
    BY <1>1 DEF EnvSource, EnvDecides
  <2> QED
    BY <1>3, <1>4, <2>1, EveryKey
<1>11. /\ old.enabled \in BOOLEAN /\ new.enabled \in BOOLEAN
       /\ draft.enabled \in BOOLEAN /\ new.enabled = draft.enabled
  <2>1. old.enabled \in BOOLEAN
    BY <1>1, EveryKey DEF Fitting, Fits
  <2> QED
    BY <1>8, <1>9, <1>10, <2>1
<1>12. /\ TLSMode(draft) = draft.tlsMode
       /\ OrElse(draft.displayName, "hostname") = draft.displayName
       /\ OrElse(Lower(draft.level), "info") = draft.level
       /\ Positive(draft.heartbeat, 20) = draft.heartbeat
       /\ draft.enabled =>
              /\ NormalMethods(draft.methods) = draft.methods
              /\ Distinct(draft.hints) = draft.hints
              /\ NonBlank(draft.command) = draft.command
       /\ draft.command # <<>> =>
              /\ OrElse(draft.root, "tmp") = draft.root
              /\ Positive(draft.timeout, 600) = draft.timeout
  BY <1>1, NormalValues
<1>13. draft.enabled =>
           /\ loaded.methods = NormalMethods(old.methods)
           /\ loaded.hints = Distinct(old.hints)
           /\ loaded.command = NonBlank(old.command)
           /\ draft.methods # <<>> /\ ToSet(draft.methods) \subseteq ToSet(HostMethods)
  <2>1. IsList(old.command) /\ old.timeout \in Int /\ old.download \in BOOLEAN
    BY <1>1, EveryKey DEF Fitting, Fits, ListKeys
  <2>2. NormalUpdate(old).command = NonBlank(old.command)
    BY <2>1, NormalisedUpdate DEF UpdateFrom
  <2>3. draft.enabled =>
            /\ NormalHost(old).methods = NormalMethods(old.methods)
            /\ NormalHost(old).hints = Distinct(old.hints)
            /\ NormalHost(old).update = NormalUpdate(old)
    BY <1>1, <1>8, <1>9, NormalizeHost
  <2>4. draft.enabled => /\ draft.methods # <<>>
                         /\ ToSet(draft.methods) \subseteq ToSet(HostMethods)
    BY <1>1 DEF Normal
  <2> QED
    BY <1>8, <2>2, <2>3, <2>4
<1>14. draft.enabled => /\ NormalMethods(new.methods) = draft.methods
                        /\ Distinct(new.hints) = draft.hints
                        /\ NonBlank(new.command) = draft.command
  BY <1>3, <1>9, <1>10, <1>12, <1>13
<1>15. config # NoConfig
  <2>1. TLSMode(new) \in {"off", "system", "pinned"}
    <3>1. TLSMode(old) \in {"off", "system", "pinned"}
      BY <1>1, <1>11, AcceptableWhen
    <3>2. draft.tlsMode \in {"off", "system", "pinned"}
      BY <1>1 DEF Normal
    <3> QED
      BY <1>10, <1>12, <3>1, <3>2 DEF TLSMode
  <2>2. new.enabled => /\ NormalMethods(new.methods) # <<>>
                       /\ ToSet(NormalMethods(new.methods)) \subseteq ToSet(HostMethods)
    BY <1>11, <1>13, <1>14
  <2> QED
    BY <1>6, <1>11, <2>1, <2>2, AcceptableWhen
<1>16. /\ config.wsURL = new.wsURL /\ config.fingerprint = new.fingerprint
       /\ config.enabled = new.enabled
       /\ config.tlsMode = TLSMode(new)
       /\ config.displayName = OrElse(new.displayName, "hostname")
       /\ config.level = OrElse(Lower(new.level), "info")
       /\ config.heartbeat = Positive(new.heartbeat, 20)
       /\ config.methods = NormalHost(new).methods /\ config.hints = NormalHost(new).hints
       /\ config.command = NormalHost(new).update.command
       /\ config.root = NormalHost(new).update.root
       /\ config.download = NormalHost(new).update.download
       /\ config.timeout = NormalHost(new).update.timeout
  BY <1>7, <1>15, NormalizeFields
<1>17. \A k \in GatewayKeys : config[k] = draft[k] \/ Gives(given["shell"], k)
  <2> SUFFICES ASSUME NEW k \in GatewayKeys, ~Gives(given["shell"], k)
               PROVE  config[k] = draft[k]
    OBVIOUS
  <2>1. k \notin EnvDecides(given["shell"]) /\ k \in Keys \ {"methods", "download"}
    BY EveryKey DEF EnvDecides, Gives, GatewayKeys
  <2>2. new[k] = draft[k]
    BY <1>3, <1>4, <2>1
  <2> QED
    BY <1>12, <1>16, <2>2 DEF GatewayKeys, TLSMode
<1>18. /\ config.displayName = draft.displayName /\ config.level = draft.level
       /\ config.heartbeat = draft.heartbeat /\ config.enabled = draft.enabled
  <2>1. config.displayName = draft.displayName
    BY <1>8, <1>9, <1>10, <1>12, <1>16
  <2>2. config.level = draft.level
    BY <1>8, <1>9, <1>10, <1>12, <1>16
  <2>3. config.heartbeat = draft.heartbeat
    BY <1>8, <1>9, <1>10, <1>12, <1>16
  <2> QED
    BY <1>11, <1>16, <2>1, <2>2, <2>3
<1>19. /\ config.methods = draft.methods /\ config.hints = draft.hints
       /\ config.command = draft.command
       /\ draft.enabled => NormalHost(new).update = NormalUpdate(new)
  <2>1. CASE draft.enabled
    <3>1. IsList(new.command) /\ new.timeout \in Int /\ new.download \in BOOLEAN
      BY <1>5, EveryKey DEF Fitting, Fits, ListKeys
    <3>2. NormalUpdate(new).command = NonBlank(new.command)
      BY <3>1, NormalisedUpdate DEF UpdateFrom
    <3>3. /\ NormalHost(new).methods = NormalMethods(new.methods)
          /\ NormalHost(new).hints = Distinct(new.hints)
          /\ NormalHost(new).update = NormalUpdate(new)
      BY <1>5, <1>11, <2>1, NormalizeHost
    <3> QED
      BY <1>14, <1>16, <2>1, <3>2, <3>3
  <2>2. CASE ~draft.enabled
    <3>1. draft.methods = <<>> /\ draft.hints = <<>> /\ draft.command = <<>>
      BY <1>1, <2>2 DEF Normal
    <3>2. config.methods = <<>> /\ config.hints = <<>> /\ config.command = <<>>
      BY <1>7, <1>15, <1>18, <2>2 DEF Normal
    <3> QED
      BY <2>2, <3>1, <3>2
  <2> QED
    BY <2>1, <2>2
<1>20. /\ config.root = draft.root /\ config.timeout = draft.timeout
       /\ \/ config.download = draft.download
          \/ draft.command # <<>> /\ config.download = TRUE
  <2>1. CASE draft.command = <<>>
    <3>1. draft.root = "" /\ draft.download = FALSE /\ draft.timeout = 0
      BY <1>1, <2>1 DEF Normal
    <3>2. config.root = "" /\ config.download = FALSE /\ config.timeout = 0
      BY <1>7, <1>15, <1>19, <2>1 DEF Normal
    <3> QED
      BY <3>1, <3>2
  <2>2. CASE draft.command # <<>>
    <3>1. draft.enabled
      BY <1>1, <1>11, <2>2 DEF Normal
    <3>2. IsList(new.command) /\ new.timeout \in Int /\ new.download \in BOOLEAN
      BY <1>5, EveryKey DEF Fitting, Fits, ListKeys
    <3>3. IsList(old.command) /\ old.timeout \in Int /\ old.download \in BOOLEAN
      BY <1>1, EveryKey DEF Fitting, Fits, ListKeys
    <3>4. UpdateFrom(new, NormalUpdate(new)) /\ UpdateFrom(old, NormalUpdate(old))
      BY <3>2, <3>3, NormalisedUpdate
    <3>5. /\ NormalUpdate(new).command = draft.command
          /\ NormalUpdate(old).command = draft.command
      <4>1. /\ NormalUpdate(new).command = NonBlank(new.command)
            /\ NormalUpdate(old).command = NonBlank(old.command)
        BY ZenonT(100), <3>4 DEF UpdateFrom
      <4> QED
        BY <1>9, <1>13, <1>14, <3>1, <4>1
    <3>6. /\ NormalUpdate(new).root = OrElse(new.root, "tmp")
          /\ NormalUpdate(new).download = new.download
          /\ NormalUpdate(new).timeout = Positive(new.timeout, 600)
      BY ZenonT(100), <2>2, <3>4, <3>5 DEF UpdateFrom
    <3>7. /\ NormalUpdate(old).root = OrElse(old.root, "tmp")
          /\ NormalUpdate(old).download = old.download
          /\ NormalUpdate(old).timeout = Positive(old.timeout, 600)
      BY ZenonT(100), <2>2, <3>4, <3>5 DEF UpdateFrom
    <3>8. /\ loaded.root = OrElse(old.root, "tmp")
          /\ loaded.download = old.download
          /\ loaded.timeout = Positive(old.timeout, 600)
      <4>1. NormalHost(old).update = NormalUpdate(old)
        BY <1>1, <1>8, <1>9, <3>1, NormalizeHost
      <4> QED
        BY <1>8, <3>7, <4>1
    <3>9. /\ config.root = OrElse(new.root, "tmp")
          /\ config.download = new.download
          /\ config.timeout = Positive(new.timeout, 600)
      BY <1>16, <1>19, <3>1, <3>6
    <3>10. config.root = draft.root
      BY <1>9, <1>10, <1>12, <2>2, <3>8, <3>9
    <3>11. config.timeout = draft.timeout
      BY <1>9, <1>10, <1>12, <2>2, <3>8, <3>9
    <3>12. \/ config.download = draft.download
           \/ draft.command # <<>> /\ config.download = TRUE
      BY <1>3, <1>9, <1>10, <2>2, <3>8, <3>9
    <3> QED
      BY <3>10, <3>11, <3>12
  <2> QED
    BY <2>1, <2>2
<1>21. ASSUME NEW k \in Keys
       PROVE  \/ config[k] = draft[k]
              \/ k \in GatewayKeys /\ Gives(given["shell"], k)
              \/ k = "download" /\ draft.command # <<>> /\ config.download
  <2>1. CASE k \in GatewayKeys
    BY <1>17, <2>1
  <2>2. CASE k \in {"displayName", "level", "heartbeat", "enabled"}
    BY <1>18, <2>2
  <2>3. CASE k \in {"methods", "hints", "command"}
    BY <1>19, <2>3
  <2>4. CASE k \in {"root", "timeout"}
    BY <1>20, <2>4
  <2>5. CASE k = "download"
    BY <1>20, <2>5
  <2> QED
    BY <2>1, <2>2, <2>3, <2>4, <2>5, EveryKey DEF GatewayKeys
<1> QED
  BY <1>15, <1>21

\* Load undoes Save: the next command of the same shell finds the configuration
\* that the claim had, but for the gateway and the download of SavedConfigReadsBack.
THEOREM ConfigSavedConfigReadsBack == ConfigSpec => []SavedConfigReadsBack
BY ConfigInvariant, ReadsBack, PTL DEF ConfigInv

\* The daemon loads the saved file under another environment, so each key that a
\* start is checked for is followed from there to the draft or to its old value.
LEMMA HostStarts == SourcesFit /\ SavingInv => ClaimedHostStarts
<1> DEFINE service == given["service"]
           flags   == given["flags"]
           before  == Load(was, service, flags)
           old     == Raw(was, service, flags)
           back    == ApplyFile(document, Default)
           new     == Raw(document, service, flags)
           config  == Load(document, service, flags)
<1> SUFFICES ASSUME SourcesFit, SavingInv, claim = "done",
                    ValidForRun(before) \/ (service = Nothing /\ flags = Nothing),
                    draft.level \in LogLevels, ~Spoilt
             PROVE  ValidForRun(config)
  BY DEF ClaimedHostStarts, Startable
<1>1. /\ FileSource(was) /\ Normal(draft) /\ document = Saved(draft)
      /\ draft.wsURL \in {"ws://two", "wss://two"}
      /\ \/ draft.tlsMode # "pinned" /\ draft.fingerprint = ""
         \/ draft.tlsMode = "pinned" /\ Trim(draft.fingerprint) # ""
  BY Claimed
<1>2. draft.enabled
  BY DEF SavingInv
<1>3. FileSource(document) /\ document # Torn
  BY <1>1, Saving
<1>4. /\ EnvSource(service) /\ FlagSource(flags)
  BY DEF SourcesFit
<1>5. /\ \A k \in Keys \ {"methods", "download"} : back[k] = draft[k]
      /\ draft.methods # <<>> => back.methods = draft.methods
  BY <1>1, ReadingBack
<1>6. draft.methods # <<>> /\ ToSet(draft.methods) \subseteq ToSet(HostMethods)
  BY <1>1, <1>2 DEF Normal
<1>7. before # NoConfig =>
          EnvParses(service) /\ Acceptable(old) /\ before = Normalize(old)
  BY <1>1, <1>4, Loading
<1>8. ValidForRun(before) => before # NoConfig
  BY DEF ValidForRun
<1>9. EnvParses(service)
  BY <1>7, <1>8, NothingGiven
<1>10. /\ Fitting(new)
       /\ config # NoConfig <=> Acceptable(new)
       /\ config # NoConfig => config = Normalize(new)
  BY <1>3, <1>4, <1>9, Loading, RawFits
<1> HIDE DEF before, config
\* The value of each key is what one of the sources says, or what was saved.
<1>11. \A k \in Keys :
           new[k] = IF k \in DOMAIN flags
                    THEN IF k \in TextKeys THEN Trim(flags[k]) ELSE flags[k]
                    ELSE IF k \in EnvDecides(service)
                    THEN IF k \in ListKeys THEN NonBlank(service[k]) ELSE service[k]
                    ELSE back[k]
  BY <1>3, <1>4, RawFrom
<1>12. \A k \in Keys :
           old[k] = IF k \in DOMAIN flags
                    THEN IF k \in TextKeys THEN Trim(flags[k]) ELSE flags[k]
                    ELSE IF k \in EnvDecides(service)
                    THEN IF k \in ListKeys THEN NonBlank(service[k]) ELSE service[k]
                    ELSE ApplyFile(was, Default)[k]
  <2>1. FileSource(was)
    BY <1>1
  <2> QED
    BY <1>4, <2>1, RawFrom
<1> HIDE DEF old, new, back
<1>13. \A k \in Keys : \/ new[k] = back[k]
                       \/ ValidForRun(before) /\ new[k] = old[k]
  <2>1. CASE ValidForRun(before)
    BY <1>11, <1>12, <2>1
  <2>2. CASE service = Nothing /\ flags = Nothing
    BY <1>11, <2>2, NothingGiven
  <2> QED
    BY <2>1, <2>2
<1>14. /\ TLSMode(draft) = draft.tlsMode
       /\ OrElse(Lower(draft.level), "info") = draft.level
       /\ NormalMethods(draft.methods) = draft.methods
  BY ZenonT(100), <1>1, <1>2, NormalValues
<1>15. ValidForRun(before) =>
           /\ before.wsURL = old.wsURL
           /\ before.level = OrElse(Lower(old.level), "info")
           /\ TLSMode(old) \in {"off", "system", "pinned"}
  <2>1. Acceptable(old) => TLSMode(old) \in {"off", "system", "pinned"}
    BY DEF Acceptable
  <2> QED
    BY <1>7, <1>8, <2>1, NormalizeFields
<1>16. config # NoConfig
  <2>1. new.enabled \in BOOLEAN /\ IsList(new.methods)
    BY <1>10, EveryKey DEF Fitting, Fits, ListKeys
  <2>2. TLSMode(new) \in {"off", "system", "pinned"}
    <3>1. new.tlsMode = draft.tlsMode \/ (ValidForRun(before) /\ new.tlsMode = old.tlsMode)
      BY <1>5, <1>13, EveryKey
    <3>2. draft.tlsMode \in {"off", "system", "pinned"}
      BY <1>1 DEF Normal
    <3> QED
      BY <1>14, <1>15, <3>1, <3>2 DEF TLSMode
  <2>3. NormalMethods(new.methods) # <<>>
        /\ ToSet(NormalMethods(new.methods)) \subseteq ToSet(HostMethods)
    <3>1. "methods" \notin DOMAIN flags /\ "methods" \in Keys /\ "methods" \in ListKeys
      BY <1>4, EveryKey DEF FlagSource, FlagKeys, TextKeys, ListKeys
    <3>2. CASE "methods" \in EnvDecides(service)
      <4>1. Gives(service, "methods") /\ new.methods = NonBlank(service.methods)
        BY <1>11, <3>1, <3>2 DEF EnvDecides, Gives
      <4>2. IsList(service.methods)
        BY <1>4, <1>9, <3>1, <4>1 DEF EnvSource, EnvParses, Gives, Fits
      <4>3. ToSet(NonBlank(service.methods)) \subseteq ToSet(HostMethods)
        BY <4>1 DEF Spoilt
      <4> QED
        BY <4>1, <4>2, <4>3, MethodsOfEnv
    <3>3. CASE "methods" \notin EnvDecides(service)
      <4>1. new.methods = draft.methods
        BY <1>5, <1>6, <1>11, <3>1, <3>3
      <4> QED
        BY <1>6, <1>14, <4>1
    <3> QED
      BY <3>2, <3>3
  <2> QED
    BY <1>10, <2>1, <2>2, <2>3, AcceptableWhen
<1>17. /\ config.wsURL = new.wsURL /\ config.fingerprint = new.fingerprint
       /\ config.tlsMode = TLSMode(new)
       /\ config.level = OrElse(Lower(new.level), "info")
  BY <1>10, <1>16, NormalizeFields
<1>18. Trim(config.wsURL) \in GatewayURLs
  <2>1. new.wsURL = draft.wsURL \/ (ValidForRun(before) /\ new.wsURL = old.wsURL)
    BY <1>5, <1>13, EveryKey
  <2>2. Trim(draft.wsURL) \in GatewayURLs
    BY <1>1 DEF Trim, Blank, GatewayURLs
  <2>3. ValidForRun(before) => Trim(before.wsURL) \in GatewayURLs
    BY DEF ValidForRun
  <2> QED
    BY <1>15, <1>17, <2>1, <2>2, <2>3
<1>19. config.level \in LogLevels
  <2>1. new.level = draft.level \/ (ValidForRun(before) /\ new.level = old.level)
    BY <1>5, <1>13, EveryKey
  <2>2. ValidForRun(before) => before.level \in LogLevels
    BY DEF ValidForRun
  <2> QED
    BY <1>14, <1>15, <1>17, <2>1, <2>2
<1>20. ASSUME config.tlsMode = "pinned" PROVE Trim(config.fingerprint) # ""
  <2>1. new.tlsMode = "pinned"
    BY <1>17, <1>20, PinnedMeans
  <2>2. /\ "tlsMode" \in Keys /\ "tlsMode" \in TextKeys /\ "tlsMode" \notin ListKeys
        /\ "fingerprint" \in Keys /\ "fingerprint" \in TextKeys
        /\ "fingerprint" \notin ListKeys
        /\ back.tlsMode = draft.tlsMode /\ back.fingerprint = draft.fingerprint
    BY <1>5, EveryKey DEF TextKeys, ListKeys
  <2>3. \/ Gives(flags, "tlsMode") /\ flags.tlsMode = "pinned"
        \/ Gives(service, "tlsMode") /\ service.tlsMode = "pinned"
        \/ draft.tlsMode = "pinned"
    BY <1>11, <2>1, <2>2, PinnedMeans DEF Gives, EnvDecides
  <2>4. draft.tlsMode = "pinned" /\ Trim(draft.fingerprint) # ""
    BY <1>1, <2>3 DEF Spoilt
  <2>5. CASE Gives(flags, "fingerprint")
    <3>1. Trim(flags.fingerprint) # ""
      BY <2>4, <2>5 DEF Spoilt
    <3>2. new.fingerprint = Trim(flags.fingerprint)
      BY <1>11, <2>2, <2>5 DEF Gives
    <3> QED
      BY <1>17, <3>1, <3>2, Trimming
  <2>6. CASE ~Gives(flags, "fingerprint") /\ "fingerprint" \in EnvDecides(service)
    <3>1. new.fingerprint = service.fingerprint
      BY <1>11, <2>2, <2>6 DEF Gives
    <3>2. Trim(service.fingerprint) # ""
      BY <2>2, <2>6 DEF EnvDecides
    <3> QED
      BY <1>17, <3>1, <3>2
  <2>7. CASE ~Gives(flags, "fingerprint") /\ "fingerprint" \notin EnvDecides(service)
    BY <1>11, <1>17, <2>2, <2>4, <2>7 DEF Gives
  <2> QED
    BY <2>5, <2>6, <2>7
<1> QED
  BY <1>16, <1>18, <1>19, <1>20 DEF ValidForRun

\* A claim that succeeds does not break a daemon that started: with the file it
\* saved, Load and ValidForRun accept, but for the exceptions ClaimedHostStarts names.
THEOREM ConfigClaimedHostStarts == ConfigSpec => []ClaimedHostStarts
BY ConfigInvariant, HostStarts, PTL DEF ConfigInv
=============================================================================
