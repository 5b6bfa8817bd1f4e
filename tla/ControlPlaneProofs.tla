------------------------ MODULE ControlPlaneProofs ------------------------
(***************************************************************************)
(* Proofs about the ways into a host, for any daemons and commands: a      *)
(* daemon that runs alone keeps its socket, and a change made through the  *)
(* socket is adopted or owed and is not undone.                            *)
(***************************************************************************)
EXTENDS ControlPlane, FiniteSetTheorems, TLAPS

Written == {c \in Commands : rank[c] > 0}

\* Two daemons that live know of each other through the history.
Alone == \A d, e \in Daemons : d # e /\ Live(d) /\ Live(e) => d \in overlapped

\* A listener belongs to a daemon past its start and not yet closed, and the
\* loop has not begun before the start is over.
Stages ==
    \A d \in Daemons :
        /\ d \in listening => life[d] \in {"running", "stopping"}
        /\ life[d] \in {"off", "stale", "listen"} => loop[d] = "load"

\* A command changes the file once at most, and before it has, nobody holds
\* its token.
OnceAtMost ==
    \A c \in Commands :
        /\ pc[c] \in {"todo", "write"} => job[c] = "none" /\ rank[c] = 0
        /\ job[c] = "queued" => rank[c] = 0
        /\ job[c] # "none" => server[c] \in Daemons
        /\ rank[c] <= Cardinality(Written)
        /\ rank[c] = 0 => /\ author[c] = NoDaemon
                          /\ file # c
                          /\ \A d \in Daemons : copy[d] # c

BaseInv == ControlTypeOK /\ Alone /\ Stages /\ OnceAtMost

\* If t was put there through daemon d, then d uses it or owes a load.
Adopted(d, t) ==
    \A c \in Commands :
        t = c /\ author[c] = d /\ job[c] # "unsynced" => loaded[d] = c \/ Owed(d)

\* What a save of the loop is about to write is adopted as well.
AdoptionInv ==
    \A d \in Daemons \ overlapped :
        life[d] # "dead" =>
            /\ Adopted(d, file)
            /\ loop[d] = "saving" => Adopted(d, copy[d])

\* No change made through the socket of a lone daemon is later than t.
Latest(t) ==
    \A c \in Commands : author[c] \in Daemons \ overlapped => rank[t] >= rank[c]

\* What the loop has read and is about to write back is as late as the file.
OrderInv ==
    /\ Latest(file)
    /\ \A d \in Daemons :
          Looping(d) /\ loop[d] \in {"loading", "saving"} => Latest(copy[d])

ControlInv == BaseInv /\ AdoptionInv /\ OrderInv /\ ReachableUnlessOverlapped

-----------------------------------------------------------------------------
(* Ranks *)

\* A change is ranked above all before it.
LEMMA WriteRanks ==
  ASSUME BaseInv, NEW c \in Commands, NEW by, Write(c, by), rank[c] = 0
  PROVE  /\ Cardinality(Written) \in Nat
         /\ Cardinality(Written') = Cardinality(Written) + 1
         /\ Cardinality(Written') <= Cardinality(Commands)
         /\ rank' = [rank EXCEPT ![c] = 1 + Cardinality(Written)]
  <1> USE DEF BaseInv, ControlTypeOK
  <1>1. IsFiniteSet(Commands) /\ Cardinality(Commands) \in Nat /\ NoCommand \notin Commands
    BY ControlAssumption, FS_CardinalityType
  <1>2. IsFiniteSet(Written) /\ Cardinality(Written) \in Nat
    BY <1>1, FS_Subset, FS_CardinalityType DEF Written
  <1>3. rank' = [rank EXCEPT ![c] = 1 + Cardinality(Written)]
    BY DEF Write, Written
  <1>4. \A x \in Commands : rank'[x] = IF x = c THEN 1 + Cardinality(Written) ELSE rank[x]
    BY <1>3 DEF Token
  <1>5. Written' = Written \cup {c} /\ c \notin Written
    <2>1. 1 + Cardinality(Written) > 0
      BY <1>2
    <2> HIDE DEF BaseInv, ControlTypeOK
    <2> QED
      BY <2>1, <1>4 DEF Written
  <1>6. Cardinality(Written') = Cardinality(Written) + 1
    BY <1>2, <1>5, FS_AddElement
  <1>7. Cardinality(Written') <= Cardinality(Commands)
    BY <1>1, <1>5, FS_Subset DEF Written
  <1> QED
    BY <1>2, <1>3, <1>6, <1>7

\* What the type invariant needs of a change: its rank is one of the ranks.
LEMMA WriteType ==
  ASSUME BaseInv, NEW c \in Commands, NEW by \in Daemons \cup {NoDaemon},
         Write(c, by), rank[c] = 0
  PROVE  /\ file' \in Token
         /\ author' \in [Commands -> Daemons \cup {NoDaemon}]
         /\ rank' \in [Token -> 0 .. Cardinality(Commands)]
  <1>1. Cardinality(Commands) \in Nat
    BY ControlAssumption, FS_CardinalityType
  <1>2. 1 + Cardinality(Written) \in 0 .. Cardinality(Commands)
    BY <1>1, WriteRanks
  <1> QED
    BY ZenonT(100), <1>2, WriteRanks DEF BaseInv, ControlTypeOK, Write, Token

-----------------------------------------------------------------------------
(* Types, daemons and their sockets *)

LEMMA InitControl == Init => ControlInv
  <1> SUFFICES ASSUME Init PROVE ControlInv
    OBVIOUS
  <1>1. Cardinality(Commands) \in Nat /\ NoCommand \notin Commands /\ NoDaemon \notin Daemons
    BY ControlAssumption, FS_CardinalityType
  <1>2. Written = {} /\ Cardinality(Written) = 0
    <2>1. Written = {}
      BY DEF Init, Written, Token
    <2> QED
      BY <2>1, FS_EmptySet
  <1>3. ControlTypeOK
    BY <1>1 DEF Init, ControlTypeOK, Token, Ends
  <1>4. Alone /\ Stages
    BY DEF Init, Alone, Stages, Live
  <1>5. OnceAtMost
    BY <1>1, <1>2 DEF Init, OnceAtMost, Token
  <1>6. AdoptionInv
    BY <1>1 DEF Init, AdoptionInv, Adopted
  <1>7. OrderInv
    BY <1>1 DEF Init, OrderInv, Latest, Looping, Token
  <1>8. ReachableUnlessOverlapped
    BY DEF Init, ReachableUnlessOverlapped
  <1> QED
    BY <1>3, <1>4, <1>5, <1>6, <1>7, <1>8 DEF ControlInv, BaseInv

\* A step of the life of a daemon changes its own stage, its socket and, with
\* its start, the history; a step of its loop reads or writes the file.
LifeOf(d) ==
    \/ Start(d) \/ RemoveStale(d) \/ Listen(d) \/ ListenFails(d)
    \/ Stop(d) \/ CloseListener(d) \/ RemovePath(d) \/ Die(d)

LoopOf(d) ==
    LoadReads(d) \/ LoadWrites(d) \/ Reconnect(d) \/ SaveReads(d) \/ SaveWrites(d)

LEMMA LifeBase ==
  ASSUME BaseInv, NEW d \in Daemons, LifeOf(d)
  PROVE  BaseInv'
  <1> USE DEF BaseInv, loopVars, commandVars, fileVars, Becomes
  <1>1. UNCHANGED <<loopVars, commandVars, fileVars>>
    BY DEF LifeOf, Start, RemoveStale, Listen, ListenFails, Stop, CloseListener,
           RemovePath, Die
  <1>2. ControlTypeOK' /\ Alone' /\ Stages'
    <2> USE <1>1 DEF ControlTypeOK, Alone, Stages, Live
    <2>1. CASE Start(d)
      BY <2>1 DEF Start
    <2>2. CASE RemoveStale(d)
      BY <2>2 DEF RemoveStale
    <2>3. CASE Listen(d)
      BY <2>3 DEF Listen
    <2>4. CASE ListenFails(d)
      BY <2>4 DEF ListenFails
    <2>5. CASE Stop(d)
      BY <2>5 DEF Stop
    <2>6. CASE CloseListener(d)
      BY <2>6 DEF CloseListener
    <2>7. CASE RemovePath(d)
      BY <2>7 DEF RemovePath
    <2>8. CASE Die(d)
      BY <2>8 DEF Die
    <2> QED
      BY <2>1, <2>2, <2>3, <2>4, <2>5, <2>6, <2>7, <2>8 DEF LifeOf
  <1>3. OnceAtMost'
    BY <1>1 DEF OnceAtMost, Written
  <1> QED
    BY <1>2, <1>3

LEMMA LoopBase ==
  ASSUME BaseInv, NEW d \in Daemons, LoopOf(d)
  PROVE  BaseInv'
  <1> USE DEF BaseInv, daemonVars, commandVars, fileVars, Reads, Writes
  <1>1. UNCHANGED <<daemonVars, commandVars, author, rank>>
    BY DEF LoopOf, LoadReads, LoadWrites, Reconnect, SaveReads, SaveWrites
  <1>2. ControlTypeOK' /\ Stages'
    <2> USE <1>1 DEF ControlTypeOK, Stages, Looping
    <2>1. CASE LoadReads(d)
      BY <2>1 DEF LoadReads
    <2>2. CASE LoadWrites(d)
      BY <2>2 DEF LoadWrites
    <2>3. CASE Reconnect(d)
      BY ZenonT(100), <2>3 DEF Reconnect
    <2>4. CASE SaveReads(d)
      BY <2>4 DEF SaveReads
    <2>5. CASE SaveWrites(d)
      BY <2>5 DEF SaveWrites
    <2> QED
      BY <2>1, <2>2, <2>3, <2>4, <2>5 DEF LoopOf
  <1>3. /\ file' \in {file} \cup {copy[x] : x \in Daemons}
        /\ \A x \in Daemons : copy'[x] \in {file, copy[x]}
    BY DEF LoopOf, LoadReads, LoadWrites, Reconnect, SaveReads, SaveWrites, ControlTypeOK
  <1>4. Alone' /\ OnceAtMost'
    BY <1>1, <1>3 DEF Alone, Live, OnceAtMost, Written
  <1> QED
    BY <1>2, <1>4

\* A change reaches the file: the change of the command that had none so far.
LEMMA WriteOnce ==
  ASSUME BaseInv, NEW c \in Commands, NEW by, Write(c, by), rank[c] = 0,
         UNCHANGED copy,
         pc'[c] \notin {"todo", "write"}, job'[c] # "queued",
         job'[c] # "none" => server[c] \in Daemons, UNCHANGED server,
         \A x \in Commands \ {c} : pc'[x] = pc[x] /\ job'[x] = job[x]
  PROVE  OnceAtMost'
  <1>1. /\ Cardinality(Written) \in Nat
        /\ Cardinality(Written') = Cardinality(Written) + 1
        /\ rank' = [rank EXCEPT ![c] = 1 + Cardinality(Written)]
    BY WriteRanks
  <1>2. \A x \in Commands : rank[x] \in Int /\ c \in Token /\ x \in Token
    BY DEF BaseInv, ControlTypeOK, Token
  <1>3. rank'[c] <= Cardinality(Written') /\ rank'[c] # 0
    BY <1>1, <1>2 DEF BaseInv, ControlTypeOK
  <1>4. ASSUME NEW x \in Commands \ {c}
        PROVE  /\ rank'[x] = rank[x] /\ rank[x] <= Cardinality(Written')
               /\ author'[x] = author[x] /\ file' # x
    BY <1>1, <1>2 DEF BaseInv, ControlTypeOK, OnceAtMost, Write
  <1> QED
    BY <1>3, <1>4 DEF BaseInv, OnceAtMost

LEMMA CommandBase ==
  ASSUME BaseInv, NEW c \in Commands, CommandStep(c)
  PROVE  BaseInv'
  <1> USE DEF BaseInv, daemonVars, loopVars, fileVars, Step
  <1>n. NoDaemon \notin Daemons /\ NoCommand \notin Commands
    BY ControlAssumption
  <1>1. UNCHANGED <<daemonVars, loop, loaded, copy>>
    BY DEF CommandStep, Connect, Unavailable, Refused, Direct, WriteFile, HandlerSaves,
           HandlerSignals, HandlerFails, Answered, GivesUp, loopVars
  <1>2. Alone' /\ Stages'
    BY <1>1 DEF Alone, Stages, Live
  <1>3. CASE Connect(c)
    <2>1. ControlTypeOK' /\ Written' = Written
      BY <1>3 DEF Connect, ControlTypeOK, Written
    <2> QED
      BY <1>2, <1>3, <2>1 DEF Connect, OnceAtMost, ControlTypeOK
  <1>4. CASE Unavailable(c) \/ Refused(c) \/ Direct(c) \/ Answered(c) \/ GivesUp(c)
    <2>1. ControlTypeOK' /\ Written' = Written
      BY <1>4 DEF Unavailable, Refused, Direct, Answered, GivesUp, ControlTypeOK, Written, Ends
    <2> QED
      BY <1>2, <1>4, <2>1
      DEF Unavailable, Refused, Direct, Answered, GivesUp, OnceAtMost, ControlTypeOK
  <1>5. CASE WriteFile(c)
    <2>1. Write(c, NoDaemon) /\ rank[c] = 0 /\ job[c] = "none"
      BY <1>5 DEF WriteFile, OnceAtMost
    <2>2. ControlTypeOK'
      BY <1>5, <2>1, WriteType DEF WriteFile, ControlTypeOK, Ends
    <2>3. OnceAtMost'
      BY <1>5, <2>1, WriteOnce DEF WriteFile, ControlTypeOK
    <2> QED
      BY <1>2, <2>2, <2>3
  <1>6. CASE HandlerSaves(c)
    <2>1. Write(c, server[c]) /\ rank[c] = 0 /\ server[c] \in Daemons /\ pc[c] \notin {"todo", "write"}
      BY <1>6 DEF HandlerSaves, OnceAtMost
    <2>2. ControlTypeOK'
      BY <1>6, <2>1, WriteType DEF HandlerSaves, ControlTypeOK
    <2>3. OnceAtMost'
      BY <1>6, <2>1, WriteOnce DEF HandlerSaves, ControlTypeOK
    <2> QED
      BY <1>2, <2>2, <2>3
  <1>7. CASE HandlerSignals(c)
    <2>1. ControlTypeOK' /\ Written' = Written
      BY <1>7 DEF HandlerSignals, ControlTypeOK, Written
    <2> QED
      BY <1>2, <1>7, <2>1 DEF HandlerSignals, OnceAtMost, ControlTypeOK
  <1>8. CASE HandlerFails(c)
    <2>1. rank[c] = 0 /\ server[c] \in Daemons /\ pc' = [pc EXCEPT ![c] = "failed"]
      BY <1>8 DEF HandlerFails, OnceAtMost
    <2>2. CASE job' = [job EXCEPT ![c] = "none"] /\ UNCHANGED fileVars
      <3>1. ControlTypeOK' /\ Written' = Written
        BY <1>1, <1>8, <2>1, <2>2 DEF HandlerFails, ControlTypeOK, Written, Ends, loopVars
      <3> QED
        BY <1>2, <1>8, <2>1, <2>2, <3>1 DEF HandlerFails, OnceAtMost, ControlTypeOK
    <2>3. CASE job' = [job EXCEPT ![c] = "unsynced"] /\ Write(c, server[c])
      <3>1. ControlTypeOK'
        BY <1>8, <2>1, <2>3, WriteType DEF HandlerFails, ControlTypeOK, Ends
      <3>2. OnceAtMost'
        BY <1>8, <2>1, <2>3, WriteOnce DEF HandlerFails, ControlTypeOK
      <3> QED
        BY <1>2, <3>1, <3>2
    <2> QED
      BY <1>8, <2>2, <2>3 DEF HandlerFails
  <1> QED
    BY <1>3, <1>4, <1>5, <1>6, <1>7, <1>8 DEF CommandStep

LEMMA BaseStep ==
  ASSUME BaseInv, [Next]_vars
  PROVE  BaseInv'
  <1>1. CASE UNCHANGED vars
    <2>1. Written' = Written /\ ControlTypeOK' /\ Alone' /\ Stages'
      BY <1>1 DEF vars, BaseInv, ControlTypeOK, Alone, Stages, Written, Live
    <2> QED
      BY <1>1, <2>1 DEF vars, BaseInv, OnceAtMost
  <1>2. ASSUME NEW d \in Daemons, DaemonStep(d)
        PROVE  BaseInv'
    BY <1>2, LifeBase, LoopBase DEF DaemonStep, LifeOf, LoopOf
  <1>3. ASSUME NEW c \in Commands, CommandStep(c)
        PROVE  BaseInv'
    BY <1>3, CommandBase
  <1> QED
    BY <1>1, <1>2, <1>3 DEF Next

-----------------------------------------------------------------------------
(* A change is adopted or owed *)

LEMMA LifeAdoption ==
  ASSUME BaseInv, AdoptionInv, NEW d \in Daemons, LifeOf(d)
  PROVE  AdoptionInv'
  <1>1. UNCHANGED <<loop, loaded, copy, signal, server, job, file, author>>
    BY DEF LifeOf, Start, RemoveStale, Listen, ListenFails, Stop, CloseListener,
           RemovePath, Die, loopVars, commandVars, fileVars
  <1>2. /\ overlapped \subseteq overlapped'
        /\ \A e \in Daemons : life[e] = "dead" => life'[e] = "dead"
    BY DEF LifeOf, Start, RemoveStale, Listen, ListenFails, Stop, CloseListener,
           RemovePath, Die, Becomes, Live, BaseInv, ControlTypeOK
  <1> QED
    BY <1>1, <1>2 DEF AdoptionInv, Adopted, Owed

\* Only a lone daemon's own loop is of interest: with another one beside it,
\* it is in the history, and before its start it owes a load.
LEMMA LoopAdoption ==
  ASSUME BaseInv, AdoptionInv, NEW d \in Daemons, LoopOf(d)
  PROVE  AdoptionInv'
  <1> USE DEF BaseInv, daemonVars, commandVars, fileVars, Reads, Writes
  <1>1. UNCHANGED <<life, overlapped, server, job, author>>
    BY DEF LoopOf, LoadReads, LoadWrites, Reconnect, SaveReads, SaveWrites
  <1>2. Looping(d)
    BY DEF LoopOf, LoadReads, LoadWrites, Reconnect, SaveReads, SaveWrites
  <1>3. ASSUME NEW e \in Daemons \ overlapped, life[e] # "dead", e # d
        PROVE  /\ Adopted(e, file)'
               /\ loop'[e] = "saving" => Adopted(e, copy[e])'
    <2>1. loop[e] = "load"
      BY <1>2, <1>3 DEF Alone, Stages, Live, Looping, ControlTypeOK
    <2>2. loop'[e] = "load"
      BY <1>3, <2>1 DEF LoopOf, LoadReads, LoadWrites, Reconnect, SaveReads, SaveWrites,
                        ControlTypeOK
    <2> QED
      BY <2>2 DEF Adopted, Owed
  <1>4. ASSUME d \notin overlapped
        PROVE  /\ Adopted(d, file)'
               /\ loop'[d] = "saving" => Adopted(d, copy[d])'
    <2>1. Adopted(d, file) /\ (loop[d] = "saving" => Adopted(d, copy[d]))
      BY <1>2, <1>4 DEF AdoptionInv, Looping
    <2> USE <1>1, <2>1 DEF Adopted, Owed, ControlTypeOK
    <2>2. CASE LoadReads(d)
      BY <2>2 DEF LoadReads
    <2>3. CASE LoadWrites(d)
      BY <2>3 DEF LoadWrites
    <2>4. CASE Reconnect(d)
      BY <2>4 DEF Reconnect
    <2>5. CASE SaveReads(d)
      BY <2>5 DEF SaveReads
    <2>6. CASE SaveWrites(d)
      BY <2>6 DEF SaveWrites
    <2> QED
      BY <2>2, <2>3, <2>4, <2>5, <2>6 DEF LoopOf
  <1> QED
    BY <1>1, <1>3, <1>4 DEF AdoptionInv

LEMMA CommandAdoption ==
  ASSUME BaseInv, AdoptionInv, NEW c \in Commands, CommandStep(c)
  PROVE  AdoptionInv'
  <1> USE DEF BaseInv, daemonVars, loopVars, fileVars, Step
  <1>n. NoDaemon \notin Daemons /\ NoCommand \notin Commands
    BY ControlAssumption
  <1>1. UNCHANGED <<life, overlapped, loop, loaded, copy>>
    BY DEF CommandStep, Connect, Unavailable, Refused, Direct, WriteFile, HandlerSaves,
           HandlerSignals, HandlerFails, Answered, GivesUp
  <1>2. CASE Connect(c) \/ Unavailable(c) \/ Refused(c) \/ Direct(c) \/ Answered(c) \/ GivesUp(c)
    <2>1. UNCHANGED <<signal, file, author>>
      BY <1>2 DEF Connect, Unavailable, Refused, Direct, Answered, GivesUp
    <2>2. \A x \in Commands :
             \/ job'[x] = job[x] /\ server'[x] = server[x]
             \/ job[x] = "none" /\ author[x] = NoDaemon
      BY <1>2 DEF Connect, Unavailable, Refused, Direct, Answered, GivesUp, OnceAtMost, ControlTypeOK
    <2> QED
      BY <1>n, <1>1, <2>1, <2>2 DEF AdoptionInv, Adopted, Owed
  <1>3. CASE WriteFile(c)
    <2>1. rank[c] = 0 /\ UNCHANGED <<signal, server, job>>
      BY <1>3 DEF WriteFile, OnceAtMost
    <2>2. file' = c /\ author' = [author EXCEPT ![c] = NoDaemon]
      BY <1>3 DEF WriteFile, Write
    <2> QED
      BY <1>n, <1>1, <2>1, <2>2 DEF AdoptionInv, Adopted, Owed, OnceAtMost, ControlTypeOK
  <1>4. CASE HandlerSaves(c)
    <2>1. /\ rank[c] = 0 /\ server[c] \in Daemons /\ UNCHANGED <<signal, server>>
          /\ job[c] = "queued" /\ job' = [job EXCEPT ![c] = "saved"]
          /\ loop[server[c]] # "saving"
      BY <1>4 DEF HandlerSaves, OnceAtMost
    <2>2. file' = c /\ author' = [author EXCEPT ![c] = server[c]]
      BY <1>4 DEF HandlerSaves, Write
    <2> QED
      BY <1>n, <1>1, <2>1, <2>2 DEF AdoptionInv, Adopted, Owed, OnceAtMost, ControlTypeOK
  <1>5. CASE HandlerSignals(c)
    <2>1. /\ UNCHANGED <<server, file, author>> /\ job[c] = "saved" /\ server[c] \in Daemons
          /\ job' = [job EXCEPT ![c] = "signalled"]
          /\ signal' = [signal EXCEPT ![server[c]] = TRUE]
      BY <1>5 DEF HandlerSignals, OnceAtMost
    <2> QED
      BY <1>1, <2>1 DEF AdoptionInv, Adopted, Owed, ControlTypeOK
  <1>6. CASE HandlerFails(c)
    <2>1. rank[c] = 0 /\ job[c] = "queued" /\ UNCHANGED <<signal, server>>
      BY <1>6 DEF HandlerFails, OnceAtMost
    <2>2. CASE job' = [job EXCEPT ![c] = "none"] /\ UNCHANGED fileVars
      BY <1>n, <1>1, <2>1, <2>2 DEF AdoptionInv, Adopted, Owed, OnceAtMost, ControlTypeOK
    <2>3. CASE job' = [job EXCEPT ![c] = "unsynced"] /\ Write(c, server[c])
      BY <1>n, <1>1, <2>1, <2>3 DEF AdoptionInv, Adopted, Owed, OnceAtMost, ControlTypeOK, Write
    <2> QED
      BY <1>6, <2>2, <2>3 DEF HandlerFails
  <1> QED
    BY <1>2, <1>3, <1>4, <1>5, <1>6 DEF CommandStep

-----------------------------------------------------------------------------
(* A change through the socket is not undone *)

LEMMA LifeOrder ==
  ASSUME BaseInv, OrderInv, NEW d \in Daemons, LifeOf(d)
  PROVE  OrderInv'
  <1> USE DEF BaseInv
  <1>1. UNCHANGED <<loop, copy, file, author, rank>>
    BY DEF LifeOf, Start, RemoveStale, Listen, ListenFails, Stop, CloseListener,
           RemovePath, Die, loopVars, commandVars, fileVars
  <1>2. overlapped \subseteq overlapped'
    BY DEF LifeOf, Start, RemoveStale, Listen, ListenFails, Stop, CloseListener,
           RemovePath, Die
  <1>3. ASSUME NEW e \in Daemons, Looping(e)', loop[e] \in {"loading", "saving"}
        PROVE  Looping(e)
    BY <1>3 DEF LifeOf, Start, RemoveStale, Listen, ListenFails, Stop, CloseListener,
           RemovePath, Die, Becomes, Looping, Stages, ControlTypeOK
  <1> QED
    BY <1>1, <1>2, <1>3 DEF OrderInv, Latest

LEMMA LoopOrder ==
  ASSUME BaseInv, OrderInv, NEW d \in Daemons, LoopOf(d)
  PROVE  OrderInv'
  <1> USE DEF BaseInv, daemonVars, commandVars, fileVars, Reads, Writes
  <1>1. UNCHANGED <<life, overlapped, author, rank>>
    BY DEF LoopOf, LoadReads, LoadWrites, Reconnect, SaveReads, SaveWrites
  <1> USE <1>1 DEF OrderInv, Latest, Looping, ControlTypeOK
  <1>2. CASE LoadReads(d)
    BY <1>2 DEF LoadReads
  <1>3. CASE LoadWrites(d)
    BY <1>3 DEF LoadWrites
  <1>4. CASE Reconnect(d)
    BY <1>4 DEF Reconnect
  <1>5. CASE SaveReads(d)
    BY <1>5 DEF SaveReads
  <1>6. CASE SaveWrites(d)
    BY <1>6 DEF SaveWrites
  <1> QED
    BY <1>2, <1>3, <1>4, <1>5, <1>6 DEF LoopOf

\* A change by its command, or by a daemon whose own loop is not between
\* reading and writing: another loop that is makes that daemon one of two.
LEMMA WriteOrder ==
  ASSUME BaseInv, OrderInv, NEW c \in Commands, NEW by \in Daemons \cup {NoDaemon},
         Write(c, by), rank[c] = 0, UNCHANGED <<life, overlapped, loop, copy>>,
         by \in Daemons => Looping(by) /\ loop[by] \notin {"loading", "saving"}
  PROVE  OrderInv'
  <1> USE DEF BaseInv, ControlTypeOK
  <1>n. NoDaemon \notin Daemons /\ NoCommand \notin Commands
    BY ControlAssumption
  <1>1. /\ Cardinality(Written) \in Nat
        /\ rank' = [rank EXCEPT ![c] = 1 + Cardinality(Written)]
    BY WriteRanks
  <1>2. file' = c /\ author' = [author EXCEPT ![c] = by]
    BY DEF Write
  <1>3. /\ rank'[c] = 1 + Cardinality(Written)
        /\ \A t \in Token \ {c} : rank'[t] = rank[t]
        /\ \A t \in Token : rank[t] \in Int
        /\ \A x \in Commands : rank[x] <= Cardinality(Written)
    BY <1>1 DEF Token, OnceAtMost
  <1>4. Latest(file)'
    BY <1>1, <1>2, <1>3 DEF Latest, Token
  <1>5. ASSUME NEW d \in Daemons, Looping(d), loop[d] \in {"loading", "saving"}
        PROVE  Latest(copy[d])'
    <2>1. Latest(copy[d]) /\ copy[d] # c /\ copy[d] \in Token
      BY <1>5 DEF OrderInv, OnceAtMost
    <2>2. by \in Daemons => by \in overlapped
      BY <1>5 DEF Alone, Live, Looping
    <2> QED
      BY <1>n, <1>2, <1>3, <2>1, <2>2 DEF Latest, Token
  <1> QED
    BY <1>4, <1>5 DEF OrderInv, Looping

LEMMA CommandOrder ==
  ASSUME BaseInv, OrderInv, NEW c \in Commands, CommandStep(c)
  PROVE  OrderInv'
  <1> USE DEF BaseInv, daemonVars, loopVars, fileVars, Step
  <1>1. UNCHANGED <<life, overlapped, loop, copy>>
    BY DEF CommandStep, Connect, Unavailable, Refused, Direct, WriteFile, HandlerSaves,
           HandlerSignals, HandlerFails, Answered, GivesUp
  <1>2. CASE UNCHANGED <<file, author, rank>>
    BY <1>1, <1>2 DEF OrderInv, Latest, Looping
  <1>3. CASE Write(c, NoDaemon) /\ rank[c] = 0
    BY <1>1, <1>3, WriteOrder, ControlAssumption
  <1>4. CASE /\ Write(c, server[c]) /\ rank[c] = 0 /\ server[c] \in Daemons
             /\ Looping(server[c]) /\ loop[server[c]] \notin {"loading", "saving"}
    BY <1>1, <1>4, WriteOrder
  <1> QED
    BY <1>2, <1>3, <1>4 DEF CommandStep, Connect, Unavailable, Refused, Direct, WriteFile,
           HandlerSaves, HandlerSignals, HandlerFails, Answered, GivesUp, OnceAtMost

-----------------------------------------------------------------------------
(* A lone daemon keeps its socket *)

\* Only daemons that live touch the path, so nobody else does.
LEMMA LifeReachable ==
  ASSUME BaseInv, ReachableUnlessOverlapped, NEW d \in Daemons, LifeOf(d)
  PROVE  ReachableUnlessOverlapped'
  <1> USE DEF BaseInv, ControlTypeOK, Alone, Stages, Live, ReachableUnlessOverlapped, Becomes
  <1>1. CASE Start(d)
    BY <1>1 DEF Start
  <1>2. CASE RemoveStale(d)
    BY <1>2 DEF RemoveStale
  <1>3. CASE Listen(d)
    BY <1>3 DEF Listen
  <1>4. CASE ListenFails(d)
    BY <1>4 DEF ListenFails
  <1>5. CASE Stop(d)
    BY <1>5 DEF Stop
  <1>6. CASE CloseListener(d)
    BY <1>6 DEF CloseListener
  <1>7. CASE RemovePath(d)
    BY <1>7 DEF RemovePath
  <1>8. CASE Die(d)
    BY <1>8 DEF Die
  <1> QED
    BY <1>1, <1>2, <1>3, <1>4, <1>5, <1>6, <1>7, <1>8 DEF LifeOf

LEMMA OthersReachable ==
  ASSUME ReachableUnlessOverlapped,
         \/ UNCHANGED vars
         \/ \E d \in Daemons : LoopOf(d)
         \/ \E c \in Commands : CommandStep(c)
  PROVE  ReachableUnlessOverlapped'
  <1>1. UNCHANGED daemonVars
    BY DEF vars, daemonVars, LoopOf, LoadReads, LoadWrites, Reconnect, SaveReads, SaveWrites,
           Reads, Writes, CommandStep, Connect, Unavailable, Refused, Direct, WriteFile,
           HandlerSaves, HandlerSignals, HandlerFails, Answered, GivesUp
  <1> QED
    BY <1>1 DEF daemonVars, ReachableUnlessOverlapped

-----------------------------------------------------------------------------
(* The theorems *)

LEMMA ControlStep == ControlInv /\ [Next]_vars => ControlInv'
  <1> SUFFICES ASSUME ControlInv, [Next]_vars PROVE ControlInv'
    OBVIOUS
  <1> USE DEF ControlInv
  <1>1. BaseInv'
    BY BaseStep
  <1>2. CASE UNCHANGED vars
    BY <1>1, <1>2, OthersReachable DEF vars, AdoptionInv, Adopted, Owed, OrderInv, Latest, Looping
  <1>3. ASSUME NEW d \in Daemons, LifeOf(d)
        PROVE  AdoptionInv' /\ OrderInv' /\ ReachableUnlessOverlapped'
    BY <1>3, LifeAdoption, LifeOrder, LifeReachable
  <1>4. ASSUME NEW d \in Daemons, LoopOf(d)
        PROVE  AdoptionInv' /\ OrderInv' /\ ReachableUnlessOverlapped'
    BY <1>4, LoopAdoption, LoopOrder, OthersReachable
  <1>5. ASSUME NEW c \in Commands, CommandStep(c)
        PROVE  AdoptionInv' /\ OrderInv' /\ ReachableUnlessOverlapped'
    BY <1>5, CommandAdoption, CommandOrder, OthersReachable
  <1> QED
    BY <1>1, <1>2, <1>3, <1>4, <1>5 DEF Next, DaemonStep, LifeOf, LoopOf

\* The inductive invariant of the control plane.
THEOREM ControlInvariant == Spec => []ControlInv
  BY InitControl, ControlStep, PTL DEF Spec

\* Every variable keeps its type, for any daemons and commands.
THEOREM ControlTypeCorrect == Spec => []ControlTypeOK
  BY ControlInvariant, PTL DEF ControlInv, BaseInv

\* Whoever starts, stops or dies, a daemon that runs alone stays reachable.
THEOREM LoneDaemonReachable == Spec => []ReachableUnlessOverlapped
  BY ControlInvariant, PTL DEF ControlInv

\* A change made through the socket of a daemon that runs alone is in use or
\* about to be loaded.
THEOREM SocketChangeAdopted == Spec => []OutdatedOnlyByDirectWrite
  <1>1. ControlInv => OutdatedOnlyByDirectWrite
    BY DEF ControlInv, AdoptionInv, Adopted, OutdatedOnlyByDirectWrite
  <1> QED
    BY <1>1, ControlInvariant, PTL

\* Nor does a save that had read the file before undo it.
THEOREM SocketChangeStays == Spec => []SocketChangeNotUndone
  <1>1. ControlInv => SocketChangeNotUndone
    BY DEF ControlInv, OrderInv, Latest, SocketChangeNotUndone
  <1> QED
    BY <1>1, ControlInvariant, PTL
=============================================================================
