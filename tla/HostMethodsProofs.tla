-------------------------- MODULE HostMethodsProofs --------------------------
(***************************************************************************)
(* Proofs about the methods of the host component, for any names, payloads *)
(* and numbers of requests, changes and crashes: what an answer of success *)
(* says is true.                                                           *)
(***************************************************************************)
EXTENDS HostMethods, TLAPS

Block == Int \X Nat \X Nat

Node == [kind : Kinds \cup {"none"}, ino : Nat, blocks : Seq(Block), mtime : Nat]

\* What a request may gather: contents, or entries of a directory.
Found == Node \cup (Paths \X Kinds)

Work == [seen : Nat, got : SUBSET Found, left : SUBSET Names, ino : Nat, at : Nat]

Stages == {"idle", "look", "run", "gathered", "entries", "target", "open", "write",
           "written", "passed", "blocked", "mkparent", "mkdir", "made", "wait", "drain"}

MethodsTypeOK ==
    /\ node \in [Paths -> Node]
    /\ clock \in Nat /\ others \in Nat /\ count \in Nat /\ crashes \in Nat
    /\ pc \in Stages
    /\ req \in Requests \cup {[op |-> "none"]}
    /\ pc # "idle" => req \in Requests
    /\ work \in Work
    /\ cmd \in [child : {"none", "running", "doomed", "zero", "nonzero", "killed"},
                piped : BOOLEAN, late : BOOLEAN,
                status : {"none", "success", "zero", "nonzero", "killed", "deadline"}]
    /\ expect \in [Paths -> Seq(Block)]
    /\ steady \subseteq Paths

-----------------------------------------------------------------------------
(* A write that was answered is there *)

\* The first blocks of a payload: what a writer has written so far.
Written(w, n, k) == [i \in 1 .. k |-> <<w, i, n>>]

\* While nobody else has touched the path, the file a write has open holds the
\* blocks written, and nothing else.
OpenFile ==
    pc \in {"write", "written"} =>
        /\ req.op = "write"
        /\ work.at <= req.len
        /\ pc = "written" => work.at = req.len
        /\ expect[req.path] \in {Pending, Unknown}
        /\ expect[req.path] = Pending =>
              /\ node[req.path].kind = "file"
              /\ node[req.path].ino = work.ino
              /\ node[req.path].blocks = Written(count, req.len, work.at)

\* No block has been written before the file is open.
NothingYet == pc \notin {"write", "written"} => work.at = 0

FilesInv == OpenFile /\ NothingYet /\ AnsweredWriteIsThere

-----------------------------------------------------------------------------
(* An answer is true *)

\* The history of a request follows the file system.
Followed ==
    pc # "idle" =>
        /\ \A p \in Existing(node) : <<p, Lookup(p)>> \in ever
        /\ steady \subseteq Existing(node)

\* A later change has a later time stamp.
Stamps ==
    /\ \A p \in Paths : node[p].mtime <= clock
    /\ pc = "run" /\ req.op = "read" => work.seen <= node[req.path].mtime
    /\ pc = "gathered" => \A f \in work.got : work.seen <= f.mtime

\* What a list has gathered, and what is still to be looked at.
Gathered ==
    /\ pc \in {"idle", "look", "run"} => work.got = {}
    /\ pc = "blocked" /\ req.op = "read" => work.got = {}
    /\ pc = "entries" =>
          /\ work.got \subseteq ever
          /\ req.path = Dir => steady \cap Names \subseteq work.left \cup {e[1] : e \in work.got}
    /\ pc = "made" => <<req.path, "dir">> \in ever

\* The answer belongs to the last request, and a stage to its operation.
Unanswered == pc # "idle" => answer = NoAnswer

StageOfOp ==
    /\ pc = "gathered" => req.op = "read"
    /\ pc = "entries" => req.op = "list"
    /\ pc \in {"mkparent", "mkdir", "made"} => req.op = "mkdir"
    /\ pc \in {"wait", "drain"} => req.op = "exec"

AnswerInv == Followed /\ Stamps /\ Gathered /\ Unanswered /\ StageOfOp /\ AnswerWasTrue

-----------------------------------------------------------------------------
(* A command *)

\* The process runs while it is waited for and at no other time, and what Wait
\* has returned is how it ended, or the deadline.
CommandInv ==
    /\ cmd.child \in {"running", "doomed"} => pc = "wait"
    /\ pc = "wait" => cmd.status \in {"none", "deadline"}
    /\ pc = "wait" => cmd.child # "none"
    /\ cmd.status = "deadline" \/ cmd.child \in {"doomed", "killed"} => cmd.late
    /\ pc = "drain" =>
          \/ cmd.status = "success" /\ cmd.child = "zero"
          \/ cmd.status \in {"nonzero", "killed"} /\ cmd.child = cmd.status
          \/ cmd.status = "deadline" /\ cmd.child = "zero"
    /\ pc \notin {"idle", "wait", "drain"} => cmd = NoCommand
    /\ ExecAnswerTrue

MethodsInv == MethodsTypeOK /\ FilesInv /\ AnswerInv /\ CommandInv

-----------------------------------------------------------------------------
(* Payloads, requests and the file system *)

LEMMA WrittenSeq ==
  ASSUME NEW w \in Int, NEW n \in Nat, NEW k \in Nat
  PROVE  /\ Written(w, n, k) \in Seq(Block)
         /\ Len(Written(w, n, k)) = k
  <1>1. \A i \in 1 .. k : <<w, i, n>> \in Block
    BY DEF Block
  <1> QED
    BY <1>1 DEF Written

LEMMA PayloadSeq ==
  ASSUME NEW w \in Int, NEW n \in Nat
  PROVE  Payload(w, n) = Written(w, n, n) /\ Payload(w, n) \in Seq(Block)
  BY WrittenSeq DEF Payload, Written

LEMMA Holes ==
  Hole \in Block /\ Pending \in Seq(Block) /\ Unknown \in Seq(Block) /\ Pending # Unknown
  BY DEF Hole, Block, Pending, Unknown

LEMMA KindsAre == {"file", "dir", "other"} \subseteq Kinds /\ {"none", "error"} \cap Kinds = {}
  BY DEF Kinds

LEMMA WorkParts ==
  ASSUME NEW w \in Work
  PROVE  /\ NoWork \in Work
         /\ \A n \in Nat : /\ [w EXCEPT !.seen = n] \in Work
                           /\ [w EXCEPT !.ino = n] \in Work
                           /\ [w EXCEPT !.at = n] \in Work
         /\ \A S \in SUBSET Found : [w EXCEPT !.got = S] \in Work
         /\ \A S \in SUBSET Names : [w EXCEPT !.left = S] \in Work
         /\ \A S \in SUBSET Names, T \in SUBSET Found :
               [w EXCEPT !.left = S, !.got = T] \in Work
         /\ w.got \subseteq Found /\ w.left \subseteq Names
         /\ w.seen \in Nat /\ w.ino \in Nat /\ w.at \in Nat
  BY DEF Work, NoWork

LEMMA RequestParts ==
  ASSUME NEW r \in Requests
  PROVE  /\ r.path \in Paths
         /\ r.op \in {"stat", "list", "exec", "read", "write", "mkdir"}
         /\ r.op = "write" => r.len \in Nat
  BY MethodsAssumption DEF Requests

LEMMA Looked ==
  ASSUME MethodsTypeOK, NEW p \in Paths
  PROVE  /\ Lookup(p) \in Kinds \cup {"none", "error"}
         /\ Parent(p) \in Kinds \cup {"none", "error"}
         /\ Lookup(p) \in Kinds => node[p].kind = Lookup(p)
  BY DEF MethodsTypeOK, Lookup, LookupIn, Parent, Node, Paths, Kinds

\* A change of a path: the history of the request follows.
LEMMA PutEffect ==
  ASSUME MethodsTypeOK, NEW p \in Paths, NEW kind \in Kinds \cup {"none"},
         NEW ino \in Nat, NEW blocks \in Seq(Block), Put(p, kind, ino, blocks)
  PROVE  /\ node' \in [Paths -> Node] /\ clock' \in Nat /\ steady' \subseteq Paths
         /\ clock' = clock + 1
         /\ node'[p] = [kind |-> kind, ino |-> ino, blocks |-> blocks, mtime |-> clock + 1]
         /\ \A q \in Paths \ {p} : node'[q] = node[q]
         /\ ever \subseteq ever' /\ steady' \subseteq steady
         /\ pc # "idle" => /\ \A q \in Existing(node') : <<q, LookupIn(node', q)>> \in ever'
                           /\ steady' \subseteq Existing(node')
         /\ pc = "idle" => UNCHANGED <<ever, steady>>
  <1>1. [kind |-> kind, ino |-> ino, blocks |-> blocks, mtime |-> clock + 1] \in Node
    BY DEF MethodsTypeOK, Node
  <1>2. /\ clock' = clock + 1
        /\ node' = [node EXCEPT ![p] = [kind |-> kind, ino |-> ino,
                                        blocks |-> blocks, mtime |-> clock + 1]]
    BY DEF Put
  <1>3. /\ node' \in [Paths -> Node] /\ clock' \in Nat
        /\ node'[p] = [kind |-> kind, ino |-> ino, blocks |-> blocks, mtime |-> clock + 1]
        /\ \A q \in Paths \ {p} : node'[q] = node[q]
    BY <1>1, <1>2 DEF MethodsTypeOK
  <1>4. CASE pc = "idle"
    BY <1>2, <1>3, <1>4 DEF Put, MethodsTypeOK
  <1>5. CASE pc # "idle"
    <2>1. /\ ever' = ever \cup {<<q, LookupIn(node', q)>> : q \in Existing(node')}
          /\ steady' = steady \cap Existing(node')
      BY <1>5 DEF Put
    <2> QED
      BY <1>2, <1>3, <1>5, <2>1 DEF MethodsTypeOK
  <1> QED
    BY <1>4, <1>5

-----------------------------------------------------------------------------
(* The type of the variables *)

\* The steps that change no file.
Looking ==
    \/ Denied \/ Stat \/ LookForDirectory \/ LookForFile \/ ReadContent \/ ReadReply
    \/ ReadDir \/ (\E p \in Names : ListEntry(p)) \/ ListReply
    \/ LookForParent \/ LookForTarget
    \/ OpenOther \/ Unblocked \/ OpenFails \/ WriteBreaks \/ WriteEnds
    \/ LookForPath \/ MkdirFails \/ MkdirReply

\* Those that do.
Changing == OpenEmptied \/ WriteBlock \/ WriteReply \/ MakeParent \/ MakePath

\* The daemon's own steps of a command, and those of the command.
Running ==
    \/ CommandStarts \/ StartFails \/ Reap \/ ExecReply
    \/ CommandExits \/ CommandKilled \/ OutputCloses \/ Deadline

LEMMA LookingType ==
  ASSUME MethodsTypeOK, Looking
  PROVE  MethodsTypeOK'
  <1> USE DEF MethodsTypeOK, Rest, fsVars, boundVars, Reply, Refuse, Goes, Goto, At, Stages
  <1>1. pc # "idle"
    BY DEF Looking, Denied, Stat, LookForDirectory, LookForFile, ReadContent, ReadReply,
           ReadDir, ListEntry, ListReply, LookForParent, LookForTarget,
           OpenOther, Unblocked, OpenFails,
           WriteBreaks, WriteEnds, LookForPath, MkdirFails, MkdirReply
  <1>2. UNCHANGED <<fsVars, boundVars, req, cmd>>
    BY DEF Looking, Denied, Stat, LookForDirectory, LookForFile, ReadContent, ReadReply,
           ReadDir, ListEntry, ListReply, LookForParent, LookForTarget,
           OpenOther, Unblocked, OpenFails,
           WriteBreaks, WriteEnds, LookForPath, MkdirFails, MkdirReply
  <1>3. pc' \in Stages
    BY ZenonT(100), <1>1
    DEF Looking, Denied, Stat, LookForDirectory, LookForFile, ReadContent, ReadReply,
           ReadDir, ListEntry, ListReply, LookForParent, LookForTarget,
           OpenOther, Unblocked, OpenFails,
           WriteBreaks, WriteEnds, LookForPath, MkdirFails, MkdirReply
  <1>4. req.path \in Paths
    BY <1>1, RequestParts
  <1>5. work' \in Work
    <2> USE WorkParts
    <2>1. CASE LookForFile
      <3>1. node[req.path].mtime \in Nat
        BY <1>4 DEF Node
      <3>2. [work EXCEPT !.seen = node[req.path].mtime] \in Work
        BY <3>1
      <3>3. work' \in {work, NoWork, [work EXCEPT !.seen = node[req.path].mtime]}
        BY <2>1 DEF LookForFile
      <3> QED
        BY <3>2, <3>3
    <2>2. CASE ReadContent
      <3>1. node[req.path] \in Found
        BY <1>4 DEF Found
      <3>2. [work EXCEPT !.got = {node[req.path]}] \in Work
        BY <3>1
      <3>3. work' \in {work, NoWork, [work EXCEPT !.got = {node[req.path]}]}
        BY <2>2 DEF ReadContent
      <3> QED
        BY <3>2, <3>3
    <2>3. CASE ReadDir
      <3>1. \A S \in SUBSET Names : [work EXCEPT !.left = S] \in Work
        OBVIOUS
      <3>2. {p \in Names : node[p].kind # "none"} \in SUBSET Names /\ {} \in SUBSET Names
        OBVIOUS
      <3>3. (IF req.path = Dir THEN {p \in Names : node[p].kind # "none"} ELSE {}) \in SUBSET Names
        BY <3>2
      <3> QED
        BY <2>3, <3>1, <3>3 DEF ReadDir
    <2>4. ASSUME NEW p \in Names, ListEntry(p)
          PROVE  work' \in Work
      <3>1. work.left \ {p} \in SUBSET Names
        OBVIOUS
      <3>2. Lookup(p) \in Kinds => work.got \cup {<<p, Lookup(p)>>} \in SUBSET Found
        <4>1. p \in Paths
          BY DEF Paths
        <4>2. Lookup(p) \in Kinds => <<p, Lookup(p)>> \in Paths \X Kinds
          BY <4>1
        <4>3. Lookup(p) \in Kinds => <<p, Lookup(p)>> \in Found
          BY <4>2 DEF Found
        <4>4. work.got \subseteq Found
          OBVIOUS
        <4> QED
          BY <4>3, <4>4
      <3>3. [work EXCEPT !.left = @ \ {p}] \in Work
        BY <3>1
      <3>4. Lookup(p) \in Kinds =>
               [work EXCEPT !.left = @ \ {p}, !.got = @ \cup {<<p, Lookup(p)>>}] \in Work
        BY <3>1, <3>2
      <3> QED
        BY <2>4, <3>3, <3>4 DEF ListEntry
    <2>5. CASE work' \in {work, NoWork}
      BY <2>5
    <2> QED
      BY <2>1, <2>2, <2>3, <2>4, <2>5
      DEF Looking, Denied, Stat, LookForDirectory, LookForFile, ReadContent, ReadReply,
           ReadDir, ListReply, LookForParent, LookForTarget, OpenOther, Unblocked, OpenFails,
           WriteBreaks, WriteEnds, LookForPath, MkdirFails, MkdirReply
  <1> QED
    BY <1>1, <1>2, <1>3, <1>5

\* What is in a file after a block was written at a place of it.
Overwritten(old, at, b) ==
    [i \in 1 .. IF Len(old) > at THEN Len(old) ELSE at |->
        CASE i = at -> b
          [] i # at /\ i <= Len(old) -> old[i]
          [] OTHER -> Hole]

LEMMA BlockWritten ==
  ASSUME NEW old \in Seq(Block), NEW at \in Nat \ {0}, NEW b \in Block
  PROVE  Overwritten(old, at, b) \in Seq(Block)
  <1> DEFINE m == IF Len(old) > at THEN Len(old) ELSE at
             e(i) == CASE i = at -> b
                       [] i # at /\ i <= Len(old) -> old[i]
                       [] OTHER -> Hole
  <1>1. m \in Nat
    OBVIOUS
  <1>2. ASSUME NEW i \in 1 .. m
        PROVE  e(i) \in Block
    <2>1. CASE i = at
      BY <2>1
    <2>2. CASE i # at /\ i <= Len(old)
      <3>1. old[i] \in Block
        BY <1>1, <2>2
      <3> QED
        BY <2>2, <3>1
    <2>3. CASE i # at /\ ~(i <= Len(old))
      BY <2>3, Holes
    <2> QED
      BY <2>1, <2>2, <2>3
  <1>3. Overwritten(old, at, b) = [i \in 1 .. m |-> e(i)]
    BY DEF Overwritten
  <1> HIDE DEF m, e
  <1>4. [i \in 1 .. m |-> e(i)] \in Seq(Block)
    BY <1>1, <1>2
  <1> QED
    BY <1>3, <1>4

LEMMA ChangingType ==
  ASSUME MethodsTypeOK, Changing
  PROVE  MethodsTypeOK'
  <1> USE DEF MethodsTypeOK, Stages
  <1>1. pc # "idle" /\ req.path \in Paths /\ UNCHANGED <<others, count, crashes, req, cmd>>
    BY RequestParts
    DEF Changing, OpenEmptied, OpenAs, WriteBlock, WriteReply, MakeParent, MakePath,
        MakeDirectory, At, Rest, boundVars
  <1>e. <<>> \in Seq(Block) /\ Dir \in Paths
    BY DEF Paths
  <1>2. CASE OpenEmptied
    <2> DEFINE ino == IF node[req.path].kind = "file" THEN node[req.path].ino ELSE clock + 1
    <2>1. ino \in Nat
      BY <1>1 DEF Node
    <2>2. /\ Put(req.path, "file", ino, <<>>) /\ work' = [work EXCEPT !.ino = ino]
          /\ expect' = [expect EXCEPT ![req.path] = Pending] /\ pc' = "write"
      BY <1>2 DEF OpenEmptied, OpenAs, Goto
    <2>3. work' \in Work
      BY <2>1, <2>2, WorkParts
    <2> HIDE DEF ino
    <2>4. node' \in [Paths -> Node] /\ clock' \in Nat /\ steady' \subseteq Paths
      BY <1>1, <1>e, <2>1, <2>2, PutEffect, KindsAre
    <2> QED
      BY <1>1, <2>2, <2>3, <2>4, Holes
  <1>3. CASE WriteBlock
    <2> DEFINE at == work.at + 1
               old == node[req.path].blocks
               b == <<count, at, req.len>>
    <2>1. work.at \in Nat /\ work.ino \in Nat
      BY WorkParts
    <2>2. old \in Seq(Block)
      <3>1. node[req.path] \in Node
        BY <1>1
      <3> QED
        BY <3>1 DEF Node
    <2>3. b \in Block
      BY SMTT(60), <1>1, <1>3, <2>1, RequestParts DEF WriteBlock, At, Block
    <2>4. /\ work' = [work EXCEPT !.at = at] /\ UNCHANGED <<pc, expect>>
          /\ \/ Put(req.path, "file", work.ino, Overwritten(old, at, b))
             \/ UNCHANGED <<node, clock, steady>>
      BY <1>3 DEF WriteBlock, Overwritten
    <2>6. at \in Nat \ {0}
      BY <2>1
    <2> HIDE DEF at, old, b
    <2>5. [work EXCEPT !.at = at] \in Work
      <3>1. work \in Work /\ at \in Nat
        BY <2>6
      <3> QED
        BY <3>1, WorkParts
    <2>7. Overwritten(old, at, b) \in Seq(Block)
      BY <2>2, <2>3, <2>6, BlockWritten
    <2>8. node' \in [Paths -> Node] /\ clock' \in Nat /\ steady' \subseteq Paths
      BY <1>1, <2>1, <2>4, <2>7, PutEffect, KindsAre
    <2> QED
      BY <1>1, <2>4, <2>5, <2>8
  <1>4. CASE WriteReply
    <2>1. /\ UNCHANGED <<node, clock, steady>> /\ work' = NoWork /\ pc' = "idle"
          /\ \/ expect' = expect
             \/ expect' = [expect EXCEPT ![req.path] = Payload(count, req.len)]
      BY <1>4 DEF WriteReply, Refuse, Reply, Goto
    <2>2. req.len \in Nat /\ count \in Int
      BY <1>1, <1>4, RequestParts DEF WriteReply, At
    <2>3. NoWork \in Work /\ Payload(count, req.len) \in Seq(Block)
      BY <2>2, PayloadSeq, WorkParts
    <2> QED
      BY ZenonT(100), <1>1, <2>1, <2>3
  <1>5. ASSUME NEW p \in Paths, NEW next \in {"mkdir", "made"}, MakeDirectory(p, next)
        PROVE  MethodsTypeOK'
    <2>1. /\ Put(p, "dir", clock + 1, <<>>) /\ UNCHANGED work
          /\ expect' = [expect EXCEPT ![p] = <<>>] /\ pc' = next
      BY <1>5 DEF MakeDirectory, Goto
    <2>2. clock + 1 \in Nat
      OBVIOUS
    <2>3. node' \in [Paths -> Node] /\ clock' \in Nat /\ steady' \subseteq Paths
      BY <1>e, <2>1, <2>2, PutEffect, KindsAre
    <2> QED
      BY ZenonT(100), <1>1, <1>e, <2>1, <2>3
  <1>6. ASSUME NEW l \in {"mkdir", "made"}, Goes(l) /\ Rest
        PROVE  MethodsTypeOK'
    BY <1>1, <1>6 DEF Goes, Goto, Rest, fsVars
  <1>7. CASE MakeParent
    BY <1>1, <1>e, <1>5, <1>6, <1>7 DEF MakeParent
  <1>8. CASE MakePath
    BY <1>1, <1>5, <1>6, <1>8 DEF MakePath
  <1> QED
    BY <1>2, <1>3, <1>4, <1>7, <1>8 DEF Changing

LEMMA RunningType ==
  ASSUME MethodsTypeOK, Running
  PROVE  MethodsTypeOK'
  <1> USE DEF MethodsTypeOK, Stages
  <1>1. UNCHANGED <<fsVars, boundVars, req>> /\ (pc' # "idle" => req \in Requests)
    BY DEF Running, CommandStarts, StartFails, Reap, ExecReply, CommandExits,
           CommandKilled, OutputCloses, Deadline, Refuse, Reply, Goes, Goto, At,
           Rest, CmdRest
  <1>2. pc' \in Stages
    BY DEF Running, CommandStarts, StartFails, Reap, ExecReply, CommandExits,
           CommandKilled, OutputCloses, Deadline, Refuse, Reply, Goes, Goto
  <1>3. work' \in Work
    <2>1. work' \in {work, NoWork}
      BY DEF Running, CommandStarts, StartFails, Reap, ExecReply, CommandExits,
           CommandKilled, OutputCloses, Deadline, Refuse, Reply, Goes
    <2> QED
      BY <2>1, WorkParts
  <1>4. cmd' \in [child : {"none", "running", "doomed", "zero", "nonzero", "killed"},
                  piped : BOOLEAN, late : BOOLEAN,
                  status : {"none", "success", "zero", "nonzero", "killed", "deadline"}]
    <2>1. CASE CommandStarts
      BY <2>1 DEF CommandStarts, NoCommand
    <2>2. CASE StartFails \/ ExecReply
      BY <2>2 DEF StartFails, ExecReply, Rest
    <2>3. CASE Reap
      BY <2>3 DEF Reap
    <2>4. CASE CommandExits
      BY <2>4 DEF CommandExits
    <2>5. CASE CommandKilled
      BY <2>5 DEF CommandKilled
    <2>6. CASE OutputCloses
      BY <2>6 DEF OutputCloses
    <2>7. CASE Deadline
      BY <2>7 DEF Deadline
    <2> QED
      BY <2>1, <2>2, <2>3, <2>4, <2>5, <2>6, <2>7 DEF Running
  <1> QED
    BY <1>1, <1>2, <1>3, <1>4 DEF fsVars, boundVars

\* The request begins, is refused at once, or the daemon dies; or another
\* process changes a file.
Around ==
    \/ (\E r \in Requests : Begin(r)) \/ RefusedAtOnce \/ Crash
    \/ \E p \in Paths, kind \in Kinds \cup {"none"} : OtherChanges(p, kind)

LEMMA AroundType ==
  ASSUME MethodsTypeOK, Around
  PROVE  MethodsTypeOK'
  <1> USE DEF MethodsTypeOK
  <1>1. CASE (\E r \in Requests : Begin(r)) \/ RefusedAtOnce \/ Crash
    <2>1. /\ UNCHANGED <<node, clock, expect, others>>
          /\ steady' = steady \/ steady' = Existing(node)
          /\ count' \in {count, count + 1} /\ crashes' \in {crashes, crashes + 1}
          /\ pc' \in {"idle", "look"}
          /\ req' \in Requests \cup {[op |-> "none"]}
          /\ pc' # "idle" => req' \in Requests
          /\ work' \in {work, NoWork} /\ cmd' = NoCommand
      BY <1>1 DEF Begin, RefusedAtOnce, Crash, Refuse, Reply, Goto, fsVars
    <2>2. Existing(node) \subseteq Paths
      BY DEF Existing
    <2>3. NoWork \in Work
      BY WorkParts
    <2>4. NoCommand \in [child : {"none", "running", "doomed", "zero", "nonzero", "killed"},
                piped : BOOLEAN, late : BOOLEAN,
                status : {"none", "success", "zero", "nonzero", "killed", "deadline"}]
      BY DEF NoCommand
    <2> QED
      BY <2>1, <2>2, <2>3, <2>4 DEF Stages
  <1>2. ASSUME NEW p \in Paths, NEW kind \in Kinds \cup {"none"}, OtherChanges(p, kind)
        PROVE  MethodsTypeOK'
    <2> DEFINE blocks == IF kind = "file" THEN Payload(-others - 1, 1) ELSE <<>>
               ino == IF node[p].kind = "file" /\ kind = "file" THEN node[p].ino
                      ELSE clock + 1
    <2>1. /\ Put(p, kind, ino, blocks)
          /\ expect' = [expect EXCEPT ![p] = IF Open(p) THEN Unknown ELSE blocks]
          /\ others' = others + 1
          /\ UNCHANGED <<pc, req, count, crashes, work, cmd, answer>>
      BY <1>2 DEF OtherChanges
    <2>2. blocks \in Seq(Block)
      BY PayloadSeq
    <2>3. ino \in Nat
      BY DEF Node
    <2> HIDE DEF blocks, ino
    <2>4. node' \in [Paths -> Node] /\ clock' \in Nat /\ steady' \subseteq Paths
      BY <2>1, <2>2, <2>3, PutEffect
    <2>5. expect' \in [Paths -> Seq(Block)]
      BY <2>1, <2>2, Holes
    <2> QED
      BY <2>1, <2>4, <2>5
  <1> QED
    BY <1>1, <1>2 DEF Around

\* Every step is one of these.
LEMMA Steps ==
  ASSUME [Next]_vars
  PROVE  Looking \/ Changing \/ Running \/ Around \/ UNCHANGED vars
  BY DEF Next, FileStep, ExecStep, Looking, Changing, Running, Around

LEMMA TypeInit == Init => MethodsTypeOK
  <1> SUFFICES ASSUME Init PROVE MethodsTypeOK
    OBVIOUS
  <1>1. /\ None \in Node /\ [None EXCEPT !.kind = "dir"] \in Node
        /\ [None EXCEPT !.kind = "other"] \in Node
        /\ [None EXCEPT !.kind = "file", !.blocks = Payload(0, MaxBlocks)] \in Node
    <2>1. Payload(0, MaxBlocks) \in Seq(Block) /\ <<>> \in Seq(Block)
      BY MethodsAssumption, PayloadSeq
    <2> QED
      BY <2>1, KindsAre DEF None, Node
  <1>2. node \in [Paths -> Node]
    BY <1>1 DEF Init
  <1>3. expect \in [Paths -> Seq(Block)]
    BY <1>2 DEF Init, Node
  <1>4. work \in Work
    BY DEF Init, Work, NoWork
  <1> QED
    BY <1>2, <1>3, <1>4 DEF Init, MethodsTypeOK, Stages, NoCommand

LEMMA TypeStep == MethodsTypeOK /\ [Next]_vars => MethodsTypeOK'
  <1> SUFFICES ASSUME MethodsTypeOK, [Next]_vars PROVE MethodsTypeOK'
    OBVIOUS
  <1>1. CASE UNCHANGED vars
    BY <1>1 DEF MethodsTypeOK, vars
  <1> QED
    BY <1>1, Steps, LookingType, ChangingType, RunningType, AroundType

\* Type correctness.
THEOREM MethodsTypeCorrect == Spec => []MethodsTypeOK
  BY TypeInit, TypeStep, PTL DEF Spec

-----------------------------------------------------------------------------
(* A write that was answered is there: the invariant *)

LEMMA FilesInit == Init => FilesInv
  <1> SUFFICES ASSUME Init PROVE FilesInv
    OBVIOUS
  <1>1. pc = "idle" /\ work.at = 0 /\ expect = [p \in Paths |-> node[p].blocks]
    BY DEF Init, NoWork
  <1> QED
    BY <1>1 DEF FilesInv, OpenFile, NothingYet, AnsweredWriteIsThere

LEMMA LookingFiles ==
  ASSUME MethodsTypeOK, FilesInv, Looking
  PROVE  FilesInv'
  <1> USE DEF Rest, fsVars, boundVars, Reply, Refuse, Goes, Goto, At
  <1>1. UNCHANGED <<node, expect, count, req>>
    BY DEF Looking, Denied, Stat, LookForDirectory, LookForFile, ReadContent, ReadReply,
           ReadDir, ListEntry, ListReply, LookForParent, LookForTarget,
           OpenOther, Unblocked, OpenFails,
           WriteBreaks, WriteEnds, LookForPath, MkdirFails, MkdirReply
  <1>2. CASE WriteEnds
    BY <1>1, <1>2 DEF WriteEnds, FilesInv, OpenFile, NothingYet, AnsweredWriteIsThere
  <1>3. CASE ~WriteEnds
    <2>1. pc' \notin {"write", "written"}
      BY <1>3
      DEF Looking, Denied, Stat, LookForDirectory, LookForFile, ReadContent, ReadReply,
           ReadDir, ListEntry, ListReply, LookForParent, LookForTarget,
           OpenOther, Unblocked, OpenFails,
           WriteBreaks, LookForPath, MkdirFails, MkdirReply
    <2>2. work' = NoWork \/ pc \notin {"write", "written"}
      BY <1>3
      DEF Looking, Denied, Stat, LookForDirectory, LookForFile, ReadContent, ReadReply,
           ReadDir, ListEntry, ListReply, LookForParent, LookForTarget,
           OpenOther, Unblocked, OpenFails,
           WriteBreaks, LookForPath, MkdirFails, MkdirReply
    <2>3. work' = NoWork \/ work'.at = work.at
      <3>1. CASE LookForFile
        BY <3>1 DEF LookForFile, MethodsTypeOK, Work
      <3>2. CASE ReadContent
        BY <3>2 DEF ReadContent, MethodsTypeOK, Work
      <3>3. CASE ReadDir
        BY <3>3 DEF ReadDir, MethodsTypeOK, Work
      <3>4. ASSUME NEW p \in Names, ListEntry(p)
            PROVE  work'.at = work.at
        BY <3>4 DEF ListEntry, MethodsTypeOK, Work
      <3> QED
        BY <1>3, <3>1, <3>2, <3>3, <3>4
        DEF Looking, Denied, Stat, LookForDirectory, ReadReply,
           ListReply, LookForParent, LookForTarget, OpenOther, Unblocked, OpenFails,
           WriteBreaks, LookForPath, MkdirFails, MkdirReply
    <2>4. NoWork.at = 0
      BY DEF NoWork
    <2> QED
      BY <1>1, <2>1, <2>2, <2>3, <2>4 DEF FilesInv, OpenFile, NothingYet, AnsweredWriteIsThere
  <1> QED
    BY <1>2, <1>3

\* One block more of the payload is in the file.
LEMMA NextBlock ==
  ASSUME NEW w \in Int, NEW n \in Nat, NEW k \in Nat
  PROVE  Overwritten(Written(w, n, k), k + 1, <<w, k + 1, n>>) = Written(w, n, k + 1)
  <1> DEFINE old == Written(w, n, k)
             b == <<w, k + 1, n>>
  <1>1. Len(old) = k /\ \A i \in 1 .. k : old[i] = <<w, i, n>>
    BY WrittenSeq DEF Written
  <1>2. \A i \in 1 .. k + 1 : (CASE i = k + 1 -> b
                                 [] i # k + 1 /\ i <= k -> old[i]
                                 [] OTHER -> Hole) = <<w, i, n>>
    BY <1>1
  <1>3. (IF Len(old) > k + 1 THEN Len(old) ELSE k + 1) = k + 1
    BY <1>1
  <1>4. Overwritten(old, k + 1, b) = [i \in 1 .. k + 1 |->
            CASE i = k + 1 -> b [] i # k + 1 /\ i <= k -> old[i] [] OTHER -> Hole]
    BY <1>1, <1>3 DEF Overwritten
  <1>5. Written(w, n, k + 1) = [i \in 1 .. k + 1 |-> <<w, i, n>>]
    BY DEF Written
  <1> HIDE DEF old, b
  <1>6. [i \in 1 .. k + 1 |->
            CASE i = k + 1 -> b [] i # k + 1 /\ i <= k -> old[i] [] OTHER -> Hole]
          = [i \in 1 .. k + 1 |-> <<w, i, n>>]
    BY <1>2
  <1>7. Overwritten(old, k + 1, b) = Written(w, n, k + 1)
    BY <1>4, <1>5, <1>6
  <1> QED
    BY <1>7 DEF old, b

LEMMA ChangingFiles ==
  ASSUME MethodsTypeOK, FilesInv, Changing
  PROVE  FilesInv'
  <1> USE DEF MethodsTypeOK
  <1>1. /\ pc # "idle" /\ req \in Requests /\ req.path \in Paths
        /\ UNCHANGED <<req, count>>
    BY RequestParts
    DEF Changing, OpenEmptied, OpenAs, WriteBlock, WriteReply, MakeParent, MakePath,
        MakeDirectory, At, Rest, boundVars
  <1>e. <<>> \in Seq(Block) /\ Dir \in Paths
    BY DEF Paths
  <1>n. work.at \in Nat /\ work.ino \in Nat /\ count \in Int
    BY DEF Work
  <1>2. CASE OpenEmptied
    <2> DEFINE ino == IF node[req.path].kind = "file" THEN node[req.path].ino ELSE clock + 1
    <2>1. ino \in Nat
      BY <1>1 DEF Node
    <2>2. /\ Put(req.path, "file", ino, <<>>) /\ work' = [work EXCEPT !.ino = ino]
          /\ expect' = [expect EXCEPT ![req.path] = Pending] /\ pc' = "write"
          /\ pc = "open" /\ req.op = "write"
      BY <1>2 DEF OpenEmptied, OpenAs, Goto, At
    <2> HIDE DEF ino
    <2>3. work'.ino = ino /\ work'.at = work.at
      BY <2>2 DEF Work
    <2>4. work.at = 0
      BY <2>2 DEF FilesInv, NothingYet
    <2>5. req.len \in Nat
      BY <1>1, <2>2, RequestParts
    <2>6. Written(count, req.len, 0) = <<>>
      <3>1. Written(count, req.len, 0) \in Seq(Block) /\ Len(Written(count, req.len, 0)) = 0
        BY <1>n, <2>5, WrittenSeq
      <3> QED
        BY <3>1
    <2>7. /\ node'[req.path] = [kind |-> "file", ino |-> ino, blocks |-> <<>>,
                                mtime |-> clock + 1]
          /\ \A q \in Paths \ {req.path} : node'[q] = node[q]
      <3> DEFINE empty == <<>>
      <3>1. empty \in Seq(Block) /\ Put(req.path, "file", ino, empty)
        BY <1>e, <2>2
      <3> HIDE DEF empty
      <3>2. /\ node'[req.path] = [kind |-> "file", ino |-> ino, blocks |-> empty,
                                  mtime |-> clock + 1]
            /\ \A q \in Paths \ {req.path} : node'[q] = node[q]
        BY <1>1, <2>1, <3>1, PutEffect, KindsAre
      <3> QED
        BY <3>2 DEF empty
    <2>8. expect'[req.path] = Pending /\ \A q \in Paths \ {req.path} : expect'[q] = expect[q]
      BY <1>1, <2>2
    <2>9. OpenFile'
      BY <1>1, <2>2, <2>3, <2>4, <2>5, <2>6, <2>7, <2>8 DEF OpenFile
    <2>10. NothingYet'
      BY <2>2 DEF NothingYet
    <2>11. AnsweredWriteIsThere'
      BY <2>7, <2>8 DEF FilesInv, AnsweredWriteIsThere
    <2> QED
      BY <2>9, <2>10, <2>11 DEF FilesInv
  <1>3. CASE WriteBlock
    <2> DEFINE at == work.at + 1
               old == node[req.path].blocks
               b == <<count, at, req.len>>
    <2>1. pc = "write" /\ req.op = "write" /\ work.at < req.len /\ req.len \in Nat
      BY <1>1, <1>3, RequestParts DEF WriteBlock, At
    <2>2. old \in Seq(Block)
      <3>1. node[req.path] \in Node
        BY <1>1
      <3> QED
        BY <3>1 DEF Node
    <2>3. b \in Block /\ at \in Nat \ {0} /\ at <= req.len
      BY <1>n, <2>1 DEF Block
    <2>4. /\ work' = [work EXCEPT !.at = at] /\ UNCHANGED <<pc, expect>>
          /\ IF node[req.path].kind = "file" /\ node[req.path].ino = work.ino
             THEN Put(req.path, "file", work.ino, Overwritten(old, at, b))
             ELSE UNCHANGED node
      BY <1>3 DEF WriteBlock, Overwritten
    <2>5. expect[req.path] = Pending => Overwritten(old, at, b) = Written(count, req.len, at)
      BY <1>n, <2>1, NextBlock DEF FilesInv, OpenFile
    <2> HIDE DEF at, old, b
    <2>6. work'.ino = work.ino /\ work'.at = at
      BY <2>4 DEF Work
    <2>7. Overwritten(old, at, b) \in Seq(Block)
      BY <2>2, <2>3, BlockWritten
    <2>8. \A q \in Paths \ {req.path} : node'[q] = node[q]
      BY <1>1, <1>n, <2>4, <2>7, PutEffect, KindsAre
    <2>9. expect[req.path] = Pending =>
            /\ node'[req.path].kind = "file" /\ node'[req.path].ino = work.ino
            /\ node'[req.path].blocks = Written(count, req.len, at)
      <3> SUFFICES ASSUME expect[req.path] = Pending
                   PROVE  /\ node'[req.path].kind = "file" /\ node'[req.path].ino = work.ino
                          /\ node'[req.path].blocks = Written(count, req.len, at)
        OBVIOUS
      <3>1. node[req.path].kind = "file" /\ node[req.path].ino = work.ino
        BY <2>1 DEF FilesInv, OpenFile
      <3>2. Put(req.path, "file", work.ino, Overwritten(old, at, b))
        BY <2>4, <3>1
      <3>3. node'[req.path] = [kind |-> "file", ino |-> work.ino,
                blocks |-> Overwritten(old, at, b), mtime |-> clock + 1]
        BY <1>1, <1>n, <2>7, <3>2, PutEffect, KindsAre
      <3> QED
        BY <2>5, <3>3
    <2>10. OpenFile'
      BY <1>1, <2>1, <2>3, <2>4, <2>6, <2>9 DEF FilesInv, OpenFile
    <2>11. NothingYet'
      BY <2>1, <2>4 DEF NothingYet
    <2>12. expect[req.path] \in {Pending, Unknown}
      BY <2>1 DEF FilesInv, OpenFile
    <2>13. AnsweredWriteIsThere'
      BY <2>4, <2>8, <2>12 DEF FilesInv, AnsweredWriteIsThere
    <2> QED
      BY <2>10, <2>11, <2>13 DEF FilesInv
  <1>4. CASE WriteReply
    <2>1. /\ UNCHANGED node /\ work' = NoWork /\ pc' = "idle"
          /\ req.op = "write"
          /\ \/ expect' = expect
             \/ /\ pc = "written" /\ expect[req.path] = Pending
                /\ expect' = [expect EXCEPT ![req.path] = Payload(count, req.len)]
      BY <1>4 DEF WriteReply, Refuse, Reply, Goto, At
    <2>2. req.len \in Nat
      BY <1>1, <2>1, RequestParts
    <2>3. pc = "written" => work.at = req.len
      BY <2>1 DEF FilesInv, OpenFile
    <2>4. pc = "written" /\ expect[req.path] = Pending =>
            node[req.path].blocks = Payload(count, req.len)
      BY ZenonT(100), <1>n, <2>1, <2>2, <2>3, PayloadSeq DEF FilesInv, OpenFile
    <2>5. AnsweredWriteIsThere'
      BY <1>1, <2>1, <2>4 DEF FilesInv, AnsweredWriteIsThere
    <2> QED
      BY <2>1, <2>5 DEF FilesInv, OpenFile, NothingYet, NoWork
  <1>5. ASSUME NEW p \in Paths, NEW next \in {"mkdir", "made"}, MakeDirectory(p, next),
               pc \in {"mkparent", "mkdir"}
        PROVE  FilesInv'
    <2>1. /\ Put(p, "dir", clock + 1, <<>>) /\ UNCHANGED work
          /\ expect' = [expect EXCEPT ![p] = <<>>] /\ pc' = next
      BY <1>5 DEF MakeDirectory, Goto
    <2>2. clock + 1 \in Nat
      OBVIOUS
    <2>3. /\ node'[p] = [kind |-> "dir", ino |-> clock + 1, blocks |-> <<>>, mtime |-> clock + 1]
          /\ \A q \in Paths \ {p} : node'[q] = node[q]
      <3> DEFINE empty == <<>>
      <3>1. empty \in Seq(Block) /\ Put(p, "dir", clock + 1, empty)
        BY <1>e, <2>1
      <3> HIDE DEF empty
      <3>2. /\ node'[p] = [kind |-> "dir", ino |-> clock + 1, blocks |-> empty, mtime |-> clock + 1]
            /\ \A q \in Paths \ {p} : node'[q] = node[q]
        BY <2>2, <3>1, PutEffect, KindsAre
      <3> QED
        BY <3>2 DEF empty
    <2>4. \A q \in Paths \ {p} : expect'[q] = expect[q]
      BY <2>1
    <2>5. AnsweredWriteIsThere'
      BY <2>3, <2>4 DEF FilesInv, AnsweredWriteIsThere
    <2> QED
      BY <1>5, <2>1, <2>5 DEF FilesInv, OpenFile, NothingYet
  <1>6. ASSUME NEW l \in {"mkdir", "made"}, Goes(l) /\ Rest, pc \in {"mkparent", "mkdir"}
        PROVE  FilesInv'
    BY <1>1, <1>6 DEF Goes, Goto, Rest, fsVars, FilesInv, OpenFile, NothingYet,
                      AnsweredWriteIsThere
  <1>7. CASE MakeParent
    BY <1>1, <1>e, <1>5, <1>6, <1>7 DEF MakeParent, At
  <1>8. CASE MakePath
    BY <1>1, <1>5, <1>6, <1>8 DEF MakePath, At
  <1> QED
    BY <1>2, <1>3, <1>4, <1>7, <1>8 DEF Changing

LEMMA RunningFiles ==
  ASSUME MethodsTypeOK, FilesInv, Running
  PROVE  FilesInv'
  <1>1. UNCHANGED <<node, expect, count, req>>
    BY DEF Running, CommandStarts, StartFails, Reap, ExecReply, CommandExits,
           CommandKilled, OutputCloses, Deadline, Rest, CmdRest, fsVars, boundVars
  <1>2. \/ UNCHANGED <<pc, work>>
        \/ pc' \notin {"write", "written"} /\ work' = NoWork
        \/ /\ pc \notin {"write", "written"} /\ pc' \notin {"write", "written"}
           /\ UNCHANGED work
    BY DEF Running, CommandStarts, StartFails, Reap, ExecReply, CommandExits,
           CommandKilled, OutputCloses, Deadline, Refuse, Reply, Goes, Goto, At
  <1> QED
    BY <1>1, <1>2 DEF FilesInv, OpenFile, NothingYet, AnsweredWriteIsThere, NoWork

LEMMA AroundFiles ==
  ASSUME MethodsTypeOK, FilesInv, Around
  PROVE  FilesInv'
  <1>1. CASE (\E r \in Requests : Begin(r)) \/ RefusedAtOnce \/ Crash
    <2>1. UNCHANGED <<node, expect>> /\ pc' \notin {"write", "written"}
      BY <1>1 DEF Begin, RefusedAtOnce, Crash, Refuse, Reply, Goto, fsVars
    <2>2. work' = NoWork \/ (UNCHANGED work /\ pc = "idle")
      BY <1>1 DEF Begin, RefusedAtOnce, Crash, Refuse, Reply
    <2> QED
      BY <2>1, <2>2 DEF FilesInv, OpenFile, NothingYet, AnsweredWriteIsThere, NoWork
  <1>2. ASSUME NEW p \in Paths, NEW kind \in Kinds \cup {"none"}, OtherChanges(p, kind)
        PROVE  FilesInv'
    <2> USE DEF MethodsTypeOK
    <2> DEFINE blocks == IF kind = "file" THEN Payload(-others - 1, 1) ELSE <<>>
               ino == IF node[p].kind = "file" /\ kind = "file" THEN node[p].ino
                      ELSE clock + 1
    <2>1. /\ Put(p, kind, ino, blocks)
          /\ expect' = [expect EXCEPT ![p] = IF Open(p) THEN Unknown ELSE blocks]
          /\ UNCHANGED <<pc, req, count, work>>
      BY <1>2 DEF OtherChanges
    <2>2. blocks \in Seq(Block)
      BY PayloadSeq
    <2>3. ino \in Nat
      BY DEF Node
    <2> HIDE DEF blocks, ino
    <2>4. /\ node'[p] = [kind |-> kind, ino |-> ino, blocks |-> blocks, mtime |-> clock + 1]
          /\ \A q \in Paths \ {p} : node'[q] = node[q]
      BY <2>2, <2>3, <2>1, PutEffect
    <2>5. /\ expect'[p] = IF Open(p) THEN Unknown ELSE blocks
          /\ \A q \in Paths \ {p} : expect'[q] = expect[q]
      BY <2>1
    <2>6. pc \in {"write", "written"} => req.path \in Paths
      BY RequestParts
    <2>7. OpenFile'
      BY <2>1, <2>4, <2>5, <2>6, Holes DEF FilesInv, OpenFile, Open
    <2>8. NothingYet'
      BY <2>1 DEF FilesInv, NothingYet
    <2>9. AnsweredWriteIsThere'
      BY SMTT(60), <2>4, <2>5 DEF FilesInv, AnsweredWriteIsThere
    <2> QED
      BY <2>7, <2>8, <2>9 DEF FilesInv
  <1> QED
    BY <1>1, <1>2 DEF Around

LEMMA FilesStep == MethodsTypeOK /\ FilesInv /\ [Next]_vars => FilesInv'
  <1> SUFFICES ASSUME MethodsTypeOK, FilesInv, [Next]_vars PROVE FilesInv'
    OBVIOUS
  <1>1. CASE UNCHANGED vars
    BY <1>1 DEF FilesInv, OpenFile, NothingYet, AnsweredWriteIsThere, vars
  <1> QED
    BY <1>1, Steps, LookingFiles, ChangingFiles, RunningFiles, AroundFiles

\* What a write was answered with success for is in the file, whole, until the
\* path is written again.
THEOREM AnsweredWriteStays == Spec => []AnsweredWriteIsThere
  <1>1. MethodsTypeOK /\ FilesInv /\ [Next]_vars => (MethodsTypeOK /\ FilesInv)'
    BY TypeStep, FilesStep
  <1>2. FilesInv => AnsweredWriteIsThere
    BY DEF FilesInv
  <1> QED
    BY TypeInit, FilesInit, <1>1, <1>2, PTL DEF Spec

-----------------------------------------------------------------------------
(* The answer of a command: the invariant *)

CommandType == [child : {"none", "running", "doomed", "zero", "nonzero", "killed"},
                piped : BOOLEAN, late : BOOLEAN,
                status : {"none", "success", "zero", "nonzero", "killed", "deadline"}]

LEMMA CommandInit == Init => CommandInv
  BY DEF Init, CommandInv, ExecAnswerTrue, NoCommand, NoAnswer

\* A step about files finds no command, and gives no answer of one.
LEMMA FileStepCommand ==
  ASSUME MethodsTypeOK, CommandInv, Looking \/ Changing
  PROVE  CommandInv'
  <1> USE DEF Rest, fsVars, boundVars, Reply, Refuse, Goes, Goto, At
  <1>1. UNCHANGED <<req, cmd>> /\ pc \notin {"idle", "wait", "drain"}
    BY ZenonT(100)
       DEF Looking, Denied, Stat, LookForDirectory, LookForFile, ReadContent, ReadReply,
           ReadDir, ListEntry, ListReply, LookForParent, LookForTarget,
           OpenOther, Unblocked, OpenFails,
           WriteBreaks, WriteEnds, LookForPath, MkdirFails, MkdirReply,
           Changing, OpenEmptied, OpenAs, WriteBlock, WriteReply, MakeParent, MakePath,
           MakeDirectory
  <1>2. cmd = NoCommand
    BY <1>1 DEF CommandInv
  <1>3. pc' \notin {"wait", "drain"}
    BY <1>1
    DEF Looking, Denied, Stat, LookForDirectory, LookForFile, ReadContent, ReadReply,
           ReadDir, ListEntry, ListReply, LookForParent, LookForTarget,
           OpenOther, Unblocked, OpenFails,
           WriteBreaks, WriteEnds, LookForPath, MkdirFails, MkdirReply,
           Changing, OpenEmptied, OpenAs, WriteBlock, WriteReply, MakeParent, MakePath,
           MakeDirectory
  <1>4. pc' = "idle" /\ req.op = "exec" =>
            \E c \in {"PERMISSION_DENIED", "NOT_A_DIRECTORY", "PATH_NOT_FOUND", "PATH_ERROR"} :
                answer' = [code |-> c]
    <2> SUFFICES ASSUME pc' = "idle", req.op = "exec"
                 PROVE  Denied \/ LookForDirectory
      BY DEF Denied, LookForDirectory, PathError
    <2> QED
      BY <1>1
      DEF Looking, Stat, LookForFile, ReadContent, ReadReply,
           ReadDir, ListEntry, ListReply, LookForParent, LookForTarget,
           OpenOther, Unblocked, OpenFails,
           WriteBreaks, WriteEnds, LookForPath, MkdirFails, MkdirReply,
           Changing, OpenEmptied, OpenAs, WriteBlock, WriteReply, MakeParent, MakePath,
           MakeDirectory
  <1>5. ExecAnswerTrue'
    BY <1>1, <1>2, <1>4 DEF ExecAnswerTrue, NoCommand
  <1> QED
    BY SMTT(60), <1>1, <1>2, <1>3, <1>5 DEF CommandInv, NoCommand

LEMMA RunningCommand ==
  ASSUME MethodsTypeOK, CommandInv, Running
  PROVE  CommandInv'
  <1> USE DEF Rest, CmdRest, fsVars, boundVars, Reply, Refuse, Goes, Goto, At
  <1>t. cmd \in CommandType
    BY DEF MethodsTypeOK, CommandType
  <1>1. CASE CommandStarts
    BY <1>1 DEF CommandStarts, CommandInv, ExecAnswerTrue, NoCommand
  <1>2. CASE StartFails
    BY <1>2 DEF StartFails, CommandInv, ExecAnswerTrue, NoCommand
  <1>3. CASE CommandExits
    <2>1. /\ pc = "wait" /\ pc' = "wait"
          /\ cmd'.child \in {"zero", "nonzero"} /\ cmd'.status = cmd.status
          /\ cmd'.late = cmd.late
      BY <1>t, <1>3 DEF CommandExits, CommandInv, CommandType
    <2> QED
      BY <2>1 DEF CommandInv, ExecAnswerTrue
  <1>4. CASE CommandKilled
    <2>1. /\ pc = "wait" /\ pc' = "wait" /\ cmd.child = "doomed"
          /\ cmd'.child = "killed" /\ cmd'.status = cmd.status
          /\ cmd'.late = cmd.late
      BY <1>t, <1>4 DEF CommandKilled, CommandInv, CommandType
    <2> QED
      BY <2>1 DEF CommandInv, ExecAnswerTrue
  <1>5. CASE OutputCloses
    <2>1. /\ UNCHANGED <<pc, req, answer>> /\ pc \in {"idle", "wait", "drain"}
          /\ cmd'.child = cmd.child /\ cmd'.status = cmd.status /\ cmd'.late = cmd.late
      BY <1>t, <1>5 DEF OutputCloses, CommandInv, CommandType, NoCommand
    <2> QED
      BY <2>1 DEF CommandInv, ExecAnswerTrue
  <1>6. CASE Deadline
    <2>1. /\ pc \in {"wait", "drain"} /\ pc' = pc
          /\ cmd'.late
          /\ cmd'.child = (IF cmd.child = "running" THEN "doomed" ELSE cmd.child)
          /\ cmd'.status = (IF pc = "wait" THEN "deadline" ELSE cmd.status)
      BY <1>t, <1>6 DEF Deadline, CommandType
    <2> QED
      BY <2>1 DEF CommandInv, ExecAnswerTrue
  <1>7. CASE Reap
    <2>1. /\ pc = "wait" /\ pc' = "drain" /\ cmd.child \in {"zero", "nonzero", "killed"}
          /\ cmd'.child = cmd.child /\ cmd'.late = cmd.late
          /\ cmd'.status = (CASE cmd.child # "zero" -> cmd.child
                              [] cmd.child = "zero" /\ cmd.status = "deadline" -> cmd.status
                              [] OTHER -> "success")
      BY <1>t, <1>7 DEF Reap, CommandType
    <2> QED
      BY <2>1 DEF CommandInv, ExecAnswerTrue
  <1>8. CASE ExecReply
    <2>1. /\ pc = "drain" /\ pc' = "idle" /\ UNCHANGED <<req, cmd>>
          /\ \/ cmd.status = "success" /\ answer' = [code |-> "ok", exit |-> "zero"]
             \/ cmd.status # "success" /\ cmd.late /\ answer' = [code |-> "EXEC_TIMEOUT"]
             \/ /\ cmd.status # "success" /\ ~cmd.late
                /\ answer' = [code |-> "ok", exit |-> cmd.status]
      BY <1>8 DEF ExecReply
    <2> QED
      BY <2>1 DEF CommandInv, ExecAnswerTrue
  <1> QED
    BY <1>1, <1>2, <1>3, <1>4, <1>5, <1>6, <1>7, <1>8 DEF Running

LEMMA AroundCommand ==
  ASSUME MethodsTypeOK, CommandInv, Around
  PROVE  CommandInv'
  <1> USE DEF Reply, Refuse, Goto
  <1>1. ASSUME NEW r \in Requests, Begin(r)
        PROVE  CommandInv'
    BY <1>1 DEF Begin, CommandInv, ExecAnswerTrue, NoCommand
  <1>2. CASE RefusedAtOnce
    BY <1>2 DEF RefusedAtOnce, CommandInv, ExecAnswerTrue, NoCommand
  <1>3. CASE Crash
    BY <1>3 DEF Crash, CommandInv, ExecAnswerTrue, NoCommand, NoAnswer
  <1>4. ASSUME NEW p \in Paths, NEW kind \in Kinds \cup {"none"}, OtherChanges(p, kind)
        PROVE  CommandInv'
    <2>1. UNCHANGED <<pc, req, cmd, answer>>
      BY <1>4 DEF OtherChanges
    <2> QED
      BY <2>1 DEF CommandInv, ExecAnswerTrue
  <1> QED
    BY <1>1, <1>2, <1>3, <1>4 DEF Around

LEMMA CommandStep == MethodsTypeOK /\ CommandInv /\ [Next]_vars => CommandInv'
  <1> SUFFICES ASSUME MethodsTypeOK, CommandInv, [Next]_vars PROVE CommandInv'
    OBVIOUS
  <1>1. CASE UNCHANGED vars
    BY <1>1 DEF CommandInv, ExecAnswerTrue, vars
  <1> QED
    BY <1>1, Steps, FileStepCommand, RunningCommand, AroundCommand

\* What the answer of a command says of its process is true.
THEOREM CommandAnswered == Spec => []ExecAnswerTrue
  <1>1. MethodsTypeOK /\ CommandInv /\ [Next]_vars => (MethodsTypeOK /\ CommandInv)'
    BY TypeStep, CommandStep
  <1>2. CommandInv => ExecAnswerTrue
    BY DEF CommandInv
  <1> QED
    BY TypeInit, CommandInit, <1>1, <1>2, PTL DEF Spec

-----------------------------------------------------------------------------
(* An answer is true: the invariant *)

\* An answer that says nothing of what was read, listed or made.
Plain(a) == DOMAIN a \cap {"read", "list", "created"} = {}

LEMMA PlainAnswers ==
  /\ Plain(NoAnswer)
  /\ \A c : Plain([code |-> c])
  /\ \A c, e : Plain([code |-> c, exists |-> e])
  /\ \A c, n : Plain([code |-> c, written |-> n])
  /\ \A c, e : Plain([code |-> c, exit |-> e])
  BY DEF Plain, NoAnswer

LEMMA PlainIsTrue ==
  ASSUME Plain(answer)
  PROVE  AnswerWasTrue
  BY DEF Plain, AnswerWasTrue

LEMMA AnswerInit == Init => AnswerInv
  <1> SUFFICES ASSUME Init PROVE AnswerInv
    OBVIOUS
  <1>1. pc = "idle" /\ work.got = {} /\ answer = NoAnswer /\ clock = 0
    BY DEF Init, NoWork
  <1>2. \A p \in Paths : node[p].mtime = 0
    <2>1. /\ None.mtime = 0 /\ \A k : [None EXCEPT !.kind = k].mtime = 0
          /\ \A b : [None EXCEPT !.kind = "file", !.blocks = b].mtime = 0
      BY DEF None
    <2>2. \A p \in Paths : \/ node[p] = None
                           \/ \E k : node[p] = [None EXCEPT !.kind = k]
                           \/ \E b : node[p] = [None EXCEPT !.kind = "file", !.blocks = b]
      BY DEF Init
    <2> QED
      BY <2>1, <2>2
  <1>3. AnswerWasTrue
    BY <1>1, PlainAnswers, PlainIsTrue
  <1> QED
    BY <1>1, <1>2, <1>3 DEF AnswerInv, Followed, Stamps, Gathered, Unanswered, StageOfOp

\* The steps about files but for ListEntry and the replies that say something.
Quiet ==
    \/ Denied \/ Stat \/ LookForDirectory \/ LookForFile \/ ReadContent
    \/ ReadDir \/ LookForParent \/ LookForTarget
    \/ OpenOther \/ Unblocked \/ OpenFails \/ WriteBreaks \/ WriteEnds
    \/ MkdirFails

LEMMA QuietAnswer ==
  ASSUME MethodsTypeOK, AnswerInv, Quiet
  PROVE  AnswerInv'
  <1> USE DEF Rest, fsVars, boundVars, Reply, Refuse, Goes, Goto, At
  <1>1. UNCHANGED <<node, clock, ever, steady, req>> /\ pc # "idle"
    BY DEF Quiet, Denied, Stat, LookForDirectory, LookForFile, ReadContent,
           ReadDir, LookForParent, LookForTarget,
           OpenOther, Unblocked, OpenFails, WriteBreaks, WriteEnds, MkdirFails
  <1>2. answer = NoAnswer
    BY <1>1 DEF AnswerInv, Unanswered
  <1>3. /\ pc' # "idle" => answer' = NoAnswer
        /\ Plain(answer')
    BY <1>2, PlainAnswers
    DEF Quiet, Denied, Stat, LookForDirectory, LookForFile, ReadContent,
        ReadDir, LookForParent, LookForTarget,
        OpenOther, Unblocked, OpenFails, WriteBreaks, WriteEnds, MkdirFails
  <1>4. AnswerWasTrue'
    BY <1>3 DEF Plain, AnswerWasTrue
  <1>5. Followed'
    BY <1>1 DEF AnswerInv, Followed, Existing, Lookup
  <1>6. StageOfOp'
    BY <1>1
    DEF Quiet, Denied, Stat, LookForDirectory, LookForFile, ReadContent, ReadDir,
        LookForParent, LookForTarget,
        OpenOther, Unblocked, OpenFails, WriteBreaks, WriteEnds, MkdirFails,
        StageOfOp
  <1>7. CASE LookForFile
    <2>1. \/ pc' = "idle" /\ work' = NoWork
          \/ pc' = "run" /\ work' = [work EXCEPT !.seen = node[req.path].mtime]
      BY <1>7 DEF LookForFile
    <2>2. req.path \in Paths /\ pc = "look"
      BY <1>1, <1>7, RequestParts DEF MethodsTypeOK, LookForFile
    <2>3. node[req.path].mtime \in Nat
      BY <2>2 DEF MethodsTypeOK, Node
    <2>4. work'.got = {} /\ (pc' = "run" => work'.seen = node[req.path].mtime)
      BY <2>1, <2>2 DEF AnswerInv, Gathered, MethodsTypeOK, Work, NoWork
    <2>5. Stamps'
      BY <1>1, <2>1, <2>3, <2>4 DEF AnswerInv, Stamps
    <2>6. Gathered'
      BY <2>1, <2>4 DEF Gathered
    <2> QED
      BY <1>3, <1>4, <1>5, <1>6, <2>5, <2>6 DEF AnswerInv, Unanswered
  <1>8. CASE ReadContent
    <2>1. \/ pc' = "idle" /\ work' = NoWork
          \/ pc' = "blocked" /\ UNCHANGED work
          \/ pc' = "gathered" /\ work' = [work EXCEPT !.got = {node[req.path]}]
      BY <1>8 DEF ReadContent
    <2>2. pc = "run" /\ req.op = "read"
      BY <1>8 DEF ReadContent
    <2>3. pc' = "gathered" => work'.got = {node[req.path]} /\ work'.seen = work.seen
      BY <2>1 DEF MethodsTypeOK, Work
    <2>4. Stamps'
      BY <1>1, <2>1, <2>2, <2>3 DEF AnswerInv, Stamps
    <2>5. Gathered'
      BY <2>1, <2>2 DEF AnswerInv, Gathered, NoWork
    <2> QED
      BY <1>3, <1>4, <1>5, <1>6, <2>4, <2>5 DEF AnswerInv, Unanswered
  <1>9. CASE ReadDir
    <2>1. \/ pc' = "idle" /\ work' = NoWork
          \/ /\ pc' = "entries"
             /\ work' = [work EXCEPT !.left = IF req.path = Dir
                         THEN {p \in Names : node[p].kind # "none"} ELSE {}]
      BY <1>9 DEF ReadDir
    <2>2. pc = "run"
      BY <1>9 DEF ReadDir
    <2>3. pc' = "entries" =>
            /\ work'.got = {}
            /\ req.path = Dir => work'.left = {p \in Names : node[p].kind # "none"}
      BY <2>1, <2>2 DEF AnswerInv, Gathered, MethodsTypeOK, Work
    <2>4. \A p \in steady \cap Names : node[p].kind # "none"
      <3> SUFFICES ASSUME NEW p \in steady \cap Names PROVE node[p].kind # "none"
        OBVIOUS
      <3>1. p \in Existing(node)
        BY <1>1 DEF AnswerInv, Followed
      <3>2. Lookup(p) \in Kinds /\ p \in Paths
        BY <3>1 DEF Existing, Lookup
      <3> QED
        BY <3>2, Looked, KindsAre
    <2>5. Gathered'
      BY <1>1, <2>1, <2>3, <2>4 DEF Gathered, NoWork
    <2>6. Stamps'
      BY <1>1, <2>1 DEF AnswerInv, Stamps
    <2> QED
      BY <1>3, <1>4, <1>5, <1>6, <2>5, <2>6 DEF AnswerInv, Unanswered
  <1>10. CASE Unblocked
    <2>1. /\ pc = "blocked" /\ pc' \in {"idle", "gathered", "passed"}
          /\ work' = NoWork \/ UNCHANGED work
          /\ pc' = "idle" => work' = NoWork
          /\ pc' = "gathered" => req.op = "read"
      BY <1>10 DEF Unblocked
    <2>2. pc' \in {"idle", "gathered"} => work'.got = {}
      BY <2>1 DEF AnswerInv, Gathered, NoWork
    <2>3. Stamps' /\ Gathered'
      BY <1>1, <2>1, <2>2 DEF AnswerInv, Stamps, Gathered
    <2> QED
      BY <1>3, <1>4, <1>5, <1>6, <2>3 DEF AnswerInv, Unanswered
  <1>11. CASE ~(LookForFile \/ ReadContent \/ ReadDir \/ Unblocked)
    <2>1. /\ pc' \notin {"gathered", "entries", "made"}
          /\ work' = NoWork \/ UNCHANGED work
          /\ pc' = "idle" => work' = NoWork
          /\ pc' = "run" => req.op # "read" /\ pc = "look" /\ UNCHANGED work
          /\ pc' # "look"
          /\ pc' = "blocked" => req.op = "write"
      BY <1>11
      DEF Quiet, Denied, Stat, LookForDirectory, LookForParent, LookForTarget,
          OpenOther, OpenFails, WriteBreaks, WriteEnds, MkdirFails
    <2>2. Stamps'
      BY <1>1, <2>1 DEF AnswerInv, Stamps
    <2>3. Gathered'
      BY <1>1, <2>1 DEF AnswerInv, Gathered, NoWork
    <2> QED
      BY <1>3, <1>4, <1>5, <1>6, <2>2, <2>3 DEF AnswerInv, Unanswered
  <1> QED
    BY <1>7, <1>8, <1>9, <1>10, <1>11

\* A reply leaves the file system and the history as they are.
LEMMA Replied ==
  ASSUME MethodsTypeOK, AnswerInv, UNCHANGED <<node, clock, ever, steady>>,
         work' = NoWork, pc' = "idle", AnswerWasTrue'
  PROVE  AnswerInv'
  BY DEF AnswerInv, Followed, Stamps, Gathered, Unanswered, StageOfOp, NoWork

LEMMA LookingAnswer ==
  ASSUME MethodsTypeOK, AnswerInv, Looking
  PROVE  AnswerInv'
  <1> USE DEF Rest, fsVars, boundVars, Reply, Refuse, Goes, Goto, At
  <1>1. CASE ReadReply
    <2>1. /\ UNCHANGED <<node, clock, ever, steady, req>> /\ work' = NoWork /\ pc' = "idle"
          /\ pc = "gathered"
          /\ \/ Plain(answer')
             \/ answer' = [code |-> "ok", read |-> work.got, mtime |-> work.seen]
      BY <1>1, PlainAnswers DEF ReadReply
    <2>2. \A f \in work.got : work.seen <= f.mtime
      BY <2>1 DEF AnswerInv, Stamps
    <2>3. AnswerWasTrue'
      BY <2>1, <2>2 DEF AnswerWasTrue, Plain
    <2> QED
      BY <2>1, <2>3, Replied
  <1>2. CASE ListReply
    <2>1. /\ UNCHANGED <<node, clock, ever, steady, req>> /\ work' = NoWork /\ pc' = "idle"
          /\ pc = "entries" /\ work.left = {}
          /\ answer' = [code |-> "ok", list |-> work.got]
      BY <1>2 DEF ListReply
    <2>2. /\ work.got \subseteq ever
          /\ req.path = Dir => steady \cap Names \subseteq {e[1] : e \in work.got}
      BY <2>1 DEF AnswerInv, Gathered
    <2>3. AnswerWasTrue'
      BY <2>1, <2>2 DEF AnswerWasTrue
    <2> QED
      BY <2>1, <2>3, Replied
  <1>3. CASE MkdirReply
    <2>1. /\ UNCHANGED <<node, clock, ever, steady, req>> /\ work' = NoWork /\ pc' = "idle"
          /\ pc = "made"
          /\ \/ Plain(answer')
             \/ answer' = [code |-> "ok", created |-> TRUE]
      BY <1>3, PlainAnswers DEF MkdirReply
    <2>2. <<req.path, "dir">> \in ever
      BY <2>1 DEF AnswerInv, Gathered
    <2>3. AnswerWasTrue'
      BY <2>1, <2>2 DEF AnswerWasTrue, Plain
    <2> QED
      BY <2>1, <2>3, Replied
  <1>4. CASE LookForPath
    <2>1. /\ UNCHANGED <<node, clock, ever, steady, req>> /\ pc = "look" /\ req.op = "mkdir"
          /\ \/ pc' = "idle" /\ work' = NoWork /\ Plain(answer')
             \/ /\ Lookup(req.path) = "dir" /\ pc' = "idle" /\ work' = NoWork
                /\ answer' = [code |-> "ok", created |-> FALSE]
             \/ pc' \in {"mkparent", "mkdir"} /\ UNCHANGED <<work, answer>>
      BY <1>4, PlainAnswers DEF LookForPath
    <2>2. CASE pc' = "idle"
      <3>1. req.path \in Paths
        BY <2>1, RequestParts DEF MethodsTypeOK
      <3>2. Lookup(req.path) = "dir" => <<req.path, "dir">> \in ever
        BY <2>1, <3>1, KindsAre DEF AnswerInv, Followed, Existing, Lookup
      <3>3. AnswerWasTrue'
        BY <2>1, <2>2, <3>2 DEF AnswerWasTrue, Plain
      <3> QED
        BY <2>1, <2>2, <3>3, Replied
    <2>3. CASE pc' # "idle"
      <3>1. answer' = NoAnswer
        BY <2>1, <2>3 DEF AnswerInv, Unanswered
      <3>2. AnswerWasTrue'
        BY <3>1, PlainAnswers DEF AnswerWasTrue, Plain
      <3> QED
        BY <2>1, <2>3, <3>1, <3>2
        DEF AnswerInv, Followed, Stamps, Gathered, Unanswered, StageOfOp, Existing, Lookup
    <2> QED
      BY <2>2, <2>3
  <1>5. ASSUME NEW p \in Names, ListEntry(p)
        PROVE  AnswerInv'
    <2>1. /\ UNCHANGED <<node, clock, ever, steady, req, pc, answer>>
          /\ pc = "entries" /\ req.op = "list"
          /\ work' = IF Lookup(p) \in Kinds
                THEN [work EXCEPT !.left = @ \ {p}, !.got = @ \cup {<<p, Lookup(p)>>}]
                ELSE [work EXCEPT !.left = @ \ {p}]
      BY <1>5 DEF ListEntry
    <2>2. /\ work'.left = work.left \ {p}
          /\ Lookup(p) \in Kinds => work'.got = work.got \cup {<<p, Lookup(p)>>}
          /\ Lookup(p) \notin Kinds => work'.got = work.got
      BY <2>1 DEF MethodsTypeOK, Work
    <2>3. p \in Paths /\ steady \subseteq Existing(node)
      BY <2>1 DEF Paths, AnswerInv, Followed
    <2>4. Lookup(p) \in Kinds <=> p \in Existing(node)
      BY <2>3 DEF Existing, Lookup
    <2>5. Lookup(p) \in Kinds => <<p, Lookup(p)>> \in ever
      BY <2>1, <2>4 DEF AnswerInv, Followed
    <2>6. work'.got \subseteq ever
      BY <2>1, <2>2, <2>5 DEF AnswerInv, Gathered
    <2>7. ASSUME req.path = Dir, NEW q \in steady \cap Names
          PROVE  q \in work'.left \cup {e[1] : e \in work'.got}
      <3>1. q \in work.left \cup {e[1] : e \in work.got}
        BY <2>1, <2>7 DEF AnswerInv, Gathered
      <3>2. CASE q = p
        <4>1. <<p, Lookup(p)>> \in work'.got
          BY <2>2, <2>3, <2>4, <2>7, <3>2
        <4>2. <<p, Lookup(p)>>[1] = p
          OBVIOUS
        <4> QED
          BY <3>2, <4>1, <4>2
      <3>3. CASE q # p
        BY <2>2, <3>1, <3>3
      <3> QED
        BY <3>2, <3>3
    <2>8. Gathered'
      BY <2>1, <2>6, <2>7 DEF Gathered
    <2>9. answer' = NoAnswer
      BY <2>1 DEF AnswerInv, Unanswered
    <2>10. AnswerWasTrue'
      BY <2>9, PlainAnswers DEF AnswerWasTrue, Plain
    <2> QED
      BY <2>1, <2>8, <2>9, <2>10
      DEF AnswerInv, Followed, Stamps, Unanswered, StageOfOp, Existing, Lookup
  <1>6. CASE Quiet
    BY <1>6, QuietAnswer
  <1> QED
    BY <1>1, <1>2, <1>3, <1>4, <1>5, <1>6 DEF Looking, Quiet

\* A change of the files in the course of a request.
LEMMA PutAnswer ==
  ASSUME MethodsTypeOK, AnswerInv, UNCHANGED req,
         NEW p \in Paths, NEW kind \in Kinds \cup {"none"},
         NEW ino \in Nat, NEW blocks \in Seq(Block), Put(p, kind, ino, blocks)
  PROVE  /\ pc' # "idle" /\ pc # "idle" => Followed'
         /\ UNCHANGED <<pc, work>> => Stamps'
         /\ pc' \notin {"run", "gathered"} => Stamps'
         /\ UNCHANGED <<pc, work>> => Gathered'
  <1>1. /\ clock' = clock + 1 /\ clock \in Nat
        /\ node'[p] = [kind |-> kind, ino |-> ino, blocks |-> blocks, mtime |-> clock + 1]
        /\ \A q \in Paths \ {p} : node'[q] = node[q]
        /\ ever \subseteq ever' /\ steady' \subseteq steady
    <2>1. clock \in Nat
      BY DEF MethodsTypeOK
    <2>2. /\ clock' = clock + 1
          /\ node'[p] = [kind |-> kind, ino |-> ino, blocks |-> blocks, mtime |-> clock + 1]
          /\ \A q \in Paths \ {p} : node'[q] = node[q]
          /\ ever \subseteq ever' /\ steady' \subseteq steady
      BY PutEffect
    <2> QED
      BY <2>1, <2>2
  <1>2. ASSUME pc # "idle", pc' # "idle"
        PROVE  Followed'
    <2>1. /\ \A q \in Existing(node') : <<q, LookupIn(node', q)>> \in ever'
          /\ steady' \subseteq Existing(node')
      BY <1>2, PutEffect
    <2> QED
      BY <2>1 DEF Followed, Lookup
  <1>3. \A q \in Paths : node'[q].mtime <= clock'
    <2>1. \A q \in Paths : node[q].mtime \in Nat /\ node[q].mtime <= clock
      BY DEF MethodsTypeOK, Node, AnswerInv, Stamps
    <2> QED
      BY <1>1, <2>1
  <1>4. ASSUME UNCHANGED <<pc, work>>
        PROVE  Stamps'
    <2>1. ASSUME pc = "run", req.op = "read"
          PROVE  work.seen <= node'[req.path].mtime
      <3>1. req.path \in Paths
        BY <2>1, RequestParts DEF MethodsTypeOK
      <3>2. /\ work.seen \in Nat /\ node[req.path].mtime \in Nat
            /\ work.seen <= node[req.path].mtime /\ node[req.path].mtime <= clock
        BY <2>1, <3>1 DEF MethodsTypeOK, Node, Work, AnswerInv, Stamps
      <3>3. CASE req.path = p
        BY <1>1, <3>2, <3>3
      <3>4. CASE req.path # p
        BY <1>1, <3>1, <3>2, <3>4
      <3> QED
        BY <3>3, <3>4
    <2> QED
      BY <1>3, <1>4, <2>1 DEF AnswerInv, Stamps
  <1>5. pc' \notin {"run", "gathered"} => Stamps'
    BY <1>3 DEF Stamps
  <1>6. UNCHANGED <<pc, work>> => Gathered'
    <2> SUFFICES ASSUME UNCHANGED <<pc, work>> PROVE Gathered'
      OBVIOUS
    <2>1. Gathered
      BY DEF AnswerInv
    <2> QED
      BY <1>1, <2>1 DEF Gathered
  <1> QED
    BY <1>2, <1>4, <1>5, <1>6

LEMMA ChangingAnswer ==
  ASSUME MethodsTypeOK, AnswerInv, Changing
  PROVE  AnswerInv'
  <1> USE DEF MethodsTypeOK
  <1>1. /\ pc # "idle" /\ req \in Requests /\ req.path \in Paths
        /\ UNCHANGED <<req, count>>
    BY RequestParts
    DEF Changing, OpenEmptied, OpenAs, WriteBlock, WriteReply, MakeParent, MakePath,
        MakeDirectory, At, Rest, boundVars
  <1>e. <<>> \in Seq(Block) /\ Dir \in Paths
    BY DEF Paths
  <1>n. work.at \in Nat /\ work.ino \in Nat /\ count \in Int /\ clock + 1 \in Nat
    BY DEF Work
  <1>a. answer = NoAnswer
    BY <1>1 DEF AnswerInv, Unanswered
  <1>b. UNCHANGED answer => AnswerWasTrue'
    BY <1>a, PlainAnswers DEF AnswerWasTrue, Plain
  <1>2. CASE OpenEmptied
    <2> DEFINE ino == IF node[req.path].kind = "file" THEN node[req.path].ino ELSE clock + 1
    <2>1. ino \in Nat
      BY <1>1 DEF Node
    <2>2. /\ Put(req.path, "file", ino, <<>>) /\ pc' = "write" /\ UNCHANGED answer
          /\ req.op = "write"
      BY <1>2 DEF OpenEmptied, OpenAs, Goto, At
    <2> HIDE DEF ino
    <2>3. Followed' /\ Stamps'
      BY <1>1, <1>e, <2>1, <2>2, PutAnswer, KindsAre
    <2> QED
      BY <1>1, <1>a, <1>b, <2>2, <2>3 DEF AnswerInv, Gathered, Unanswered, StageOfOp
  <1>3. CASE WriteBlock
    <2> DEFINE at == work.at + 1
               old == node[req.path].blocks
               b == <<count, at, req.len>>
    <2>1. pc = "write" /\ req.op = "write" /\ req.len \in Nat
      BY <1>1, <1>3, RequestParts DEF WriteBlock, At
    <2>2. old \in Seq(Block)
      <3>1. node[req.path] \in Node
        BY <1>1
      <3> QED
        BY <3>1 DEF Node
    <2>3. b \in Block /\ at \in Nat \ {0}
      BY <1>n, <2>1 DEF Block
    <2>4. /\ UNCHANGED <<pc, answer>>
          /\ \/ Put(req.path, "file", work.ino, Overwritten(old, at, b))
             \/ UNCHANGED <<node, clock, ever, steady>>
      BY <1>3 DEF WriteBlock, Overwritten
    <2> HIDE DEF at, old, b
    <2>5. Overwritten(old, at, b) \in Seq(Block)
      BY <2>2, <2>3, BlockWritten
    <2>6. Followed' /\ Stamps'
      <3>1. CASE Put(req.path, "file", work.ino, Overwritten(old, at, b))
        BY <1>1, <1>n, <2>1, <2>4, <2>5, <3>1, PutAnswer, KindsAre
      <3>2. CASE UNCHANGED <<node, clock, ever, steady>>
        BY <1>1, <2>1, <2>4, <3>2 DEF AnswerInv, Followed, Stamps, Existing, Lookup
      <3> QED
        BY <2>4, <3>1, <3>2
    <2> QED
      BY <1>1, <1>a, <1>b, <2>1, <2>4, <2>6 DEF AnswerInv, Gathered, Unanswered, StageOfOp
  <1>4. CASE WriteReply
    <2>1. /\ UNCHANGED <<node, clock, ever, steady>> /\ work' = NoWork /\ pc' = "idle"
          /\ Plain(answer')
      BY <1>4, PlainAnswers DEF WriteReply, Refuse, Reply, Goto
    <2>2. AnswerWasTrue'
      BY <2>1 DEF AnswerWasTrue, Plain
    <2> QED
      BY <2>1, <2>2, Replied
  <1>5. ASSUME NEW p \in Paths, NEW next \in {"mkdir", "made"}, MakeDirectory(p, next),
               pc \in {"mkparent", "mkdir"}, req.op = "mkdir", next = "made" => p = req.path
        PROVE  AnswerInv'
    <2>1. /\ Put(p, "dir", clock + 1, <<>>) /\ UNCHANGED answer /\ pc' = next
          /\ Parent(p) = "dir"
      BY <1>5 DEF MakeDirectory, Goto
    <2>2. Followed' /\ Stamps'
      BY <1>1, <1>e, <1>n, <2>1, PutAnswer, KindsAre
    <2>3. /\ node'[p].kind = "dir" /\ node' \in [Paths -> Node]
          /\ \A q \in Paths \ {p} : node'[q] = node[q]
      <3> DEFINE empty == <<>>
      <3>1. empty \in Seq(Block) /\ Put(p, "dir", clock + 1, empty)
        BY <1>e, <2>1
      <3> HIDE DEF empty
      <3>2. /\ node'[p] = [kind |-> "dir", ino |-> clock + 1, blocks |-> empty, mtime |-> clock + 1]
            /\ \A q \in Paths \ {p} : node'[q] = node[q]
        BY <1>n, <3>1, PutEffect, KindsAre
      <3>3. node' \in [Paths -> Node]
        BY <1>n, <3>1, PutEffect, KindsAre
      <3> QED
        BY <3>2, <3>3
    <2>4. LookupIn(node', p) = "dir"
      <3>1. CASE p \in Names
        <4>1. p # Dir
          BY <3>1, MethodsAssumption
        <4>2. node[Dir].kind = "dir"
          BY <2>1, <3>1, MethodsAssumption DEF Parent, Lookup, LookupIn
        <4> QED
          BY <1>e, <2>3, <4>1, <4>2 DEF LookupIn
      <3>2. CASE p \notin Names
        BY <2>3, <3>2 DEF LookupIn
      <3> QED
        BY <3>1, <3>2
    <2>5. <<p, "dir">> \in ever'
      BY <1>5, <2>1, <2>2, <2>4, KindsAre DEF Followed, Existing, Lookup
    <2>6. Gathered'
      BY <1>1, <1>5, <2>1, <2>5 DEF Gathered
    <2> QED
      BY <1>1, <1>5, <1>a, <1>b, <2>1, <2>2, <2>6 DEF AnswerInv, Unanswered, StageOfOp
  <1>6. ASSUME NEW l \in {"mkdir", "made"}, Goes(l) /\ Rest, pc \in {"mkparent", "mkdir"},
               req.op = "mkdir", l = "made" => Lookup(req.path) = "dir"
        PROVE  AnswerInv'
    <2>1. UNCHANGED <<node, clock, ever, steady, answer, req>> /\ pc' = l
      BY <1>6 DEF Goes, Goto, Rest, fsVars
    <2>2. l = "made" => <<req.path, "dir">> \in ever
      BY <1>1, <1>6, KindsAre DEF AnswerInv, Followed, Existing, Lookup
    <2> QED
      BY <1>1, <1>6, <1>a, <1>b, <2>1, <2>2
      DEF AnswerInv, Followed, Stamps, Gathered, Unanswered, StageOfOp, Existing, Lookup
  <1>7. CASE MakeParent
    <2>1. pc = "mkparent" /\ req.op = "mkdir"
      BY <1>7 DEF MakeParent, At
    <2>2. \/ MakeDirectory(Dir, "mkdir") \/ (Goes("mkdir") /\ Rest)
      BY <1>7 DEF MakeParent
    <2> QED
      BY <1>e, <1>5, <1>6, <2>1, <2>2
  <1>8. CASE MakePath
    <2>1. pc = "mkdir" /\ req.op = "mkdir"
      BY <1>8 DEF MakePath, At
    <2>2. \/ MakeDirectory(req.path, "made")
          \/ (Lookup(req.path) = "dir" /\ Goes("made") /\ Rest)
      BY <1>8 DEF MakePath
    <2> QED
      BY <1>1, <1>5, <1>6, <2>1, <2>2
  <1> QED
    BY <1>2, <1>3, <1>4, <1>7, <1>8 DEF Changing

LEMMA RunningAnswer ==
  ASSUME MethodsTypeOK, AnswerInv, Running
  PROVE  AnswerInv'
  <1> USE DEF Rest, CmdRest, fsVars, boundVars, Reply, Refuse, Goes, Goto, At
  <1>1. UNCHANGED <<node, clock, ever, steady, req>>
    BY DEF Running, CommandStarts, StartFails, Reap, ExecReply, CommandExits,
           CommandKilled, OutputCloses, Deadline
  <1>2. \/ UNCHANGED <<pc, work, answer>>
        \/ pc' = "idle" /\ work' = NoWork /\ Plain(answer')
        \/ /\ pc # "idle" /\ pc' \in {"wait", "drain"} /\ req.op = "exec"
           /\ UNCHANGED <<work, answer>>
    BY PlainAnswers
    DEF Running, CommandStarts, StartFails, Reap, ExecReply, CommandExits,
           CommandKilled, OutputCloses, Deadline
  <1>3. CASE UNCHANGED <<pc, work, answer>>
    BY <1>1, <1>3
    DEF AnswerInv, Followed, Stamps, Gathered, Unanswered, StageOfOp, AnswerWasTrue,
        Existing, Lookup
  <1>4. CASE pc' = "idle" /\ work' = NoWork /\ Plain(answer')
    <2>1. AnswerWasTrue'
      BY <1>4 DEF AnswerWasTrue, Plain
    <2> QED
      BY <1>1, <1>4, <2>1, Replied
  <1>5. CASE /\ pc # "idle" /\ pc' \in {"wait", "drain"} /\ req.op = "exec"
             /\ UNCHANGED <<work, answer>>
    <2>1. answer = NoAnswer
      BY <1>5 DEF AnswerInv, Unanswered
    <2>2. AnswerWasTrue'
      BY <1>5, <2>1, PlainAnswers DEF AnswerWasTrue, Plain
    <2> QED
      BY <1>1, <1>5, <2>1, <2>2
      DEF AnswerInv, Followed, Stamps, Gathered, Unanswered, StageOfOp, Existing, Lookup
  <1> QED
    BY <1>2, <1>3, <1>4, <1>5

LEMMA AroundAnswer ==
  ASSUME MethodsTypeOK, AnswerInv, Around
  PROVE  AnswerInv'
  <1> USE DEF Reply, Refuse, Goto
  <1>1. ASSUME NEW r \in Requests, Begin(r)
        PROVE  AnswerInv'
    <2>1. /\ UNCHANGED <<node, clock, work>> /\ pc = "idle" /\ pc' = "look"
          /\ answer' = NoAnswer
          /\ ever' = {<<q, Lookup(q)>> : q \in Existing(node)}
          /\ steady' = Existing(node)
      BY <1>1 DEF Begin
    <2>2. Followed'
      BY <2>1 DEF Followed, Existing, Lookup
    <2>3. AnswerWasTrue'
      BY <2>1, PlainAnswers DEF AnswerWasTrue, Plain
    <2> QED
      BY <2>1, <2>2, <2>3 DEF AnswerInv, Stamps, Gathered, Unanswered, StageOfOp
  <1>2. CASE RefusedAtOnce \/ Crash
    <2>1. /\ UNCHANGED <<node, clock, ever, steady>> /\ work' = NoWork /\ pc' = "idle"
          /\ Plain(answer')
      BY <1>2, PlainAnswers DEF RefusedAtOnce, Crash, fsVars
    <2>2. AnswerWasTrue'
      BY <2>1 DEF AnswerWasTrue, Plain
    <2> QED
      BY <2>1, <2>2, Replied
  <1>3. ASSUME NEW p \in Paths, NEW kind \in Kinds \cup {"none"}, OtherChanges(p, kind)
        PROVE  AnswerInv'
    <2> USE DEF MethodsTypeOK
    <2> DEFINE blocks == IF kind = "file" THEN Payload(-others - 1, 1) ELSE <<>>
               ino == IF node[p].kind = "file" /\ kind = "file" THEN node[p].ino
                      ELSE clock + 1
    <2>1. /\ Put(p, kind, ino, blocks)
          /\ UNCHANGED <<pc, req, work, answer>>
      BY <1>3 DEF OtherChanges
    <2>2. blocks \in Seq(Block)
      BY PayloadSeq
    <2>3. ino \in Nat
      BY DEF Node
    <2> HIDE DEF blocks, ino
    <2>4. Stamps' /\ Gathered' /\ (pc # "idle" => Followed')
      BY <2>1, <2>2, <2>3, PutAnswer, KindsAre
    <2>5. Followed'
      BY <2>1, <2>4 DEF Followed
    <2>6. AnswerWasTrue'
      <3>1. CASE pc = "idle"
        <4>1. UNCHANGED <<ever, steady>>
          BY <2>1, <3>1 DEF Put
        <4> QED
          BY <2>1, <4>1 DEF AnswerInv, AnswerWasTrue
      <3>2. CASE pc # "idle"
        <4>1. answer' = NoAnswer
          BY <2>1, <3>2 DEF AnswerInv, Unanswered
        <4> QED
          BY <4>1, PlainAnswers DEF AnswerWasTrue, Plain
      <3> QED
        BY <3>1, <3>2
    <2> QED
      BY <2>1, <2>4, <2>5, <2>6 DEF AnswerInv, Unanswered, StageOfOp
  <1> QED
    BY <1>1, <1>2, <1>3 DEF Around

LEMMA AnswerStep == MethodsTypeOK /\ AnswerInv /\ [Next]_vars => AnswerInv'
  <1> SUFFICES ASSUME MethodsTypeOK, AnswerInv, [Next]_vars PROVE AnswerInv'
    OBVIOUS
  <1>1. CASE UNCHANGED vars
    BY <1>1 DEF AnswerInv, Followed, Stamps, Gathered, Unanswered, StageOfOp,
                AnswerWasTrue, Existing, Lookup, vars
  <1> QED
    BY <1>1, Steps, LookingAnswer, ChangingAnswer, RunningAnswer, AroundAnswer

\* What an answer says was read, listed or made is true, whatever another
\* process did to the files meanwhile.
THEOREM AnswersAreTrue == Spec => []AnswerWasTrue
  <1>1. MethodsTypeOK /\ AnswerInv /\ [Next]_vars => (MethodsTypeOK /\ AnswerInv)'
    BY TypeStep, AnswerStep
  <1>2. AnswerInv => AnswerWasTrue
    BY DEF AnswerInv
  <1> QED
    BY TypeInit, AnswerInit, <1>1, <1>2, PTL DEF Spec
=============================================================================
