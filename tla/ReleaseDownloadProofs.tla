----------------------- MODULE ReleaseDownloadProofs -----------------------
(***************************************************************************)
(* Proofs about the downloads: a verified package stays where it was       *)
(* reported, and no download touches a file of another, for any processes, *)
(* packages and number of names.                                           *)
(***************************************************************************)
EXTENDS ReleaseDownload, TLAPS

Files == [owner : Procs \cup {"nobody", "earlier"}, body : Bodies \cup {NoSum}, blocks : 0 .. Length]

DownloadTypeOK ==
    /\ files \in [Paths -> Files]
    /\ pc \in [Procs -> {"start", "name", "ask", "open", "copy", "check", "undo",
                         "failed", "verified", "unverified"}]
    /\ sum \in [Procs -> Bodies \cup {NoSum}]
    /\ target \in [Procs -> Paths]
    /\ body \in [Procs -> Bodies \cup {NoSum}]
    /\ at \in [Procs -> 0 .. Length]
    /\ moved \subseteq Paths

\* A process that has created its file.
HasFile(p) == pc[p] \in {"copy", "check", "undo", "verified", "unverified"}

OwnFile(p) == [owner |-> p, body |-> body[p], blocks |-> at[p]]

\* The file is the process's own, with all that was hashed, until the user
\* moves it; two processes cannot own the same path, so none harms another.
Progress(p) ==
    /\ HasFile(p) /\ target[p] \notin moved => files[target[p]] = OwnFile(p)
    /\ \A k \in Paths :
          files[k].owner = p => /\ k = target[p] /\ files[k] = OwnFile(p)
                                /\ pc[p] \notin {"start", "name", "ask", "open"}
    /\ pc[p] \in {"start", "name", "ask", "open"} => at[p] = 0
    /\ pc[p] = "name" => target[p] \in 0 .. Names - 1
    /\ pc[p] = "start" => target[p] = 0
    /\ pc[p] = "verified" => sum[p] = body[p] /\ at[p] = Length

DownloadInv == DownloadTypeOK /\ \A p \in Procs : Progress(p)

-----------------------------------------------------------------------------
LEMMA FileTypes ==
    /\ NoFile \in Files /\ Earlier \in Files
    /\ \A p \in Procs, b \in Bodies \cup {NoSum}, n \in 0 .. Length :
          [owner |-> p, body |-> b, blocks |-> n] \in Files
    /\ \A f \in Files : f.owner \in Procs \cup {"nobody", "earlier"} /\ f.blocks \in 0 .. Length
    /\ \A f \in Files, n \in 0 .. Length : [f EXCEPT !.blocks = n] \in Files
  BY DownloadAssumption DEF Files, NoFile, Earlier

LEMMA InitInvariant == Init => DownloadInv
  <1> SUFFICES ASSUME Init PROVE DownloadInv
    OBVIOUS
  <1>1. 0 \in Paths /\ 0 \in 0 .. Names - 1 /\ 0 \in 0 .. Length
    BY DownloadAssumption DEF Paths
  <1>2. DownloadTypeOK
    BY <1>1, FileTypes DEF Init, DownloadTypeOK
  <1>3. ASSUME NEW p \in Procs PROVE Progress(p)
    <2>1. \A k \in Paths : files[k].owner # p
      BY DownloadAssumption DEF Init, NoFile, Earlier
    <2>2. QED
      BY <1>1, <2>1 DEF Init, Progress, HasFile
  <1>4. QED
    BY <1>2, <1>3 DEF DownloadInv

\* A step of one process that leaves the files alone.
LEMMA FilesKept ==
  ASSUME DownloadInv, DownloadTypeOK', NEW p \in Procs, UNCHANGED <<files, moved>>,
         \A q \in Procs \ {p} : /\ pc'[q] = pc[q] /\ sum'[q] = sum[q] /\ target'[q] = target[q]
                                /\ body'[q] = body[q] /\ at'[q] = at[q],
         Progress(p)'
  PROVE  DownloadInv'
  <1>1. ASSUME NEW q \in Procs \ {p} PROVE Progress(q)'
    BY <1>1 DEF DownloadInv, Progress, HasFile, OwnFile
  <1>2. QED
    BY <1>1 DEF DownloadInv

\* A file of p is under no name of another process that has one of its own.
LEMMA OneOwner ==
  ASSUME DownloadInv, NEW p \in Procs, NEW q \in Procs, HasFile(q),
         target[q] \notin moved, files[target[q]].owner = p
  PROVE  p = q
  <1>1. files[target[q]] = OwnFile(q)
    BY DEF DownloadInv, Progress
  <1>2. OwnFile(q).owner = q
    BY DEF OwnFile
  <1>3. QED
    BY <1>1, <1>2

LEMMA DownloadStep ==
  ASSUME DownloadInv, NEW p \in Procs, Download(p) \/ Killed(p)
  PROVE  DownloadInv'
  <1>0. DownloadTypeOK /\ Progress(p)
    BY DEF DownloadInv
  <1>1. CASE NotFetched(p) \/ Fetch(p)
    <2>1. UNCHANGED <<files, moved, target, body, at>>
      BY <1>1 DEF NotFetched, Fetch
    <2>2. DownloadTypeOK'
      BY <1>0, <1>1 DEF NotFetched, Fetch, Step, DownloadTypeOK
    <2>3. Progress(p)'
      BY <1>0, <1>1, DownloadAssumption DEF NotFetched, Fetch, Step, DownloadTypeOK, Progress, HasFile
    <2>4. \A q \in Procs \ {p} : pc'[q] = pc[q] /\ sum'[q] = sum[q]
      BY <1>0, <1>1 DEF NotFetched, Fetch, Step, DownloadTypeOK
    <2>5. QED
      BY <2>1, <2>2, <2>3, <2>4, FilesKept
  <1>2. CASE Free(p) \/ CopyFails(p) \/ CopyEnds(p) \/ Check(p) \/ Killed(p)
    <2>1. UNCHANGED <<files, moved, sum, target, body, at>>
      BY <1>2 DEF Free, CopyFails, CopyEnds, Check, Killed
    <2>2. DownloadTypeOK'
      BY <1>0, <1>2 DEF Free, CopyFails, CopyEnds, Check, Killed, Step, DownloadTypeOK
    <2>3. Progress(p)'
      BY <1>0, <1>2, <2>1 DEF Free, CopyFails, CopyEnds, Check, Killed, Step, DownloadTypeOK,
         Progress, HasFile, OwnFile
    <2>4. \A q \in Procs \ {p} : pc'[q] = pc[q]
      BY <1>0, <1>2 DEF Free, CopyFails, CopyEnds, Check, Killed, Step, DownloadTypeOK
    <2>5. QED
      BY <2>1, <2>2, <2>3, <2>4, FilesKept
  <1>3. CASE Taken(p)
    <2>1. UNCHANGED <<files, moved, sum, body, at>> /\ pc[p] = "name"
      BY <1>3 DEF Taken
    <2>2. /\ target' = [target EXCEPT ![p] = IF target[p] < Names - 1 THEN target[p] + 1 ELSE p]
          /\ pc' = [pc EXCEPT ![p] = IF target[p] < Names - 1 THEN "name" ELSE "ask"]
      BY <1>3 DEF Taken, Step
    <2>3. target[p] < Names - 1 => target[p] + 1 \in 0 .. Names - 1
      BY <1>0, <2>1, DownloadAssumption DEF Progress
    <2>4. DownloadTypeOK'
      BY <1>0, <2>1, <2>2, <2>3 DEF DownloadTypeOK, Paths
    <2>5. Progress(p)'
      BY <1>0, <2>1, <2>2, <2>3 DEF Progress, HasFile, DownloadTypeOK
    <2>6. \A q \in Procs \ {p} : pc'[q] = pc[q] /\ target'[q] = target[q]
      BY <1>0, <2>2 DEF DownloadTypeOK
    <2>7. QED
      BY <2>1, <2>4, <2>5, <2>6, FilesKept
  <1>4. CASE Ask(p)
    <2>1. UNCHANGED <<files, moved, sum, target, at>>
      BY <1>4 DEF Ask
    <2>2. DownloadTypeOK'
      BY <1>0, <1>4 DEF Ask, Step, DownloadTypeOK
    <2>3. Progress(p)'
      BY <1>0, <1>4 DEF Ask, Step, Progress, HasFile, DownloadTypeOK
    <2>4. \A q \in Procs \ {p} : pc'[q] = pc[q] /\ body'[q] = body[q]
      BY <1>0, <1>4 DEF Ask, Step, DownloadTypeOK
    <2>5. QED
      BY <2>1, <2>2, <2>3, <2>4, FilesKept
  <1>5. CASE Create(p)
    <2>1. UNCHANGED <<moved, sum, target, body, at>> /\ pc[p] = "open"
      BY <1>5 DEF Create, Opened, Step
    <2>2. \A q \in Procs \ {p} : pc'[q] = pc[q]
      BY <1>0, <1>5 DEF Create, Opened, Step, DownloadTypeOK
    <2>3. CASE files[target[p]] = NoFile /\ Opened(p)
      <3>1. files' = [files EXCEPT ![target[p]] = OwnFile(p)] /\ pc'[p] = "copy"
        BY <1>0, <2>1, <2>3 DEF Opened, Step, OwnFile, Progress, DownloadTypeOK
      <3>2. OwnFile(p) \in Files /\ target[p] \in Paths
        BY <1>0, FileTypes DEF OwnFile, DownloadTypeOK
      <3>3. DownloadTypeOK'
        BY <1>0, <2>1, <2>3, <3>1, <3>2 DEF DownloadTypeOK, Opened, Step
      <3>4. Progress(p)'
        <4>1. OwnFile(p)' = OwnFile(p)
          BY <2>1 DEF OwnFile
        <4>2. \A k \in Paths : files'[k].owner = p => k = target[p]
          BY <1>0, <2>1, <3>1 DEF Progress, DownloadTypeOK
        <4>3. files'[target[p]] = OwnFile(p)
          BY <1>0, <3>1, <3>2 DEF DownloadTypeOK
        <4>4. QED
          BY <2>1, <3>1, <4>1, <4>2, <4>3 DEF Progress
      <3>5. ASSUME NEW q \in Procs \ {p} PROVE Progress(q)'
        <4>1. Progress(q)
          BY DEF DownloadInv
        <4>2. HasFile(q) /\ target[q] \notin moved => target[q] # target[p]
          <5> SUFFICES ASSUME HasFile(q), target[q] \notin moved, target[q] = target[p]
                       PROVE  FALSE
            OBVIOUS
          <5>1. NoFile.owner = q
            BY <2>3, <4>1 DEF Progress, OwnFile
          <5>2. QED
            BY <5>1, DownloadAssumption DEF NoFile
        <4>3. OwnFile(p).owner = p /\ OwnFile(q)' = OwnFile(q)
          BY <2>1 DEF OwnFile
        <4>4. \A k \in Paths : /\ k # target[p] => files'[k] = files[k]
                               /\ k = target[p] => files'[k].owner = p
          BY <1>0, <3>1, <4>3 DEF DownloadTypeOK
        <4>5. target[q] \in Paths
          BY <1>0 DEF DownloadTypeOK
        <4>6. HasFile(q)' /\ target[q] \notin moved => files'[target[q]] = OwnFile(q)'
          <5> SUFFICES ASSUME HasFile(q)', target[q] \notin moved
                       PROVE  files'[target[q]] = OwnFile(q)'
            OBVIOUS
          <5>1. HasFile(q)
            BY <2>2 DEF HasFile
          <5>2. files[target[q]] = OwnFile(q)
            BY <4>1, <5>1 DEF Progress
          <5>3. files'[target[q]] = files[target[q]]
            BY <4>2, <4>4, <4>5, <5>1
          <5>4. QED
            BY <4>3, <5>2, <5>3
        <4>7. ASSUME NEW k \in Paths, files'[k].owner = q
               PROVE  k = target[q] /\ files'[k] = OwnFile(q)' /\ pc[q] \notin {"start", "name", "ask", "open"}
          <5>1. k # target[p]
            BY <4>4, <4>7
          <5>2. files'[k] = files[k]
            BY <4>4, <4>7, <5>1
          <5>3. QED
            BY <4>1, <4>3, <4>7, <5>2 DEF Progress
        <4>8. QED
          BY <2>1, <2>2, <4>1, <4>2, <4>3, <4>4, <4>5, <4>6, <4>7 DEF Progress
      <3>6. QED
        BY <3>3, <3>4, <3>5 DEF DownloadInv
    <2>4. CASE files[target[p]] # NoFile
      <3>1. UNCHANGED files /\ pc' = [pc EXCEPT ![p] = "failed"]
        BY <1>5, <2>4 DEF Create, Step
      <3>2. DownloadTypeOK' /\ Progress(p)'
        BY <1>0, <2>1, <3>1 DEF DownloadTypeOK, Progress, HasFile
      <3>3. QED
        BY <2>1, <2>2, <3>1, <3>2, FilesKept
    <2>5. QED
      BY <1>5, <2>3, <2>4 DEF Create
  <1>6. CASE Copy(p)
    <2>1. /\ UNCHANGED <<moved, sum, target, body>> /\ pc[p] = "copy" /\ pc' = pc
          /\ at' = [at EXCEPT ![p] = at[p] + 1] /\ at[p] + 1 \in 0 .. Length
      BY <1>0, <1>6, DownloadAssumption DEF Copy, Step, DownloadTypeOK
    <2>2. CASE files[target[p]].owner # p
      <3>1. files' = files
        BY <1>6, <2>2 DEF Copy
      <3>2. target[p] \in moved
        BY <1>0, <2>1, <2>2 DEF Progress, HasFile, OwnFile
      <3>3. DownloadTypeOK'
        BY <1>0, <2>1, <3>1 DEF DownloadTypeOK
      <3>4. \A k \in Paths : files[k].owner # p
        BY <1>0, <2>2 DEF Progress
      <3>5. Progress(p)'
        BY <1>0, <2>1, <3>1, <3>2, <3>4 DEF Progress
      <3>6. \A q \in Procs \ {p} : at'[q] = at[q]
        BY <1>0, <2>1 DEF DownloadTypeOK
      <3>7. QED
        BY <2>1, <3>1, <3>3, <3>5, <3>6, FilesKept
    <2>3. CASE files[target[p]].owner = p
      <3>1. target[p] \in Paths /\ files[target[p]] = OwnFile(p)
        BY <1>0, <2>3 DEF DownloadTypeOK, Progress
      <3>2. OwnFile(p)' = [OwnFile(p) EXCEPT !.blocks = OwnFile(p).blocks + 1]
        BY <1>0, <2>1 DEF OwnFile, DownloadTypeOK
      <3>3. files' = [files EXCEPT ![target[p]] = OwnFile(p)']
        BY <1>6, <2>3, <3>1, <3>2 DEF Copy
      <3>4. OwnFile(p)' \in Files /\ at'[p] = at[p] + 1
        BY <1>0, <2>1, FileTypes DEF OwnFile, DownloadTypeOK
      <3>5. DownloadTypeOK'
        BY <1>0, <2>1, <3>1, <3>3, <3>4 DEF DownloadTypeOK
      <3>6. Progress(p)'
        <4>1. \A k \in Paths : files'[k].owner = p => k = target[p]
          BY <1>0, <3>3 DEF Progress, DownloadTypeOK
        <4>2. files'[target[p]] = OwnFile(p)'
          BY <1>0, <3>1, <3>3 DEF DownloadTypeOK
        <4>3. QED
          BY <2>1, <4>1, <4>2 DEF Progress
      <3>7. ASSUME NEW q \in Procs \ {p} PROVE Progress(q)'
        <4>1. Progress(q) /\ OwnFile(q)' = OwnFile(q)
          BY <1>0, <2>1 DEF DownloadInv, OwnFile, DownloadTypeOK
        <4>2. HasFile(q) /\ target[q] \notin moved => target[q] # target[p]
          BY <2>3, OneOwner
        <4>3. OwnFile(p)'.owner = p
          BY DEF OwnFile
        <4>4. \A k \in Paths : /\ k # target[p] => files'[k] = files[k]
                               /\ k = target[p] => files'[k].owner = p
          BY <1>0, <3>3, <4>3 DEF DownloadTypeOK
        <4>5. target[q] \in Paths /\ at'[q] = at[q]
          BY <1>0, <2>1 DEF DownloadTypeOK
        <4>6. HasFile(q)' /\ target[q] \notin moved => files'[target[q]] = OwnFile(q)'
          <5> SUFFICES ASSUME HasFile(q)', target[q] \notin moved
                       PROVE  files'[target[q]] = OwnFile(q)'
            OBVIOUS
          <5>1. HasFile(q)
            BY <2>1 DEF HasFile
          <5>2. files[target[q]] = OwnFile(q)
            BY <4>1, <5>1 DEF Progress
          <5>3. files'[target[q]] = files[target[q]]
            BY <4>2, <4>4, <4>5, <5>1
          <5>4. QED
            BY <4>1, <5>2, <5>3
        <4>7. ASSUME NEW k \in Paths, files'[k].owner = q
               PROVE  k = target[q] /\ files'[k] = OwnFile(q)' /\ pc[q] \notin {"start", "name", "ask", "open"}
          <5>1. k # target[p]
            BY <4>4, <4>7
          <5>2. files'[k] = files[k]
            BY <4>4, <4>7, <5>1
          <5>3. QED
            BY <4>1, <4>7, <5>2 DEF Progress
        <4>8. QED
          BY <2>1, <4>1, <4>2, <4>4, <4>5, <4>6, <4>7 DEF Progress
      <3>8. QED
        BY <3>5, <3>6, <3>7 DEF DownloadInv
    <2>4. QED
      BY <2>2, <2>3
  <1>7. CASE Undo(p)
    <2>1. /\ UNCHANGED <<moved, sum, target, body, at>> /\ pc[p] = "undo"
          /\ pc' = [pc EXCEPT ![p] = "failed"]
          /\ files' = [files EXCEPT ![target[p]] = NoFile]
      BY <1>7 DEF Undo, Step
    <2>2. DownloadTypeOK'
      BY <1>0, <2>1, FileTypes DEF DownloadTypeOK
    <2>3. ASSUME NEW q \in Procs PROVE Progress(q)'
      <3>1. Progress(q) /\ OwnFile(q)' = OwnFile(q) /\ target[q] \in Paths /\ target[p] \in Paths
        BY <1>0, <2>1 DEF DownloadInv, OwnFile, DownloadTypeOK
      <3>2. HasFile(q)' /\ target[q] \notin moved => HasFile(q) /\ target[q] # target[p]
        <4> SUFFICES ASSUME HasFile(q)', target[q] \notin moved
                     PROVE  HasFile(q) /\ target[q] # target[p]
          OBVIOUS
        <4>1. q # p /\ HasFile(q)
          BY <1>0, <2>1 DEF HasFile, DownloadTypeOK
        <4>2. CASE target[q] = target[p]
          <5>1. files[target[q]] = OwnFile(p)
            BY <1>0, <2>1, <4>2 DEF Progress, HasFile
          <5>2. QED
            BY <4>1, <5>1, OneOwner DEF OwnFile
        <4>3. QED
          BY <4>1, <4>2
      <3>3. \A k \in Paths : files'[k] = files[k] \/ files'[k] = NoFile
        BY <1>0, <2>1 DEF DownloadTypeOK
      <3>4. NoFile.owner # q
        BY DownloadAssumption DEF NoFile
      <3>5. target[q] # target[p] => files'[target[q]] = files[target[q]]
        BY <1>0, <2>1, <3>1 DEF DownloadTypeOK
      <3>6. pc'[q] \in {pc[q], "failed"}
        BY <1>0, <2>1 DEF DownloadTypeOK
      <3>7. QED
        BY <2>1, <3>1, <3>2, <3>3, <3>4, <3>5, <3>6 DEF Progress
    <2>4. QED
      BY <2>2, <2>3 DEF DownloadInv
  <1>8. QED
    BY <1>1, <1>2, <1>3, <1>4, <1>5, <1>6, <1>7 DEF Download

LEMMA MoveStep ==
  ASSUME DownloadInv, NEW k \in Paths, UserMoves(k)
  PROVE  DownloadInv'
  <1>1. /\ UNCHANGED <<pc, sum, target, body, at>>
        /\ files' = [files EXCEPT ![k] = NoFile] /\ moved' = moved \cup {k}
    BY DEF UserMoves
  <1>2. DownloadTypeOK'
    BY <1>1, FileTypes DEF DownloadInv, DownloadTypeOK
  <1>3. ASSUME NEW p \in Procs PROVE Progress(p)'
    <2>1. Progress(p) /\ OwnFile(p)' = OwnFile(p) /\ target[p] \in Paths
      BY <1>1 DEF DownloadInv, OwnFile, DownloadTypeOK
    <2>2. \A l \in Paths : files'[l] = files[l] \/ (l = k /\ files'[l] = NoFile)
      BY <1>1 DEF DownloadInv, DownloadTypeOK
    <2>3. NoFile.owner # p
      BY DownloadAssumption DEF NoFile
    <2>4. QED
      BY <1>1, <2>1, <2>2, <2>3 DEF Progress, HasFile
  <1>4. QED
    BY <1>2, <1>3 DEF DownloadInv

THEOREM DownloadInvariant == Spec => []DownloadInv
  <1>1. DownloadInv /\ [Next]_vars => DownloadInv'
    <2>1. DownloadInv /\ UNCHANGED vars => DownloadInv'
      BY DEF DownloadInv, DownloadTypeOK, Progress, HasFile, OwnFile, vars
    <2>2. QED
      BY <2>1, DownloadStep, MoveStep DEF Next
  <1>2. QED
    BY InitInvariant, <1>1, PTL DEF Spec

\* A verified package stays whole under the path that was reported
\* (downloadAsset), for any number of processes.
THEOREM VerifiedStays == Spec => []VerifiedIsThere
  <1>1. DownloadInv => VerifiedIsThere
    BY DEF DownloadInv, Progress, HasFile, OwnFile, VerifiedIsThere
  <1>2. QED
    BY DownloadInvariant, <1>1, PTL

\* The exclusive creation protects every file there is, though the name was
\* chosen before (uniqueDownloadPath, downloadAsset).
THEOREM OthersUntouched == Spec => OnlyOwnFileChanges
  <1> DEFINE Changes ==
        \A k \in Paths \ moved' : files[k] \notin {NoFile, files'[k]} =>
          \E p \in Procs : files[k].owner = p /\ target[p] = k /\ pc[p] \in {"copy", "undo"}
  <1>1. DownloadInv /\ [Next]_vars => [Changes]_vars
    <2> SUFFICES ASSUME DownloadInv, Next, NEW k \in Paths \ moved', files[k] \notin {NoFile, files'[k]}
                 PROVE  \E p \in Procs : /\ files[k].owner = p /\ target[p] = k
                                         /\ pc[p] \in {"copy", "undo"}
      BY DEF Changes
    <2>0. DownloadTypeOK
      BY DEF DownloadInv
    <2>1. ASSUME NEW l \in Paths, UserMoves(l) PROVE FALSE
      BY <2>0, <2>1 DEF UserMoves, DownloadTypeOK
    <2>2. ASSUME NEW p \in Procs, Download(p) \/ Killed(p)
          PROVE  files[k].owner = p /\ target[p] = k /\ pc[p] \in {"copy", "undo"}
      <3>1. CASE Create(p)
        BY <2>0, <3>1 DEF Create, Opened, DownloadTypeOK
      <3>2. CASE Copy(p)
        BY <2>0, <3>2 DEF Copy, Step, DownloadTypeOK
      <3>3. CASE Undo(p)
        <4>1. target[p] = k /\ pc[p] = "undo" /\ moved' = moved
          BY <2>0, <3>3 DEF Undo, Step, DownloadTypeOK
        <4>2. files[k] = OwnFile(p)
          BY <4>1 DEF DownloadInv, Progress, HasFile
        <4>3. QED
          BY <4>1, <4>2 DEF OwnFile
      <3>4. QED
        BY <2>2, <3>1, <3>2, <3>3 DEF Download, NotFetched, Fetch, Free, Taken, Ask, CopyFails,
           CopyEnds, Check, Killed
    <2>3. QED
      BY <2>1, <2>2 DEF Next
  <1>2. QED
    BY DownloadInvariant, <1>1, PTL DEF Spec, OnlyOwnFileChanges
=============================================================================
