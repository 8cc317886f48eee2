------------------------ MODULE ArtifactStoreProofs ------------------------
(***************************************************************************)
(* Proofs about ArtifactStore, for any contents, directories, number of    *)
(* threads and processes, commits and crashes.                             *)
(*                                                                         *)
(* That failures leave nothing behind holds for any processes, because a   *)
(* file is only ever owned by the commit that linked it (OwnersInv).  That *)
(* rows keep their files needs more: all threads in one process, or no     *)
(* rows that fail after their publication (Exclusive).  Then the lock of   *)
(* the process, or that of the database, leaves at most one commit at work *)
(* (OneAtWork), from its first directory to the end of its clean-up; what  *)
(* it owns is nothing that a row relies on (OwnedIsNew), and what it       *)
(* relies on is not removed meanwhile.  (Otherwise two processes can       *)
(* remove each other's files: see the README.)                             *)
(***************************************************************************)
EXTENDS ArtifactStore, TLAPS

Steps == {"idle", "folder", "look", "temp", "link", "rows", "undo"}

Observations == [artifact : Contents \X Kinds, source : 1..MaxCommits \cup {None}]

StoreTypeOK ==
  /\ pc \in [Writers -> Steps] /\ proposal \in [Writers -> Proposals \cup {None}]
  /\ made \in [Writers -> BOOLEAN]
  /\ temp \in [Writers -> Nat \cup {None}] /\ linked \in [Writers -> Nat \cup {None}]
  /\ files \in [Contents -> Nat \cup {None}] /\ temps \subseteq Nat
  /\ inodes \in Nat /\ crashes \in Nat
  /\ blobs \subseteq Contents /\ observations \in Seq(Observations)

\* Rows refer to rows: an Artifact to its Blob, a grant to its Artifact.
RowsRefer ==
  /\ \A artifact \in Contents \X Kinds : artifact \in artifacts => artifact[1] \in blobs
  /\ \A caller \in Callers, artifact \in Contents \X Kinds :
       <<caller, artifact>> \in grants => artifact \in artifacts

\* A commit at work has a proposal; it owns a temporary file until it is linked, and a
\* linked file until its rows are there or it is undone.
OwnersWork ==
  \A w \in Writers :
    /\ ~Idle(w) => proposal[w] \in Proposals
    /\ temp[w] # None <=> pc[w] = "link"
    /\ linked[w] # None => pc[w] \in {"rows", "undo"}

\* Without a crash every file has a row or an owner.
NothingIsForgotten ==
  crashes = 0 =>
    /\ \A t \in temps : \E w \in Writers : temp[w] = t
    /\ \A c \in Contents :
         files[c] # None => c \in blobs \/ \E w \in Writers : linked[w] = files[c] /\ Content(w) = c

OwnersInv ==
  /\ StoreTypeOK
  /\ RowsRefer
  /\ OwnersWork
  /\ NothingIsForgotten

-----------------------------------------------------------------------------
(* Owners, in any number of processes *)

LEMMA OwnersBegin == Init => OwnersInv
  BY NoneIsNothing
  DEF Init, OwnersInv, StoreTypeOK, RowsRefer, OwnersWork, NothingIsForgotten, Idle, Steps

LEMMA BeginOwners == ASSUME OwnersInv, NEW w \in Writers, Begin(w) PROVE OwnersInv'
<1>1. PICK p \in Proposals : proposal' = [proposal EXCEPT ![w] = p]
  BY DEF Begin
<1>2. /\ pc[w] = "idle" /\ pc' = [pc EXCEPT ![w] = "folder"]
      /\ UNCHANGED <<rows, disk, inodes, crashes, publication>>
  BY DEF Begin, Go, Idle
<1>3. linked[w] = None /\ temp[w] = None
  BY <1>2 DEF OwnersInv, OwnersWork
<1>4. StoreTypeOK' /\ RowsRefer'
  BY <1>1, <1>2 DEF OwnersInv, StoreTypeOK, RowsRefer, Steps, rows, disk, publication
<1>5. OwnersWork'
  <2>1. \A v \in Writers : v # w => proposal'[v] = proposal[v] /\ pc'[v] = pc[v]
    BY <1>1, <1>2 DEF OwnersInv, StoreTypeOK
  <2>2. proposal'[w] \in Proposals /\ pc'[w] = "folder"
    BY <1>1, <1>2 DEF OwnersInv, StoreTypeOK
  <2>3. temp' = temp /\ linked' = linked
    BY <1>2 DEF publication
  <2> QED BY <1>3, <2>1, <2>2, <2>3 DEF OwnersInv, OwnersWork, Idle
<1>6. NothingIsForgotten'
  BY <1>1, <1>2, <1>3
  DEF OwnersInv, StoreTypeOK, NothingIsForgotten, Content, rows, disk, publication
<1> QED BY <1>4, <1>5, <1>6 DEF OwnersInv

LEMMA PrepareOwners ==
  ASSUME OwnersInv, NEW w \in Writers, MakeFolder(w) \/ Look(w) \/ FailCommitting(w)
  PROVE  OwnersInv'
<1>1. /\ pc[w] \in {"folder", "look", "rows"}
      /\ \E place \in {"look", "rows", "temp", "undo"} : pc' = [pc EXCEPT ![w] = place]
      /\ pc[w] # "rows" => linked[w] = None
      /\ pc[w] = "rows" => pc' = [pc EXCEPT ![w] = "undo"]
      /\ made' \in [Writers -> BOOLEAN]
      /\ UNCHANGED <<rows, files, temps, inodes, crashes, proposal, temp, linked>>
  BY DEF MakeFolder, Look, FailCommitting, Go, OwnersInv, StoreTypeOK, OwnersWork, disk, publication
<1>2. StoreTypeOK' /\ RowsRefer' /\ NothingIsForgotten'
  <2>1. pc' \in [Writers -> Steps]
    BY <1>1 DEF OwnersInv, StoreTypeOK, Steps
  <2>2. StoreTypeOK'
    BY <1>1, <2>1 DEF OwnersInv, StoreTypeOK, rows
  <2>3. RowsRefer' /\ NothingIsForgotten'
    BY <1>1 DEF OwnersInv, RowsRefer, NothingIsForgotten, Content, rows
  <2> QED BY <2>2, <2>3
<1>3. OwnersWork'
  <2>1. \A v \in Writers : v # w => pc'[v] = pc[v]
    BY <1>1 DEF OwnersInv, StoreTypeOK
  <2>2. pc'[w] \in {"look", "rows", "temp", "undo"} /\ (pc[w] = "rows" => pc'[w] = "undo")
    BY <1>1 DEF OwnersInv, StoreTypeOK
  <2>3. pc[w] # "idle" /\ pc[w] # "link"
    BY <1>1
  <2> QED BY <1>1, <2>1, <2>2, <2>3 DEF OwnersInv, OwnersWork, Idle
<1> QED BY <1>2, <1>3 DEF OwnersInv

LEMMA WriteTempOwners == ASSUME OwnersInv, NEW w \in Writers, WriteTemp(w) PROVE OwnersInv'
<1>1. /\ inodes' \in Nat /\ inodes' # None
      /\ temps' = temps \cup {inodes'} /\ temp' = [temp EXCEPT ![w] = inodes']
      /\ pc[w] = "temp" /\ pc' = [pc EXCEPT ![w] = "link"]
      /\ UNCHANGED <<rows, files, crashes, proposal, made, linked>>
  BY NoneIsNothing DEF WriteTemp, Go, OwnersInv, StoreTypeOK
<1>2. StoreTypeOK' /\ RowsRefer'
  BY <1>1 DEF OwnersInv, StoreTypeOK, RowsRefer, Steps, rows
<1>3. OwnersWork'
  BY <1>1 DEF OwnersInv, StoreTypeOK, OwnersWork, Idle
<1>4. NothingIsForgotten'
  <2>1. temp[w] = None
    BY <1>1 DEF OwnersInv, OwnersWork
  <2>2. \A t \in temps : t # None
    BY NoneIsNothing DEF OwnersInv, StoreTypeOK
  <2> QED BY <1>1, <2>1, <2>2 DEF OwnersInv, StoreTypeOK, NothingIsForgotten, Content, rows
<1> QED BY <1>2, <1>3, <1>4 DEF OwnersInv

\* A file that is linked is owned by the commit that linked it; one that was there is not.
LEMMA LinkOwners == ASSUME OwnersInv, NEW w \in Writers, Link(w) PROVE OwnersInv'
<1>1. /\ pc[w] = "link" /\ pc' = [pc EXCEPT ![w] = "rows"]
      /\ temps' = temps \ {temp[w]} /\ temp' = [temp EXCEPT ![w] = None]
      /\ UNCHANGED <<rows, inodes, crashes, proposal, made>>
  BY DEF Link, Go
<1>2. /\ proposal[w] \in Proposals /\ Content(w) \in Contents
      /\ temp[w] \in Nat /\ temp[w] # None /\ linked[w] = None
  BY <1>1 DEF OwnersInv, StoreTypeOK, OwnersWork, Idle, Content, Proposals
<1>3. \/ /\ files[Content(w)] = None
         /\ files' = [files EXCEPT ![Content(w)] = temp[w]]
         /\ linked' = [linked EXCEPT ![w] = temp[w]]
      \/ UNCHANGED <<files, linked>>
  BY DEF Link
<1>4. StoreTypeOK' /\ RowsRefer'
  BY <1>1, <1>2, <1>3 DEF OwnersInv, StoreTypeOK, RowsRefer, Steps, rows
<1>5. OwnersWork'
  BY <1>1, <1>2, <1>3 DEF OwnersInv, StoreTypeOK, OwnersWork, Idle
<1>6. ASSUME crashes' = 0 PROVE \A t \in temps' : \E v \in Writers : temp'[v] = t
  <2> SUFFICES ASSUME NEW t \in temps, t # temp[w] PROVE \E v \in Writers : temp'[v] = t
    BY <1>1
  <2>1. PICK v \in Writers : temp[v] = t
    BY <1>1, <1>6 DEF OwnersInv, NothingIsForgotten
  <2> QED BY <2>1, <1>1 DEF OwnersInv, StoreTypeOK
<1>7. ASSUME crashes' = 0, NEW c \in Contents, files'[c] # None
      PROVE  c \in blobs' \/ \E v \in Writers : linked'[v] = files'[c] /\ Content(v)' = c
  <2>1. blobs' = blobs /\ crashes = 0 /\ \A v \in Writers : Content(v)' = Content(v)
    BY <1>1, <1>7 DEF rows, Content
  <2>2. CASE files'[c] # files[c]
    <3>1. c = Content(w) /\ files'[c] = temp[w] /\ linked'[w] = temp[w]
      BY <1>2, <1>3, <1>7, <2>2 DEF OwnersInv, StoreTypeOK
    <3> QED BY <2>1, <3>1
  <2>3. CASE files'[c] = files[c]
    <3>1. c \in blobs \/ \E v \in Writers : linked[v] = files[c] /\ Content(v) = c
      BY <1>7, <2>1, <2>3 DEF OwnersInv, NothingIsForgotten
    <3>2. \A v \in Writers : linked[v] # None => linked'[v] = linked[v]
      BY <1>2, <1>3 DEF OwnersInv, StoreTypeOK
    <3> QED BY <1>7, <2>1, <2>3, <3>1, <3>2
  <2> QED BY <2>2, <2>3
<1> QED BY <1>4, <1>5, <1>6, <1>7 DEF OwnersInv, NothingIsForgotten

\* A commit gives up what it owns: it has a row, ...
LEMMA CommitOwners == ASSUME OwnersInv, NEW w \in Writers, Commit(w) PROVE OwnersInv'
<1>1. /\ pc[w] = "rows" /\ pc' = [pc EXCEPT ![w] = "idle"]
      /\ blobs' = blobs \cup {Content(w)}
      /\ artifacts' = artifacts \cup {<<Content(w), proposal[w].kind>>}
      /\ UNCHANGED <<grants, disk, inodes, crashes, proposal>>
  BY DEF Commit, Go
<1>2. /\ proposal[w] \in Proposals /\ Content(w) \in Contents /\ temp[w] = None
  BY <1>1 DEF OwnersInv, OwnersWork, Idle, Content, Proposals
<1>3. /\ made' \in [Writers -> BOOLEAN]
      /\ temp' = temp /\ linked' = [linked EXCEPT ![w] = None]
  BY <1>1, <1>2 DEF Commit, Release, OwnersInv, StoreTypeOK
<1>4. observations' \in Seq(Observations)
  <2>1. [artifact |-> <<Content(w), proposal[w].kind>>, source |-> proposal[w].source]
          \in Observations
    BY <1>2 DEF Proposals, Observations
  <2> QED BY <2>1 DEF Commit, OwnersInv, StoreTypeOK
<1>5. StoreTypeOK'
  BY <1>1, <1>2, <1>3, <1>4 DEF OwnersInv, StoreTypeOK, Steps, disk
<1>6. RowsRefer'
  BY <1>1, <1>2 DEF OwnersInv, RowsRefer
<1>7. OwnersWork'
  BY <1>1, <1>2, <1>3 DEF OwnersInv, StoreTypeOK, OwnersWork, Idle
<1>8. NothingIsForgotten'
  BY <1>1, <1>3 DEF OwnersInv, StoreTypeOK, NothingIsForgotten, Content, disk
<1> QED BY <1>5, <1>6, <1>7, <1>8 DEF OwnersInv

\* ... or is removed.
LEMMA UndoOwners ==
  ASSUME OwnersInv, NEW w \in Writers, ~Idle(w), Undo(w), pc' = [pc EXCEPT ![w] = "idle"],
         UNCHANGED <<rows, inodes, crashes, proposal>>
  PROVE  OwnersInv'
<1>1. /\ made' \in [Writers -> BOOLEAN]
      /\ temp' = [temp EXCEPT ![w] = None] /\ linked' = [linked EXCEPT ![w] = None]
  BY DEF Undo, Release, OwnersInv, StoreTypeOK
<1>2. /\ files' = [c \in Contents |-> IF c \in Removed(w) THEN None ELSE files[c]]
      /\ temps' = temps \ {temp[w]}
  BY DEF Undo
<1>3. StoreTypeOK' /\ RowsRefer'
  BY <1>1, <1>2 DEF OwnersInv, StoreTypeOK, RowsRefer, Steps, rows
<1>4. OwnersWork'
  BY <1>1 DEF OwnersInv, StoreTypeOK, OwnersWork, Idle
<1>5. ASSUME crashes' = 0 PROVE \A t \in temps' : \E v \in Writers : temp'[v] = t
  <2> SUFFICES ASSUME NEW t \in temps, t # temp[w] PROVE \E v \in Writers : temp'[v] = t
    BY <1>2
  <2>1. PICK v \in Writers : temp[v] = t
    BY <1>5 DEF OwnersInv, NothingIsForgotten
  <2> QED BY <2>1, <1>1 DEF OwnersInv, StoreTypeOK
<1>6. ASSUME crashes' = 0, NEW c \in Contents, files'[c] # None
      PROVE  c \in blobs' \/ \E v \in Writers : linked'[v] = files'[c] /\ Content(v)' = c
  <2>1. blobs' = blobs /\ crashes = 0 /\ \A v \in Writers : Content(v)' = Content(v)
    BY <1>6 DEF rows, Content
  <2>2. c \notin Removed(w) /\ files'[c] = files[c]
    BY <1>2, <1>6
  <2>3. c \in blobs \/ \E v \in Writers : linked[v] = files[c] /\ Content(v) = c
    BY <1>6, <2>1, <2>2 DEF OwnersInv, NothingIsForgotten
  <2>4. ~ (linked[w] = files[c] /\ Content(w) = c)
    BY <1>6, <2>2 DEF Removed
  <2>5. \A v \in Writers : v # w => linked'[v] = linked[v]
    BY <1>1 DEF OwnersInv, StoreTypeOK
  <2> QED BY <2>1, <2>2, <2>3, <2>4, <2>5
<1> QED BY <1>3, <1>4, <1>5, <1>6 DEF OwnersInv, NothingIsForgotten

\* A process dies with its commits; others go on, and its files stay.
LEMMA CrashOwners == ASSUME OwnersInv, NEW p \in Processes, Crash(p) PROVE OwnersInv'
<1> DEFINE dead == {w \in Writers : Home[w] = p}
<1>1. /\ pc' = [w \in Writers |-> IF w \in dead THEN "idle" ELSE pc[w]]
      /\ made' = [w \in Writers |-> IF w \in dead THEN FALSE ELSE made[w]]
      /\ temp' = [w \in Writers |-> IF w \in dead THEN None ELSE temp[w]]
      /\ linked' = [w \in Writers |-> IF w \in dead THEN None ELSE linked[w]]
  BY DEF Crash, Release
<1>2. crashes' \in Nat /\ crashes' # 0 /\ UNCHANGED <<rows, disk, inodes, proposal>>
  BY DEF Crash, OwnersInv, StoreTypeOK
<1> HIDE DEF dead
<1>3. StoreTypeOK' /\ RowsRefer'
  BY <1>1, <1>2 DEF OwnersInv, StoreTypeOK, RowsRefer, Steps, rows, disk
<1>4. OwnersWork' /\ NothingIsForgotten'
  BY <1>1, <1>2 DEF OwnersInv, OwnersWork, NothingIsForgotten, Idle
<1> QED BY <1>3, <1>4 DEF OwnersInv

LEMMA OwnersKeep == OwnersInv /\ [Next]_storeVars => OwnersInv'
<1> SUFFICES ASSUME OwnersInv, [Next]_storeVars PROVE OwnersInv'
  OBVIOUS
<1>1. CASE UNCHANGED storeVars
  BY <1>1 DEF storeVars, rows, disk, publication, OwnersInv, StoreTypeOK, RowsRefer, OwnersWork,
     NothingIsForgotten, Idle, Content
<1>2. ASSUME NEW w \in Writers, FailPublishing(w) \/ UndoCommit(w) PROVE OwnersInv'
  <2>1. ~Idle(w) /\ Undo(w) /\ pc' = [pc EXCEPT ![w] = "idle"]
        /\ UNCHANGED <<rows, inodes, crashes, proposal>>
    BY <1>2 DEF FailPublishing, UndoCommit, Idle, Go
  <2> QED BY <2>1, UndoOwners
<1>3. ASSUME NEW caller \in Callers, NEW artifact \in Contents \X Kinds,
             GrantArtifact(caller, artifact)
      PROVE  OwnersInv'
  BY <1>3 DEF GrantArtifact, OwnersInv, StoreTypeOK, RowsRefer, OwnersWork, NothingIsForgotten,
     Idle, Content, disk, publication
<1> QED BY <1>1, <1>2, <1>3, BeginOwners, PrepareOwners, WriteTempOwners, LinkOwners, CommitOwners,
     CrashOwners
     DEF Next

\* Who owns which file, for any number of processes and crashes.
THEOREM OwnersHold == Spec => []OwnersInv
  BY OwnersBegin, OwnersKeep, PTL DEF Spec

\* Failed commits leave neither files nor temporaries behind, in any number of processes.
THEOREM NothingIsLeft == Spec => []FailuresLeaveNothing
<1>1. OwnersInv => FailuresLeaveNothing
  <2> SUFFICES ASSUME OwnersInv, crashes = 0, \A w \in Writers : Idle(w)
               PROVE  {c \in Contents : files[c] # None} \subseteq blobs /\ temps = {}
    BY DEF FailuresLeaveNothing
  <2>1. \A w \in Writers : temp[w] = None /\ linked[w] = None
    BY DEF OwnersInv, OwnersWork, Idle
  <2>2. \A t \in temps : t # None
    BY NoneIsNothing DEF OwnersInv, StoreTypeOK
  <2> QED BY <2>1, <2>2 DEF OwnersInv, NothingIsForgotten
<1> QED BY OwnersHold, <1>1, PTL

-----------------------------------------------------------------------------
(* Rows, where one commit is at work at a time *)

\* All threads are in one process, or no rows fail after their publication.
Exclusive == (\A v, w \in Writers : Home[v] = Home[w]) \/ MayFail = FALSE

\* Where no rows fail, a commit holds the lock of the database to its end.
OneAtWork ==
  /\ \A v, w \in Writers : ~Idle(v) /\ ~Idle(w) => v = w
  /\ MayFail = FALSE => \A w \in Writers : ~Idle(w) => transaction = w

\* What a commit relies on is there, and what it owns no row has yet.
OwnedIsNew ==
  \A w \in Writers :
    /\ pc[w] = "rows" => files[Content(w)] # None
    /\ linked[w] # None => files[Content(w)] = linked[w] /\ Content(w) \notin blobs

IInv ==
  /\ Exclusive
  /\ OwnersInv
  /\ OneAtWork
  /\ OwnedIsNew
  /\ RowsHaveFiles

LEMMA Begins == Exclusive /\ Init => IInv
  BY OwnersBegin DEF Init, IInv, OneAtWork, OwnedIsNew, RowsHaveFiles, Idle

\* A commit begins only when no other is at work.
LEMMA BeginKeeps ==
  ASSUME IInv, NEW w \in Writers, Begin(w) PROVE OneAtWork' /\ OwnedIsNew' /\ RowsHaveFiles'
<1>1. PICK p \in Proposals : proposal' = [proposal EXCEPT ![w] = p]
  BY DEF Begin
<1>2. /\ pc' = [pc EXCEPT ![w] = "folder"] /\ transaction = None /\ transaction' = w
      /\ UNCHANGED <<rows, disk, inodes, crashes, publication>>
  BY DEF Begin, Go
<1>3. \A v \in Writers : Idle(v)
  <2>1. CASE \A v, u \in Writers : Home[v] = Home[u]
    BY <2>1 DEF Begin
  <2>2. CASE MayFail = FALSE
    BY <1>2, <2>2, NoneIsNothing DEF IInv, OneAtWork
  <2> QED BY <2>1, <2>2 DEF IInv, Exclusive
<1>4. \A v \in Writers : linked[v] = None /\ pc[v] = "idle"
  BY <1>3 DEF Idle, IInv, OwnersInv, OwnersWork
<1>5. \A v \in Writers : v # w => pc'[v] = "idle"
  BY <1>2, <1>4 DEF IInv, OwnersInv, StoreTypeOK
<1>6. OneAtWork'
  BY <1>2, <1>5 DEF OneAtWork, Idle
<1>7. OwnedIsNew'
  <2>1. \A v \in Writers : linked'[v] = None /\ pc'[v] # "rows"
    BY <1>2, <1>4, <1>5 DEF IInv, OwnersInv, StoreTypeOK, publication
  <2> QED BY <2>1 DEF OwnedIsNew
<1> QED BY <1>2, <1>6, <1>7 DEF IInv, RowsHaveFiles, rows, disk

\* What goes on in the steps of the one commit at work.
LEMMA AtWorkAlone ==
  ASSUME IInv, NEW w \in Writers, ~Idle(w)
  PROVE  /\ proposal[w] \in Proposals /\ Content(w) \in Contents
         /\ \A v \in Writers : v # w => pc[v] = "idle" /\ temp[v] = None /\ linked[v] = None
         /\ MayFail = FALSE => transaction = w
<1>1. proposal[w] \in Proposals /\ Content(w) \in Contents
  BY DEF IInv, OwnersInv, OwnersWork, Content, Proposals
<1>2. \A v \in Writers : v # w => pc[v] = "idle"
  BY DEF IInv, OneAtWork, Idle
<1> QED BY <1>1, <1>2 DEF IInv, OneAtWork, OwnersInv, OwnersWork

LEMMA StepKeepsAlone ==
  ASSUME IInv, NEW w \in Writers, ~Idle(w), NEW place, pc' = [pc EXCEPT ![w] = place],
         place = "idle" \/ UNCHANGED transaction \/ MayFail # FALSE
  PROVE  /\ OneAtWork'
         /\ \A v \in Writers : v # w => pc'[v] = "idle"
<1>1. \A v \in Writers : v # w => pc'[v] = "idle"
  BY AtWorkAlone DEF IInv, OwnersInv, StoreTypeOK
<1>2. place = "idle" => pc'[w] = "idle"
  BY DEF IInv, OwnersInv, StoreTypeOK
<1>3. MayFail = FALSE => transaction = w
  BY AtWorkAlone
<1> QED BY <1>1, <1>2, <1>3 DEF OneAtWork, Idle

LEMMA PrepareKeeps ==
  ASSUME IInv, NEW w \in Writers, MakeFolder(w) \/ Look(w) \/ WriteTemp(w) \/ FailCommitting(w)
  PROVE  OneAtWork' /\ OwnedIsNew' /\ RowsHaveFiles'
<1>1. PICK place \in {"look", "rows", "temp", "link", "undo"} :
        /\ pc' = [pc EXCEPT ![w] = place]
        /\ place = "rows" => files[Content(w)] # None
        /\ UNCHANGED transaction \/ MayFail # FALSE
  BY DEF MakeFolder, Look, WriteTemp, FailCommitting, Go
<1>2. ~Idle(w) /\ UNCHANGED <<rows, files, proposal, linked>>
  BY DEF MakeFolder, Look, WriteTemp, FailCommitting, Idle, disk, publication
<1>3. OneAtWork' /\ \A v \in Writers : v # w => pc'[v] = "idle"
  BY <1>1, <1>2, StepKeepsAlone
<1>4. pc'[w] = place
  BY <1>1 DEF IInv, OwnersInv, StoreTypeOK
<1>5. OwnedIsNew'
  BY <1>1, <1>2, <1>3, <1>4 DEF IInv, OwnedIsNew, Content, rows
<1> QED BY <1>2, <1>3, <1>5 DEF IInv, RowsHaveFiles, rows

LEMMA LinkKeeps ==
  ASSUME IInv, NEW w \in Writers, Link(w) PROVE OneAtWork' /\ OwnedIsNew' /\ RowsHaveFiles'
<1>1. /\ pc[w] = "link" /\ pc' = [pc EXCEPT ![w] = "rows"] /\ ~Idle(w)
      /\ UNCHANGED <<rows, transaction, proposal>>
  BY DEF Link, Go, Idle
<1>2. /\ Content(w) \in Contents /\ temp[w] \in Nat /\ temp[w] # None /\ linked[w] = None
      /\ \A v \in Writers : v # w => pc[v] = "idle" /\ linked[v] = None
  BY <1>1, AtWorkAlone DEF IInv, OwnersInv, StoreTypeOK, OwnersWork
<1>3. OneAtWork' /\ \A v \in Writers : v # w => pc'[v] = "idle"
  BY <1>1, StepKeepsAlone
<1>4. \/ /\ files[Content(w)] = None
         /\ files' = [files EXCEPT ![Content(w)] = temp[w]]
         /\ linked' = [linked EXCEPT ![w] = temp[w]]
      \/ files[Content(w)] # None /\ UNCHANGED <<files, linked>>
  BY DEF Link
<1>5. files[Content(w)] = None => Content(w) \notin blobs
  BY DEF IInv, RowsHaveFiles
<1>6. OwnedIsNew' /\ RowsHaveFiles'
  <2>1. \A v \in Writers : Content(v)' = Content(v) /\ (v # w => linked'[v] = None /\ pc'[v] = "idle")
    BY <1>1, <1>2, <1>3, <1>4 DEF Content, IInv, OwnersInv, StoreTypeOK
  <2>2. /\ files'[Content(w)] # None
        /\ linked'[w] # None => files'[Content(w)] = linked'[w] /\ Content(w) \notin blobs
    BY <1>2, <1>4, <1>5 DEF IInv, OwnersInv, StoreTypeOK
  <2>3. \A c \in Contents : files[c] # None => files'[c] = files[c]
    BY <1>2, <1>4 DEF IInv, OwnersInv, StoreTypeOK
  <2>4. OwnedIsNew'
    BY <1>1, <2>1, <2>2 DEF OwnedIsNew, rows
  <2> QED BY <1>1, <2>3, <2>4 DEF IInv, RowsHaveFiles, OwnersInv, StoreTypeOK, rows
<1> QED BY <1>3, <1>6

\* The rows appear over a file that is there.
LEMMA CommitKeeps ==
  ASSUME IInv, NEW w \in Writers, Commit(w) PROVE OneAtWork' /\ OwnedIsNew' /\ RowsHaveFiles'
<1>1. /\ pc[w] = "rows" /\ pc' = [pc EXCEPT ![w] = "idle"] /\ ~Idle(w)
      /\ blobs' = blobs \cup {Content(w)} /\ UNCHANGED <<disk, proposal>>
  BY DEF Commit, Go, Idle
<1>2. /\ files[Content(w)] # None
      /\ \A v \in Writers : v # w => pc[v] = "idle" /\ linked[v] = None
  BY <1>1, AtWorkAlone DEF IInv, OwnedIsNew
<1>3. OneAtWork' /\ \A v \in Writers : v # w => pc'[v] = "idle"
  BY <1>1, StepKeepsAlone
<1>4. \A v \in Writers : linked'[v] = None /\ pc'[v] # "rows"
  BY <1>1, <1>2, <1>3 DEF Commit, Release, IInv, OwnersInv, StoreTypeOK
<1>5. OwnedIsNew'
  BY <1>4 DEF OwnedIsNew
<1> QED BY <1>1, <1>2, <1>3, <1>5 DEF IInv, RowsHaveFiles, disk

\* What is undone was the commit's own: no row loses its file.
LEMMA UndoKeeps ==
  ASSUME IInv, NEW w \in Writers, FailPublishing(w) \/ UndoCommit(w)
  PROVE  OneAtWork' /\ OwnedIsNew' /\ RowsHaveFiles'
<1>1. /\ ~Idle(w) /\ Undo(w) /\ pc' = [pc EXCEPT ![w] = "idle"]
      /\ UNCHANGED <<rows, inodes, crashes, proposal>>
  BY DEF FailPublishing, UndoCommit, Idle, Go
<1>2. \A v \in Writers : v # w => pc[v] = "idle" /\ linked[v] = None
  BY <1>1, AtWorkAlone
<1>3. OneAtWork' /\ \A v \in Writers : v # w => pc'[v] = "idle"
  BY <1>1, StepKeepsAlone
<1>4. \A v \in Writers : linked'[v] = None /\ pc'[v] # "rows"
  BY <1>1, <1>2, <1>3 DEF Undo, Release, IInv, OwnersInv, StoreTypeOK
<1>5. \A c \in Removed(w) : c \notin blobs
  BY DEF Removed, IInv, OwnedIsNew
<1>6. files' = [c \in Contents |-> IF c \in Removed(w) THEN None ELSE files[c]]
  BY <1>1 DEF Undo
<1>7. OwnedIsNew'
  BY <1>4 DEF OwnedIsNew
<1> QED BY <1>1, <1>3, <1>5, <1>6, <1>7 DEF IInv, OwnersInv, StoreTypeOK, RowsHaveFiles, rows

\* A process dies with whatever commit of its was at work; its files stay.
LEMMA CrashKeeps ==
  ASSUME IInv, NEW p \in Processes, Crash(p) PROVE OneAtWork' /\ OwnedIsNew' /\ RowsHaveFiles'
<1> DEFINE dead == {w \in Writers : Home[w] = p}
<1>1. /\ transaction' = IF transaction \in dead THEN None ELSE transaction
      /\ pc' = [w \in Writers |-> IF w \in dead THEN "idle" ELSE pc[w]]
      /\ linked' = [w \in Writers |-> IF w \in dead THEN None ELSE linked[w]]
      /\ UNCHANGED <<rows, disk, proposal>>
  BY DEF Crash, Release
<1> HIDE DEF dead
<1>2. OneAtWork'
  BY <1>1 DEF IInv, OneAtWork, Idle
<1>3. OwnedIsNew' /\ RowsHaveFiles'
  BY <1>1 DEF IInv, OwnedIsNew, RowsHaveFiles, Content, rows, disk
<1> QED BY <1>2, <1>3

LEMMA Keeps == IInv /\ [Next]_storeVars => IInv'
<1> SUFFICES ASSUME IInv, [Next]_storeVars PROVE OneAtWork' /\ OwnedIsNew' /\ RowsHaveFiles'
  BY OwnersKeep DEF IInv, Exclusive
<1>1. CASE UNCHANGED storeVars
  BY <1>1 DEF storeVars, rows, disk, publication, IInv, OneAtWork, OwnedIsNew, RowsHaveFiles,
     Idle, Content
<1>2. ASSUME NEW caller \in Callers, NEW artifact \in Contents \X Kinds,
             GrantArtifact(caller, artifact)
      PROVE  OneAtWork' /\ OwnedIsNew' /\ RowsHaveFiles'
  BY <1>2 DEF GrantArtifact, IInv, OneAtWork, OwnedIsNew, RowsHaveFiles, Idle, Content, disk,
     publication
<1> QED BY <1>1, <1>2, BeginKeeps, PrepareKeeps, LinkKeeps, CommitKeeps, UndoKeeps, CrashKeeps
     DEF Next

\* What the one commit at work relies on and owns.
THEOREM InductiveHolds == Spec /\ Exclusive => []IInv
  BY Begins, Keeps, PTL DEF Spec

\* Whatever fails or dies halfway, a committed row and a granted Artifact have their content
\* on disk, when one process serves the repository or no rows fail.
THEOREM PublishedHolds == Spec /\ Exclusive => []PublishedIsReadable
<1>1. IInv => PublishedIsReadable
  BY DEF IInv, OwnersInv, RowsRefer, RowsHaveFiles, PublishedIsReadable, GrantedIsReadable
<1> QED BY InductiveHolds, <1>1, PTL

\* No step changes a committed row, or replaces or removes its file, under the same hypothesis.
THEOREM ContentsHold == Spec /\ Exclusive => ContentsStand
<1> DEFINE Stands ==
      /\ blobs \subseteq blobs' /\ artifacts \subseteq artifacts' /\ grants \subseteq grants'
      /\ Len(observations) <= Len(observations')
      /\ observations = SubSeq(observations', 1, Len(observations))
      /\ \A c \in blobs : files'[c] = files[c]
<1>1. IInv /\ [Next]_storeVars => [Stands]_storeVars
  <2> SUFFICES ASSUME IInv, Next PROVE Stands
    OBVIOUS
  <2>1. observations \in Seq(Observations) /\ blobs \subseteq Contents
        /\ files \in [Contents -> Nat \cup {None}]
    BY DEF IInv, OwnersInv, StoreTypeOK
  <2>2. observations = SubSeq(observations, 1, Len(observations))
    BY <2>1
  <2>3. CASE UNCHANGED <<rows, files>>
    BY <2>2, <2>3, <2>1 DEF rows
  <2>4. ASSUME NEW w \in Writers, Link(w) PROVE Stands
    BY <2>1, <2>2, <2>4 DEF Link, rows, IInv, RowsHaveFiles
  <2>5. ASSUME NEW w \in Writers, Commit(w) PROVE Stands
    <3>1. proposal[w] \in Proposals
      BY <2>5 DEF Commit, IInv, OwnersInv, OwnersWork, Idle
    <3>2. PICK o \in Observations : observations' = Append(observations, o)
      BY <2>5, <3>1 DEF Commit, Proposals, Observations, Content
    <3>3. Len(observations) <= Len(observations')
          /\ observations = SubSeq(observations', 1, Len(observations))
      BY <2>1, <3>2
    <3> QED BY <2>5, <3>3 DEF Commit, disk
  <2>6. ASSUME NEW w \in Writers, ~Idle(w), Undo(w), UNCHANGED rows PROVE Stands
    <3>1. \A c \in Removed(w) : c \notin blobs
      BY <2>6 DEF Removed, IInv, OwnedIsNew
    <3> QED BY <2>1, <2>2, <2>6, <3>1 DEF Undo, rows
  <2>7. ASSUME NEW caller \in Callers, NEW artifact \in Contents \X Kinds,
               GrantArtifact(caller, artifact)
        PROVE  Stands
    BY <2>2, <2>1, <2>7 DEF GrantArtifact, disk
  <2>8. ASSUME NEW w \in Writers, FailPublishing(w) \/ UndoCommit(w) PROVE Stands
    BY <2>6, <2>8 DEF FailPublishing, UndoCommit, Idle
  <2>9. ASSUME NEW w \in Writers,
               Begin(w) \/ MakeFolder(w) \/ Look(w) \/ WriteTemp(w) \/ FailCommitting(w)
        PROVE  UNCHANGED <<rows, files>>
    BY <2>9 DEF Begin, MakeFolder, Look, WriteTemp, FailCommitting, disk
  <2>10. ASSUME NEW p \in Processes, Crash(p) PROVE UNCHANGED <<rows, files>>
    BY <2>10 DEF Crash, disk
  <2> QED BY <2>3, <2>4, <2>5, <2>7, <2>8, <2>9, <2>10 DEF Next
<1> QED BY InductiveHolds, <1>1, PTL DEF Spec, ContentsStand
=============================================================================
