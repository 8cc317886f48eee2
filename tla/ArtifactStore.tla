--------------------------- MODULE ArtifactStore ---------------------------
(***************************************************************************)
(* The content-addressed repository of artifact/store.py: rows in a SQLite *)
(* database, contents in files named by their digest.  A commit publishes  *)
(* the file first and the rows after it, under two locks: the thread lock  *)
(* of the process, held for the whole call, and the database's write lock, *)
(* held from BEGIN IMMEDIATE to COMMIT or ROLLBACK.  Several processes may *)
(* have the same repository open; any step may fail and any process die.   *)
(***************************************************************************)
EXTENDS Naturals, Sequences, FiniteSets

CONSTANTS
  Contents,    \* byte strings, named by their SHA-256
  Kinds,       \* media type and role: with the content, the identity of an Artifact
  Folder,      \* the directory of each content: the first digits of its digest
  Writers,     \* threads inside commit_observation
  Home,        \* the process of each writer
  Callers,     \* callers that may be granted Artifacts
  MayFail,     \* a file operation or a database write may raise
  MaxFiles, MaxCommits, MaxCrashes,  \* bounds
  None

Folders == {Folder[c] : c \in Contents}
Processes == {Home[w] : w \in Writers}

ASSUME HomesAndFolders == DOMAIN Folder = Contents /\ DOMAIN Home = Writers
ASSUME Bounds == {MaxFiles, MaxCommits, MaxCrashes} \subseteq Nat /\ MayFail \in BOOLEAN
ASSUME NoneIsNothing == None \notin Nat \cup Contents \cup Writers

VARIABLES
  blobs, artifacts,  \* committed rows: contents, and <<content, kind>>
  observations,      \* committed rows, numbered: [artifact, source] with an optional source row
  grants,            \* committed rows: <<caller, artifact>>
  transaction,       \* the writer that holds the database's write lock
  folders,           \* the directories that exist
  files,             \* the inode each content's path names
  temps,             \* inodes that exist under a temporary name
  inodes, crashes,   \* inodes and crashes so far
  pc, proposal,      \* where each writer is, and what it commits
  made, temp, linked \* its _Publication: the directory, temporary and target it owns

rows == <<blobs, artifacts, observations, grants>>
disk == <<folders, files, temps>>
publication == <<made, temp, linked>>
storeVars == <<rows, disk, transaction, inodes, crashes, pc, proposal, publication>>

Idle(w) == pc[w] = "idle"
Go(w, place) == pc' = [pc EXCEPT ![w] = place]
Content(w) == proposal[w].content

Proposals == [content : Contents, kind : Kinds, source : 1..MaxCommits \cup {None}]

-----------------------------------------------------------------------------
(* commit_observation *)

Init ==
  /\ blobs = {} /\ artifacts = {} /\ observations = <<>> /\ grants = {}
  /\ transaction = None
  /\ folders = {} /\ files = [c \in Contents |-> None] /\ temps = {}
  /\ inodes = 0 /\ crashes = 0
  /\ pc = [w \in Writers |-> "idle"] /\ proposal = [w \in Writers |-> None]
  /\ made = [w \in Writers |-> FALSE]
  /\ temp = [w \in Writers |-> None] /\ linked = [w \in Writers |-> None]

\* Mutant of Begin: the call does not take the lock of its process.
BeginUnlocked(w) ==
  /\ Idle(w)
  /\ transaction = None /\ Len(observations) < MaxCommits
  /\ \E p \in Proposals :
       /\ p.source # None => p.source \in DOMAIN observations
       /\ proposal' = [proposal EXCEPT ![w] = p]
  /\ transaction' = w /\ Go(w, "folder")
  /\ UNCHANGED <<rows, disk, inodes, crashes, publication>>

\* The process lock, BEGIN IMMEDIATE, and the source observation must be known.
Begin(w) ==
  /\ Idle(w) /\ \A v \in Writers : Home[v] = Home[w] => Idle(v)
  /\ transaction = None /\ Len(observations) < MaxCommits
  /\ \E p \in Proposals :
       /\ p.source # None => p.source \in DOMAIN observations
       /\ proposal' = [proposal EXCEPT ![w] = p]
  /\ transaction' = w /\ Go(w, "folder")
  /\ UNCHANGED <<rows, disk, inodes, crashes, publication>>

MakeFolder(w) ==
  /\ pc[w] = "folder"
  /\ folders' = folders \cup {Folder[Content(w)]}
  /\ made' = [made EXCEPT ![w] = Folder[Content(w)] \notin folders]
  /\ Go(w, "look")
  /\ UNCHANGED <<rows, files, temps, transaction, inodes, crashes, proposal, temp, linked>>

\* A file that is there already is verified and shared, never owned.
Look(w) ==
  /\ pc[w] = "look"
  /\ Go(w, IF files[Content(w)] # None THEN "rows" ELSE "temp")
  /\ UNCHANGED <<rows, disk, transaction, inodes, crashes, proposal, publication>>

WriteTemp(w) ==
  /\ pc[w] = "temp" /\ Folder[Content(w)] \in folders /\ inodes < MaxFiles
  /\ inodes' = inodes + 1 /\ temps' = temps \cup {inodes'}
  /\ temp' = [temp EXCEPT ![w] = inodes']
  /\ Go(w, "link")
  /\ UNCHANGED <<rows, folders, files, transaction, crashes, proposal, made, linked>>

\* Mutant of Link: the published file is not recorded as the commit's own.
LinkUnclaimed(w) ==
  /\ pc[w] = "link"
  /\ files' = [files EXCEPT ![Content(w)] = IF @ = None THEN temp[w] ELSE @]
  /\ temps' = temps \ {temp[w]} /\ temp' = [temp EXCEPT ![w] = None]
  /\ Go(w, "rows")
  /\ UNCHANGED <<rows, folders, transaction, inodes, crashes, proposal, made, linked>>

\* The hard link never replaces a file; then the temporary name goes.
Link(w) ==
  /\ pc[w] = "link"
  /\ IF files[Content(w)] = None
     THEN /\ files' = [files EXCEPT ![Content(w)] = temp[w]]
          /\ linked' = [linked EXCEPT ![w] = temp[w]]
     ELSE UNCHANGED <<files, linked>>
  /\ temps' = temps \ {temp[w]} /\ temp' = [temp EXCEPT ![w] = None]
  /\ Go(w, "rows")
  /\ UNCHANGED <<rows, folders, transaction, inodes, crashes, proposal, made>>

Release(S) ==
  /\ made' = [w \in Writers |-> IF w \in S THEN FALSE ELSE made[w]]
  /\ temp' = [w \in Writers |-> IF w \in S THEN None ELSE temp[w]]
  /\ linked' = [w \in Writers |-> IF w \in S THEN None ELSE linked[w]]

\* The rows become visible, all together.
Commit(w) ==
  /\ pc[w] = "rows"
  /\ blobs' = blobs \cup {Content(w)}
  /\ artifacts' = artifacts \cup {<<Content(w), proposal[w].kind>>}
  /\ observations' =
       Append(observations,
              [artifact |-> <<Content(w), proposal[w].kind>>, source |-> proposal[w].source])
  /\ transaction' = None /\ Go(w, "idle") /\ Release({w})
  /\ UNCHANGED <<grants, disk, inodes, crashes, proposal>>

\* Mutant of Removed: whatever the path names is removed.
RemovedByPath(w) == IF files[Content(w)] # None THEN {Content(w)} ELSE {}

\* _rollback_publication: only what this commit created, recognized by its inode.
Removed(w) == IF linked[w] # None /\ files[Content(w)] = linked[w] THEN {Content(w)} ELSE {}
Undo(w) ==
  /\ files' = [c \in Contents |-> IF c \in Removed(w) THEN None ELSE files[c]]
  /\ temps' = temps \ {temp[w]}
  /\ folders' =
       IF /\ made[w]
          /\ \A c \in Contents : Folder[c] = Folder[Content(w)] => files'[c] = None
          /\ \A v \in Writers \ {w} : temp[v] # None => Folder[Content(v)] # Folder[Content(w)]
       THEN folders \ {Folder[Content(w)]} ELSE folders
  /\ Release({w})

\* A publication that fails is undone before the transaction is rolled back ...
FailPublishing(w) ==
  /\ \/ MayFail /\ pc[w] \in {"folder", "look", "temp", "link"}
     \/ pc[w] = "temp" /\ Folder[Content(w)] \notin folders
  /\ Undo(w)
  /\ transaction' = None /\ Go(w, "idle")
  /\ UNCHANGED <<rows, inodes, crashes, proposal>>

\* ... but one whose rows fail is undone after it: the write lock is free by then.
FailCommitting(w) ==
  /\ MayFail /\ pc[w] = "rows"
  /\ transaction' = None /\ Go(w, "undo")
  /\ UNCHANGED <<rows, disk, inodes, crashes, proposal, publication>>

UndoCommit(w) ==
  /\ pc[w] = "undo"
  /\ Undo(w) /\ Go(w, "idle")
  /\ UNCHANGED <<rows, transaction, inodes, crashes, proposal>>

\* A process dies: its transaction is rolled back from the journal by the next one
\* to open the database, its files stay.
Crash(p) ==
  /\ crashes < MaxCrashes /\ crashes' = crashes + 1
  /\ LET dead == {w \in Writers : Home[w] = p} IN
       /\ transaction' = IF transaction \in dead THEN None ELSE transaction
       /\ pc' = [w \in Writers |-> IF w \in dead THEN "idle" ELSE pc[w]]
       /\ Release(dead)
  /\ UNCHANGED <<rows, disk, inodes, proposal>>

\* grant_artifacts, for Artifacts that are there.
GrantArtifact(caller, artifact) ==
  /\ transaction = None
  /\ artifact \in artifacts
  /\ grants' = grants \cup {<<caller, artifact>>}
  /\ UNCHANGED <<blobs, artifacts, observations, disk, transaction, inodes, crashes, pc,
                 proposal, publication>>

Next ==
  \/ \E w \in Writers :
       \/ Begin(w) \/ MakeFolder(w) \/ Look(w) \/ WriteTemp(w) \/ Link(w) \/ Commit(w)
       \/ FailPublishing(w) \/ FailCommitting(w) \/ UndoCommit(w)
  \/ \E p \in Processes : Crash(p)
  \/ \E caller \in Callers, artifact \in Contents \X Kinds : GrantArtifact(caller, artifact)

Spec == Init /\ [][Next]_storeVars

-----------------------------------------------------------------------------
(* Properties *)

\* "Atomically publish one Blob, Artifact, Observation": a committed row's content
\* is on disk, whatever other commits fail or die halfway.
RowsHaveFiles == \A c \in blobs : files[c] # None

\* What a caller was granted can be read: read_artifact finds the Artifact, its
\* Blob and its verified content.
GrantedIsReadable ==
  \A caller \in Callers, artifact \in Contents \X Kinds :
    <<caller, artifact>> \in grants =>
      artifact \in artifacts /\ artifact[1] \in blobs /\ files[artifact[1]] # None

\* Whatever a caller is shown, as a committed row or as a grant, has its content on disk.
PublishedIsReadable == RowsHaveFiles /\ GrantedIsReadable

\* Failed commits leave nothing behind: without a crash, and with nobody at work,
\* every file belongs to a row and no temporary is left.
FailuresLeaveNothing ==
  crashes = 0 /\ (\A w \in Writers : Idle(w)) =>
    {c \in Contents : files[c] # None} \subseteq blobs /\ temps = {}

\* The repository is immutable: no step changes a committed row, or replaces or
\* removes the file of one.
ContentsStand ==
  [][/\ blobs \subseteq blobs' /\ artifacts \subseteq artifacts' /\ grants \subseteq grants'
     /\ Len(observations) <= Len(observations')
     /\ observations = SubSeq(observations', 1, Len(observations))
     /\ \A c \in blobs : files'[c] = files[c]]_storeVars
=============================================================================
