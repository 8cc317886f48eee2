------------------------------ MODULE JobProofs ------------------------------
(***************************************************************************)
(* Proofs about JobRepository, for every set of Jobs, callers, keys,       *)
(* Requests, artifacts, tokens, timestamps and Results; and then about     *)
(* JobExecution, which rests on them, for any number of worker threads, of *)
(* CLI and MCP processes, of Jobs, crashes and closes.                     *)
(***************************************************************************)
EXTENDS JobExecution, TLAPS

-----------------------------------------------------------------------------
(* I. The repository *)

\* What each status says of the other columns of a row: the explicit form of
\* Readable, and the core of the inductive invariant.
Shape(j, row) ==
  \/ row = NoRow
  \/ /\ row.status = "submitted" /\ row.submittedAt # None
     /\ row.startedAt = None /\ row.finishedAt = None
     /\ row.result = None /\ row.failure = None /\ row.token = None
  \/ /\ row.status = "running" /\ row.submittedAt # None
     /\ row.startedAt # None /\ row.startedAt >= row.submittedAt
     /\ row.finishedAt = None /\ row.result = None /\ row.failure = None
  \/ /\ row.status \in Terminal /\ row.submittedAt # None
     /\ row.startedAt # None /\ row.startedAt >= row.submittedAt
     /\ row.finishedAt # None /\ row.finishedAt >= row.startedAt
     /\ \/ row.result = None /\ row.status = "failed" /\ row.failure = Interrupted
        \/ /\ row.result # None
           /\ row.result.status = row.status /\ row.result.run = j
           /\ row.startedAt <= row.result.from /\ row.result.to <= row.finishedAt
           /\ row.failure = FailureCode(row.result)

Fenced(row) ==
  row.cancelAt # None /\ row.status \in Terminal =>
    \/ row.result = None /\ row.failure = Interrupted
    \/ row.result # None /\ row.result.error = Cancelled

RowInv(j, row) == row \in Rows /\ Shape(j, row) /\ Fenced(row)

USE DEF Opt

LEMMA ResultTypes ==
  ASSUME NEW r \in Results
  PROVE  /\ r \in ResultRecords /\ r.status \in Terminal /\ r.from \in Times /\ r.to \in Times
         /\ r.error \in Codes \cup {None} /\ r.attempt \in Codes \cup {None}
         /\ r.artifacts \in SUBSET Artifacts /\ FailureCode(r) \in Codes \cup {None}
  BY ResultsAreWellFormed DEF ResultRecords, FailureCode

\* The explicit form is what the replay accepts.
LEMMA ShapeIsReadable ==
  ASSUME NEW j \in JobIds, NEW row \in Rows, Shape(j, row), row.status # "absent"
  PROVE  Readable(j, row)
<1>1. CASE row.status = "submitted"
  <2>0. /\ row.startedAt = None /\ row.finishedAt = None
        /\ row.result = None /\ row.failure = None /\ row.token = None
    BY <1>1 DEF Shape, NoRow, Terminal
  <2>1. row = Unstarted(row)
    BY <1>1, <2>0 DEF Unstarted, Rows
  <2>2. QED BY <1>1, <2>1 DEF Readable
<1>2. CASE row.status \in {"running"} \cup Terminal
  <2>1. row.startedAt # None /\ row.startedAt >= row.submittedAt
    BY <1>2 DEF Shape, NoRow, Terminal
  <2>2. Unstarted(row).status = "submitted" /\ Unstarted(row).submittedAt = row.submittedAt
    BY DEF Unstarted, Rows
  <2>3. SnapshotLegal(j, Unstarted(row), "running", row.startedAt, None, None)
    BY <2>1, <2>2 DEF SnapshotLegal
  <2>4. CASE row.status = "running"
    <3>0. row.finishedAt = None /\ row.result = None /\ row.failure = None
      BY <2>4 DEF Shape, NoRow, Terminal
    <3>1. row = Started(row)
      BY <2>4, <3>0 DEF Started, Rows
    <3>2. QED BY <1>2, <2>1, <2>3, <2>4, <3>1 DEF Readable
  <2>5. CASE row.status \in Terminal
    <3>1. Started(row).status = "running" /\ Started(row).startedAt = row.startedAt
      BY DEF Started, Rows
    <3>2. SnapshotLegal(j, Started(row), row.status, row.finishedAt, row.result, row.failure)
      BY <2>5, <3>1 DEF Shape, NoRow, Terminal, SnapshotLegal
    <3>3. row.finishedAt # None
      BY <2>5 DEF Shape, NoRow, Terminal
    <3>4. QED BY <1>2, <2>1, <2>3, <2>5, <3>2, <3>3 DEF Readable
  <2>6. QED BY <1>2, <2>4, <2>5
<1>3. QED BY <1>1, <1>2 DEF Rows, Statuses

-----------------------------------------------------------------------------
(* What the operations do to one row *)

LEMMA NoRowInv == \A j \in JobIds : RowInv(j, NoRow)
  BY DEF RowInv, NoRow, Rows, Shape, Fenced, Terminal

LEMMA SubmittedRow ==
  ASSUME NEW j \in JobIds, NEW c \in Callers, NEW k \in Keys, NEW q \in Requests, NEW at \in Times
  PROVE  RowInv(j, Submitted(c, k, q, at))
<1> DEFINE row == Submitted(c, k, q, at)
<1>1. row \in Rows
  BY DEF Submitted, NoRow, Rows, Statuses
<1>2. /\ row.status = "submitted" /\ row.submittedAt = at /\ row.startedAt = None
      /\ row.finishedAt = None /\ row.result = None /\ row.failure = None /\ row.token = None
  BY DEF Submitted, NoRow
<1>3. QED BY <1>1, <1>2, NoneIsNothing DEF RowInv, Shape, Fenced, Terminal

LEMMA UnownedRow ==
  ASSUME NEW j \in JobIds, NEW at \in Times
  PROVE  RowInv(j, [NoRow EXCEPT !.status = "submitted", !.submittedAt = at])
<1> DEFINE row == [NoRow EXCEPT !.status = "submitted", !.submittedAt = at]
<1>1. row \in Rows
  BY DEF NoRow, Rows, Statuses
<1>2. /\ row.status = "submitted" /\ row.submittedAt = at /\ row.startedAt = None
      /\ row.finishedAt = None /\ row.result = None /\ row.failure = None /\ row.token = None
  BY DEF NoRow
<1>3. QED BY <1>1, <1>2, NoneIsNothing DEF RowInv, Shape, Fenced, Terminal

\* The columns a transition writes, and those it keeps.
LEMMA SnapshotFields ==
  ASSUME NEW row \in Rows, NEW s, NEW at, NEW r, NEW code
  PROVE  LET new == Snapshot(row, s, at, r, code) IN
         /\ new.status = s
         /\ new.startedAt = IF s = "running" THEN at ELSE row.startedAt
         /\ new.finishedAt = IF s \in Terminal THEN at ELSE None
         /\ new.result = r /\ new.failure = code
         /\ new.submittedAt = row.submittedAt /\ new.cancelAt = row.cancelAt
         /\ new.request = row.request /\ new.caller = row.caller /\ new.key = row.key
         /\ new.token = row.token
         /\ (s \in Statuses /\ at \in Times /\ r \in Opt(Results) /\ code \in Opt(Codes))
              => new \in Rows
<1> DEFINE started == IF s = "running" THEN at ELSE row.startedAt
           finished == IF s \in Terminal THEN at ELSE None
           new == [row EXCEPT !.status = s, !.startedAt = started, !.finishedAt = finished,
                              !.result = r, !.failure = code]
<1>1. new = Snapshot(row, s, at, r, code)
  BY DEF Snapshot
<1> HIDE DEF started, finished
<1>2. /\ new.status = s /\ new.startedAt = started /\ new.finishedAt = finished
      /\ new.result = r /\ new.failure = code
      /\ new.submittedAt = row.submittedAt /\ new.cancelAt = row.cancelAt
      /\ new.request = row.request /\ new.caller = row.caller /\ new.key = row.key
      /\ new.token = row.token
  BY DEF Rows
<1>3. s \in Statuses /\ started \in Opt(Times) /\ finished \in Opt(Times)
        /\ r \in Opt(Results) /\ code \in Opt(Codes) => new \in Rows
  BY DEF Rows
<1>4. at \in Times => started \in Opt(Times) /\ finished \in Opt(Times)
  BY DEF started, finished, Rows
<1> HIDE DEF new
<1>5. QED BY <1>1, <1>2, <1>3, <1>4 DEF started, finished

LEMMA StartKeepsRowInv ==
  ASSUME NEW j \in JobIds, NEW row, RowInv(j, row), NEW at \in Times,
         SnapshotLegal(j, row, "running", at, None, None)
  PROVE  RowInv(j, Snapshot(row, "running", at, None, None))
<1> DEFINE new == Snapshot(row, "running", at, None, None)
<1>1. row \in Rows /\ row.status = "submitted" /\ at >= row.submittedAt /\ row.submittedAt # None
  BY DEF RowInv, SnapshotLegal, Terminal, Shape, NoRow
<1>2. /\ new.status = "running" /\ new.startedAt = at /\ new.finishedAt = None
      /\ new.result = None /\ new.failure = None /\ new.submittedAt = row.submittedAt
      /\ new.token = row.token /\ new \in Rows
  BY <1>1, SnapshotFields DEF Terminal, Statuses
<1>3. QED BY <1>1, <1>2, NoneIsNothing DEF RowInv, Shape, Fenced, Terminal

LEMMA EndKeepsRowInv ==
  ASSUME NEW j \in JobIds, NEW row, RowInv(j, row), NEW at \in Times, NEW s \in Terminal,
         NEW r \in Opt(Results), NEW code \in Opt(Codes),
         SnapshotLegal(j, row, s, at, r, code), CancelHonoured(row, s, r, code)
  PROVE  RowInv(j, Snapshot(row, s, at, r, code))
<1> DEFINE new == Snapshot(row, s, at, r, code)
<1>1. /\ row \in Rows /\ row.status = "running" /\ row.submittedAt # None
      /\ row.startedAt # None /\ row.startedAt >= row.submittedAt /\ at >= row.startedAt
  BY DEF RowInv, SnapshotLegal, Terminal, Shape, NoRow
<1>2. /\ new.status = s /\ new.startedAt = row.startedAt /\ new.finishedAt = at
      /\ new.result = r /\ new.failure = code /\ new.submittedAt = row.submittedAt
      /\ new.token = row.token /\ new.cancelAt = row.cancelAt /\ new \in Rows
  BY <1>1, SnapshotFields DEF Terminal, Statuses
<1>3. \/ r = None /\ s = "failed" /\ code = Interrupted
      \/ /\ r # None /\ r.status = s /\ r.run = j
         /\ row.startedAt <= r.from /\ r.to <= at /\ code = FailureCode(r)
  BY <1>1 DEF SnapshotLegal
<1>4. Shape(j, new)
  BY <1>1, <1>2, <1>3, NoneIsNothing DEF Shape
<1>5. Fenced(new)
  BY <1>2 DEF Fenced, CancelHonoured
<1>6. QED BY <1>2, <1>4, <1>5 DEF RowInv

LEMMA TokenKeepsRowInv ==
  ASSUME NEW j \in JobIds, NEW row, RowInv(j, row), row.status = "running", NEW t \in Tokens
  PROVE  RowInv(j, [row EXCEPT !.token = t])
<1> DEFINE new == [row EXCEPT !.token = t]
<1>1. /\ new.status = "running" /\ new.startedAt = row.startedAt /\ new.finishedAt = row.finishedAt
      /\ new.result = row.result /\ new.failure = row.failure
      /\ new.submittedAt = row.submittedAt /\ new \in Rows
  BY DEF RowInv, Rows
<1>2. QED BY <1>1 DEF RowInv, Shape, Fenced, NoRow, Terminal

LEMMA CancelKeepsRowInv ==
  ASSUME NEW j \in JobIds, NEW row, RowInv(j, row), row.status \in {"submitted", "running"},
         NEW at \in Times
  PROVE  RowInv(j, [row EXCEPT !.cancelAt = at])
<1> DEFINE new == [row EXCEPT !.cancelAt = at]
<1>1. /\ new.status = row.status /\ new.startedAt = row.startedAt /\ new.finishedAt = row.finishedAt
      /\ new.result = row.result /\ new.failure = row.failure /\ new.token = row.token
      /\ new.submittedAt = row.submittedAt /\ new \in Rows
  BY DEF RowInv, Rows
<1>2. QED BY <1>1 DEF RowInv, Shape, Fenced, NoRow, Terminal

-----------------------------------------------------------------------------
(* The inductive invariant *)

Evidence ==
  /\ \A g \in grants : \E j \in JobIds : g \in GrantsOf(j, jobs[j])
  /\ \A j \in JobIds : GrantsOf(j, jobs[j]) \subseteq grants

IInv ==
  /\ jobs \in [JobIds -> Rows]
  /\ events = [j \in JobIds |-> ExpectedEvents(jobs[j])]
  /\ \A j \in JobIds : RowInv(j, jobs[j])
  /\ Evidence
  /\ OneJobPerKey
  /\ OneJobPerToken

\* Every step rewrites one unfinished row into another lawful one, writes the
\* events and grants the new row calls for, and takes no key or token in use.
Advances(old, row) ==
  \/ /\ old.status = "absent" /\ old.cancelAt = None
     /\ row.status \in {"submitted", "running"} /\ row.cancelAt = None
  \/ old.status = "submitted" /\ row.status = "running" /\ row.cancelAt = old.cancelAt
  \/ /\ old.status \in {"submitted", "running"} /\ row.status = old.status
     /\ old.cancelAt = None /\ row.cancelAt # None
  \/ old.status = "running" /\ row.status \in Terminal /\ row.cancelAt = old.cancelAt

Rewrites(j, row) ==
  /\ jobs[j].status \in {"absent", "submitted", "running"}
  /\ Advances(jobs[j], row)
  /\ jobs' = [jobs EXCEPT ![j] = row]
  /\ RowInv(j, row)
  /\ events' = [events EXCEPT ![j] = ExpectedEvents(row)]
  /\ grants' = grants \cup GrantsOf(j, row)
  /\ (row.caller = jobs[j].caller /\ row.key = jobs[j].key) \/ FreshKey(row.caller, row.key)
  /\ row.token \in {jobs[j].token, None} \/ FreshToken(row.token)

LEMMA RewritesKeepsIInv ==
  ASSUME IInv, NEW j \in JobIds, NEW row, Rewrites(j, row)
  PROVE  IInv'
<1>1. \A i \in JobIds : jobs'[i] = IF i = j THEN row ELSE jobs[i]
  BY DEF IInv, Rewrites
<1>2. jobs' \in [JobIds -> Rows]
  BY DEF IInv, Rewrites, RowInv
<1>3. \A i \in JobIds : RowInv(i, jobs'[i])
  BY <1>1 DEF IInv, Rewrites
<1>4. events' = [i \in JobIds |-> ExpectedEvents(jobs'[i])]
  BY <1>1 DEF IInv, Rewrites
<1>5. Evidence'
  <2>1. GrantsOf(j, jobs[j]) = {}
    <3>1. RowInv(j, jobs[j]) /\ jobs[j].status \in {"absent", "submitted", "running"}
      BY DEF IInv, Rewrites
    <3>2. jobs[j].result = None
      BY <3>1 DEF RowInv, Shape, NoRow, Terminal
    <3>3. QED BY <3>2 DEF GrantsOf
  <2>2. GrantsOf(j, jobs'[j]) = GrantsOf(j, row)
    BY <1>1
  <2>3. \A i \in JobIds \ {j} : GrantsOf(i, jobs'[i]) = GrantsOf(i, jobs[i])
    BY <1>1
  <2>4. grants' = grants \cup GrantsOf(j, row) /\ Evidence
    BY DEF IInv, Rewrites
  <2>5. \A i \in JobIds : GrantsOf(i, jobs'[i]) \subseteq grants'
    BY <2>2, <2>3, <2>4 DEF Evidence
  <2>6. \A g \in grants' : \E i \in JobIds : g \in GrantsOf(i, jobs'[i])
    BY <2>1, <2>2, <2>3, <2>4 DEF Evidence
  <2>7. QED BY <2>5, <2>6 DEF Evidence
<1>6. OneJobPerKey'
  BY <1>1 DEF OneJobPerKey, IInv, Rewrites, FreshKey
<1>7. OneJobPerToken'
  BY <1>1 DEF OneJobPerToken, IInv, Rewrites, FreshToken
<1>8. QED
  BY <1>2, <1>3, <1>4, <1>5, <1>6, <1>7 DEF IInv

-----------------------------------------------------------------------------
(* Each operation is such a rewriting *)

LEMMA EmptyRow ==
  ASSUME IInv, NEW j \in JobIds, ~ Exists(j)
  PROVE  jobs[j] = NoRow /\ events[j] = {} /\ jobs[j].status = "absent"
<1>1. jobs[j] = NoRow
  BY DEF IInv, RowInv, Shape, Exists, Terminal
<1>2. QED BY <1>1 DEF IInv, ExpectedEvents, NoRow

LEMMA SubmitRewrites ==
  ASSUME IInv, NEW j \in JobIds, NEW at \in Times, Submit(j, at)
  PROVE  \E row : Rewrites(j, row)
<1> DEFINE row == [NoRow EXCEPT !.status = "submitted", !.submittedAt = at]
<1>1. RowInv(j, row) /\ jobs[j] = NoRow /\ events[j] = {} /\ jobs[j].status = "absent"
  BY UnownedRow, EmptyRow DEF Submit
<1>2. /\ row.status = "submitted" /\ row.submittedAt = at /\ row.startedAt = None
      /\ row.finishedAt = None /\ row.token = None /\ row.caller = None /\ row.key = None
      /\ row.cancelAt = None
  BY DEF NoRow
<1>3. jobs[j].caller = None /\ jobs[j].key = None /\ jobs[j].cancelAt = None
  BY <1>1 DEF NoRow
<1>4. jobs' = [jobs EXCEPT ![j] = row] /\ grants' = grants
  BY DEF Submit, Write
<1>5. events' = [events EXCEPT ![j] = ExpectedEvents(row)]
  BY <1>1, <1>2 DEF Submit, Log, ExpectedEvents
<1>6. GrantsOf(j, row) = {}
  BY <1>2 DEF GrantsOf
<1> HIDE DEF row
<1>7. Rewrites(j, row)
  BY <1>1, <1>2, <1>3, <1>4, <1>5, <1>6 DEF Rewrites, Advances
<1>8. QED BY <1>7

LEMMA SubmittedFields ==
  ASSUME NEW c, NEW k, NEW q, NEW at
  PROVE  LET row == Submitted(c, k, q, at) IN
         /\ row.status = "submitted" /\ row.submittedAt = at /\ row.startedAt = None
         /\ row.finishedAt = None /\ row.token = None /\ row.result = None
         /\ row.failure = None /\ row.cancelAt = None
         /\ row.caller = c /\ row.key = k /\ row.request = q
  BY DEF Submitted, NoRow

LEMMA SubmitRequestRewrites ==
  ASSUME IInv, NEW j \in JobIds, NEW at \in Times,
         NEW c \in Callers, NEW k \in Keys, NEW q \in Requests, SubmitRequest(j, c, k, q, at)
  PROVE  Rewrites(j, Submitted(c, k, q, at))
<1> DEFINE row == Submitted(c, k, q, at)
<1>1. RowInv(j, row) /\ jobs[j] = NoRow /\ events[j] = {} /\ jobs[j].status = "absent"
  BY SubmittedRow, EmptyRow DEF SubmitRequest
<1>2. /\ row.status = "submitted" /\ row.submittedAt = at /\ row.startedAt = None
      /\ row.finishedAt = None /\ row.token = None /\ row.result = None
      /\ row.caller = c /\ row.key = k /\ row.cancelAt = None /\ jobs[j].cancelAt = None
  BY <1>1, SubmittedFields DEF NoRow
<1>3. jobs' = [jobs EXCEPT ![j] = row] /\ grants' = grants /\ FreshKey(c, k)
  BY DEF SubmitRequest, Write
<1>4. events' = [events EXCEPT ![j] = ExpectedEvents(row)]
  BY <1>1, <1>2 DEF SubmitRequest, Log, ExpectedEvents
<1>5. GrantsOf(j, row) = {}
  BY <1>2 DEF GrantsOf
<1> HIDE DEF row
<1>6. Rewrites(j, row)
  BY <1>1, <1>2, <1>3, <1>4, <1>5 DEF Rewrites, Advances
<1>7. QED BY <1>6 DEF row

LEMMA SubmitAndClaimRewrites ==
  ASSUME IInv, NEW j \in JobIds, NEW at \in Times, NEW c \in Callers, NEW k \in Keys,
         NEW q \in Requests, NEW t \in Tokens, SubmitAndClaim(j, c, k, q, at, t)
  PROVE  \E row : Rewrites(j, row)
<1> DEFINE first == Submitted(c, k, q, at)
           row == [first EXCEPT !.status = "running", !.startedAt = at, !.token = t]
<1>1. RowInv(j, first) /\ jobs[j] = NoRow /\ events[j] = {} /\ jobs[j].status = "absent"
  BY SubmittedRow, EmptyRow DEF SubmitAndClaim
<1>2. /\ first.submittedAt = at /\ first.startedAt = None /\ first.finishedAt = None
      /\ first.result = None /\ first.failure = None /\ first.caller = c /\ first.key = k
      /\ first.cancelAt = None
  BY SubmittedFields
<1>3. /\ jobs' = [jobs EXCEPT ![j] = row] /\ grants' = grants /\ FreshKey(c, k) /\ FreshToken(t)
      /\ events' = [events EXCEPT ![j] = @ \cup {Event(1, None, "submitted", at),
                                                Event(2, "submitted", "running", at)}]
  BY DEF SubmitAndClaim, Write, Log
<1> HIDE DEF first
<1>4. /\ row.status = "running" /\ row.submittedAt = at /\ row.startedAt = at
      /\ row.finishedAt = None /\ row.result = None /\ row.failure = None
      /\ row.caller = c /\ row.key = k /\ row.cancelAt = None /\ row.token = t
      /\ row \in Rows
  BY <1>1, <1>2 DEF RowInv, Rows, Statuses
<1> HIDE DEF row
<1>5. RowInv(j, row)
  BY <1>4, NoneIsNothing, TimesAreOrdered DEF RowInv, Shape, Fenced, Terminal
<1>6. events' = [events EXCEPT ![j] = ExpectedEvents(row)]
  BY <1>1, <1>3, <1>4, NoneIsNothing DEF ExpectedEvents
<1>7. GrantsOf(j, row) = {}
  BY <1>4 DEF GrantsOf
<1>8. jobs[j].cancelAt = None
  BY <1>1 DEF NoRow
<1>9. Advances(jobs[j], row)
  BY <1>1, <1>4, <1>8 DEF Advances
<1>10. Rewrites(j, row)
  BY <1>1, <1>3, <1>4, <1>5, <1>6, <1>7, <1>9 DEF Rewrites
<1>11. QED BY <1>10

\* A started row: what the old one and its events were, and the new ones are.
LEMMA StartRewrites ==
  ASSUME IInv, NEW j \in JobIds, NEW at \in Times,
         SnapshotLegal(j, jobs[j], "running", at, None, None)
  PROVE  LET new == Snapshot(jobs[j], "running", at, None, None) IN
         /\ jobs[j].status = "submitted" /\ jobs[j].token = None /\ NextSequence(jobs[j]) = 2
         /\ new.status = "running" /\ new \in Rows /\ RowInv(j, new)
         /\ new.caller = jobs[j].caller /\ new.key = jobs[j].key /\ new.token = None
         /\ new.cancelAt = jobs[j].cancelAt
         /\ ExpectedEvents(new) = events[j] \cup {Event(2, "submitted", "running", at)}
         /\ GrantsOf(j, new) = {}
<1> DEFINE old == jobs[j]
           new == Snapshot(old, "running", at, None, None)
<1>1. RowInv(j, old) /\ old \in Rows /\ events[j] = ExpectedEvents(old)
  BY DEF IInv, RowInv
<1>2. old.status = "submitted"
  BY DEF SnapshotLegal, Terminal
<1>3. old.startedAt = None /\ old.finishedAt = None /\ old.token = None
  BY <1>1, <1>2 DEF RowInv, Shape, NoRow, Terminal
<1>4. /\ new.status = "running" /\ new.startedAt = at /\ new.finishedAt = None
      /\ new.result = None /\ new.submittedAt = old.submittedAt /\ new.cancelAt = old.cancelAt
      /\ new.caller = old.caller /\ new.key = old.key /\ new.token = None /\ new \in Rows
  BY <1>1, <1>3, SnapshotFields DEF Terminal, Statuses
<1>5. RowInv(j, new)
  BY <1>1, StartKeepsRowInv
<1> HIDE DEF new, old
<1>6. ExpectedEvents(new) = events[j] \cup {Event(2, "submitted", "running", at)}
  BY <1>1, <1>2, <1>3, <1>4, NoneIsNothing DEF ExpectedEvents
<1>7. GrantsOf(j, new) = {}
  BY <1>4 DEF GrantsOf
<1>8. NextSequence(old) = 2
  BY <1>3 DEF NextSequence
<1>9. QED BY <1>2, <1>3, <1>4, <1>5, <1>6, <1>7, <1>8 DEF new, old

LEMMA ClaimNextRewrites ==
  ASSUME IInv, NEW j \in JobIds, NEW at \in Times, NEW t \in Tokens, ClaimNext(j, at, t)
  PROVE  \E row : Rewrites(j, row)
<1> DEFINE new == Snapshot(jobs[j], "running", at, None, None)
           row == [new EXCEPT !.token = t]
<1>1. /\ jobs[j].status = "submitted"
      /\ new.status = "running" /\ new \in Rows /\ RowInv(j, new)
      /\ new.caller = jobs[j].caller /\ new.key = jobs[j].key /\ new.cancelAt = jobs[j].cancelAt
      /\ ExpectedEvents(new) = events[j] \cup {Event(2, "submitted", "running", at)}
      /\ GrantsOf(j, new) = {}
  BY StartRewrites DEF ClaimNext
<1>2. /\ jobs' = [jobs EXCEPT ![j] = row] /\ grants' = grants /\ FreshToken(t)
      /\ events' = [events EXCEPT ![j] = @ \cup {Event(2, "submitted", "running", at)}]
  BY DEF ClaimNext, Write, Log
<1> HIDE DEF new
<1>3. /\ row.status = new.status /\ row.submittedAt = new.submittedAt
      /\ row.startedAt = new.startedAt /\ row.finishedAt = new.finishedAt
      /\ row.result = new.result /\ row.caller = new.caller /\ row.key = new.key /\ row.token = t
      /\ row.cancelAt = new.cancelAt
  BY <1>1 DEF Rows
<1>4. RowInv(j, row)
  BY <1>1, TokenKeepsRowInv
<1> HIDE DEF row
<1>5. ExpectedEvents(row) = ExpectedEvents(new) /\ GrantsOf(j, row) = GrantsOf(j, new)
  BY <1>3 DEF ExpectedEvents, GrantsOf
<1>6. events' = [events EXCEPT ![j] = ExpectedEvents(row)]
  BY <1>1, <1>2, <1>5
<1>7. Rewrites(j, row)
  BY <1>1, <1>2, <1>3, <1>4, <1>5, <1>6 DEF Rewrites, Advances
<1>8. QED BY <1>7

LEMMA CancelRewrites ==
  ASSUME IInv, NEW j \in JobIds, NEW at \in Times, Cancel(j, at)
  PROVE  \E row : Rewrites(j, row)
<1> DEFINE old == jobs[j]
           row == [old EXCEPT !.cancelAt = at]
<1>1. /\ RowInv(j, old) /\ old \in Rows /\ events[j] = ExpectedEvents(old)
      /\ old.status \in {"submitted", "running"}
  BY DEF IInv, RowInv, Cancel
<1>2. jobs' = [jobs EXCEPT ![j] = row] /\ grants' = grants /\ events' = events
  BY DEF Cancel, Write
<1>3. RowInv(j, row)
  BY <1>1, CancelKeepsRowInv
<1>4. old.result = None
  BY <1>1 DEF RowInv, Shape, NoRow, Terminal
<1> HIDE DEF old
<1>5. /\ row.status = old.status /\ row.submittedAt = old.submittedAt
      /\ row.startedAt = old.startedAt /\ row.finishedAt = old.finishedAt
      /\ row.result = old.result /\ row.caller = old.caller /\ row.key = old.key
      /\ row.token = old.token /\ row.cancelAt = at
  BY <1>1 DEF Rows
<1> HIDE DEF row
<1>6. ExpectedEvents(row) = ExpectedEvents(old) /\ GrantsOf(j, row) = {}
  BY <1>4, <1>5 DEF ExpectedEvents, GrantsOf
<1>7. events' = [events EXCEPT ![j] = ExpectedEvents(row)]
  BY <1>1, <1>2, <1>6 DEF IInv
<1>8. Rewrites(j, row)
  BY <1>1, <1>2, <1>3, <1>5, <1>6, <1>7, NoneIsNothing DEF Rewrites, Advances, Cancel, old
<1>9. QED BY <1>8

LEMMA TransitionRewrites ==
  ASSUME IInv, NEW j \in JobIds, NEW at \in Times, NEW s \in Statuses,
         NEW r \in Opt(Results), NEW code \in Opt(Codes), NEW token,
         Transition(j, s, at, r, code, token)
  PROVE  Rewrites(j, Snapshot(jobs[j], s, at, r, code))
<1> DEFINE old == jobs[j]
           new == Snapshot(old, s, at, r, code)
<1>1. /\ SnapshotLegal(j, old, s, at, r, code) /\ CancelHonoured(old, s, r, code)
      /\ jobs' = [jobs EXCEPT ![j] = new] /\ grants' = grants \cup GrantsOf(j, new)
      /\ events' = [events EXCEPT ![j] = @ \cup {Event(NextSequence(old), old.status, s, at)}]
  BY DEF Transition, Accepts, Write, Log
<1>2. RowInv(j, old) /\ old \in Rows /\ events[j] = ExpectedEvents(old)
  BY DEF IInv, RowInv
<1>3. CASE s = "running"
  <2>1. r = None /\ code = None
    BY <1>1, <1>3 DEF SnapshotLegal, Terminal
  <2>2. /\ old.status = "submitted" /\ NextSequence(old) = 2 /\ RowInv(j, new)
        /\ new.caller = old.caller /\ new.key = old.key /\ new.token = None
        /\ new.status = "running" /\ new.cancelAt = old.cancelAt
        /\ ExpectedEvents(new) = events[j] \cup {Event(2, "submitted", "running", at)}
    BY <1>1, <1>3, <2>1, StartRewrites
  <2> HIDE DEF new
  <2>3. events' = [events EXCEPT ![j] = ExpectedEvents(new)]
    BY <1>1, <1>3, <2>2
  <2>4. QED BY <1>1, <2>2, <2>3 DEF Rewrites, Advances, new
<1>4. CASE s \in Terminal
  <2>1. old.status = "running"
    BY <1>1, <1>4 DEF SnapshotLegal, Terminal
  <2>2. old.startedAt # None /\ old.finishedAt = None
    BY <1>2, <2>1 DEF RowInv, Shape, NoRow, Terminal
  <2>3. RowInv(j, new)
    BY <1>1, <1>2, <1>4, EndKeepsRowInv
  <2>4. /\ new.status = s /\ new.startedAt = old.startedAt /\ new.finishedAt = at
        /\ new.submittedAt = old.submittedAt
        /\ new.caller = old.caller /\ new.key = old.key /\ new.token = old.token
        /\ new.cancelAt = old.cancelAt
    BY <1>2, <1>4, SnapshotFields DEF Terminal
  <2> HIDE DEF new
  <2>5. ExpectedEvents(new) = events[j] \cup {Event(3, "running", s, at)}
    BY <1>2, <1>4, <2>1, <2>2, <2>4, NoneIsNothing DEF ExpectedEvents, Terminal
  <2>6. NextSequence(old) = 3
    BY <2>2 DEF NextSequence
  <2>7. events' = [events EXCEPT ![j] = ExpectedEvents(new)]
    BY <1>1, <2>1, <2>5, <2>6
  <2>8. QED BY <1>1, <1>4, <2>1, <2>3, <2>4, <2>7 DEF Rewrites, Advances, new
<1>5. s # "submitted"
  BY <1>1 DEF SnapshotLegal, Terminal
<1>6. QED BY <1>3, <1>4, <1>5 DEF Statuses

LEMMA NextRewrites ==
  ASSUME IInv, Next
  PROVE  \E j \in JobIds, row \in Rows : Rewrites(j, row)
<1>1. \E j \in JobIds : \E row : Rewrites(j, row)
  BY SubmitRewrites, SubmitRequestRewrites, SubmitAndClaimRewrites, ClaimNextRewrites,
     CancelRewrites, TransitionRewrites DEF Next
<1>2. QED BY <1>1 DEF Rewrites, RowInv

LEMMA Inductive == IInv /\ [Next]_vars => IInv'
<1>1. ASSUME IInv, Next PROVE IInv'
  BY <1>1, NextRewrites, RewritesKeepsIInv
<1>2. ASSUME IInv, UNCHANGED vars PROVE IInv'
  BY <1>2 DEF IInv, vars, Evidence, OneJobPerKey, OneJobPerToken
<1>3. QED BY <1>1, <1>2

LEMMA InitIInv == Init => IInv
<1> SUFFICES ASSUME Init PROVE IInv
  OBVIOUS
<1>1. \A j \in JobIds : jobs[j] = NoRow
  BY DEF Init
<1>2. NoRow \in Rows /\ \A j \in JobIds : RowInv(j, NoRow)
  BY NoRowInv DEF RowInv, NoRow, Rows
<1>3. jobs \in [JobIds -> Rows]
  BY <1>2 DEF Init
<1>4. \A j \in JobIds : ExpectedEvents(jobs[j]) = {}
  BY <1>1 DEF ExpectedEvents, NoRow
<1>5. events = [j \in JobIds |-> ExpectedEvents(jobs[j])]
  BY <1>4 DEF Init
<1>6. Evidence
  BY <1>1 DEF Init, Evidence, GrantsOf, NoRow
<1>7. OneJobPerKey /\ OneJobPerToken
  BY <1>1 DEF OneJobPerKey, OneJobPerToken, NoRow
<1>8. QED BY <1>1, <1>2, <1>3, <1>5, <1>6, <1>7 DEF IInv

\* The inductive invariant holds of every behaviour of every set of callers.
THEOREM InvariantHolds == Spec => []IInv
  BY InitIInv, Inductive, PTL DEF Spec

-----------------------------------------------------------------------------
(* Consequences *)

\* No accepted sequence of calls leaves a row or a history that the repository
\* itself would refuse to read (job.persisted_invalid).
THEOREM ReadabilityHolds == Spec => []RowsStayReadable
<1>1. IInv => RowsStayReadable
  BY ShapeIsReadable DEF IInv, RowInv, RowsStayReadable, Exists
<1>2. QED BY InvariantHolds, <1>1, PTL

\* A recorded cancellation is never answered by an ordinary outcome.
THEOREM FenceHolds == Spec => []CancellationFence
<1>1. IInv => CancellationFence
  BY DEF IInv, RowInv, Fenced, CancellationFence
<1>2. QED BY InvariantHolds, <1>1, PTL

\* Artifact authority is exactly what the ended Jobs of a caller found.
THEOREM GrantsHold == Spec => []GrantsFollowOutcomes
<1>1. ASSUME IInv PROVE GrantsFollowOutcomes
  <2> SUFFICES ASSUME NEW c \in Callers, NEW a \in Artifacts
               PROVE  CallerHasArtifact(c, a) <=>
                        \E j \in JobIds :
                          /\ jobs[j].caller = c /\ jobs[j].status \in Terminal
                          /\ jobs[j].result # None /\ a \in jobs[j].result.artifacts
    BY DEF GrantsFollowOutcomes
  <2>1. \A j \in JobIds : jobs[j].result # None => jobs[j].status \in Terminal
    BY <1>1 DEF IInv, RowInv, Shape, NoRow
  <2>2. ASSUME NEW j \in JobIds, <<j, c, a>> \in grants
        PROVE  jobs[j].caller = c /\ jobs[j].result # None /\ a \in jobs[j].result.artifacts
    BY <1>1, <2>2 DEF IInv, Evidence, GrantsOf
  <2>3. ASSUME NEW j \in JobIds, jobs[j].caller = c, jobs[j].result # None,
               a \in jobs[j].result.artifacts
        PROVE  <<j, c, a>> \in grants
    BY <1>1, <2>3, NoneIsNothing DEF IInv, Evidence, GrantsOf
  <2>4. QED BY <2>1, <2>2, <2>3 DEF CallerHasArtifact
<1>2. QED BY InvariantHolds, <1>1, PTL

\* Idempotent submission, and one Job per claim token.
THEOREM IdentitiesHold == Spec => []IdentitiesAreUnique
<1>1. IInv => IdentitiesAreUnique
  BY DEF IInv, IdentitiesAreUnique
<1>2. QED BY InvariantHolds, <1>1, PTL

\* Rows, histories and grants keep their types.
THEOREM TypesHold == Spec => []TypeOK
<1>1. ASSUME IInv PROVE TypeOK
  <2>1. ASSUME NEW j \in JobIds PROVE ExpectedEvents(jobs[j]) \subseteq Events
    <3>1. RowInv(j, jobs[j])
      BY <1>1 DEF IInv
    <3>2. /\ jobs[j].status # "absent" => jobs[j].submittedAt \in Times
          /\ jobs[j].startedAt \in Opt(Times)
          /\ jobs[j].finishedAt # None => jobs[j].finishedAt \in Times /\ jobs[j].status \in Statuses
      BY <3>1 DEF RowInv, Shape, Rows, NoRow, Statuses
    <3>3. QED BY <3>2 DEF ExpectedEvents, Events, Event, Statuses
  <2>2. events \in [JobIds -> SUBSET Events]
    BY <1>1, <2>1 DEF IInv
  <2>3. ASSUME NEW j \in JobIds PROVE GrantsOf(j, jobs[j]) \subseteq JobIds \X Callers \X Artifacts
    <3>1. jobs[j].caller \in Opt(Callers) /\ jobs[j].result \in Opt(Results)
      BY <1>1 DEF IInv, RowInv, Rows
    <3>2. QED BY <3>1, ResultTypes DEF GrantsOf
  <2>4. grants \subseteq JobIds \X Callers \X Artifacts
    BY <1>1, <2>3 DEF IInv, Evidence
  <2>5. QED BY <1>1, <2>2, <2>4 DEF TypeOK, IInv
<1>2. QED BY InvariantHolds, <1>1, PTL

\* The first cancellation timestamp is never overwritten or withdrawn.
THEOREM FirstCancelHolds == Spec => FirstCancelStands
<1>1. ASSUME IInv, [Next]_vars
      PROVE  [\A j \in JobIds : jobs[j].cancelAt # None => jobs'[j].cancelAt = jobs[j].cancelAt]_vars
  <2>1. CASE UNCHANGED vars
    BY <2>1
  <2>2. CASE Next
    <3>1. PICK j \in JobIds, row \in Rows : Rewrites(j, row)
      BY <1>1, <2>2, NextRewrites
    <3>2. \A i \in JobIds : jobs'[i] = IF i = j THEN row ELSE jobs[i]
      BY <1>1, <3>1 DEF IInv, Rewrites
    <3>3. jobs[j].cancelAt # None => row.cancelAt = jobs[j].cancelAt
      BY <3>1 DEF Rewrites, Advances
    <3>4. QED BY <3>2, <3>3
  <2>3. QED BY <1>1, <2>1, <2>2
<1>2. QED BY InvariantHolds, <1>1, PTL DEF Spec, FirstCancelStands

-----------------------------------------------------------------------------
(* Refinement *)

\* The lifecycle a caller is promised is kept by every behaviour.
THEOREM LifecycleHolds == Spec => ImplementsLifecycle
<1>1. ASSUME Init PROVE Lifecycle!Init
  <2>1. \A j \in JobIds : jobs[j] = NoRow
    BY <1>1 DEF Init
  <2>2. \A j \in JobIds : /\ jobs[j].status = "absent" /\ jobs[j].cancelAt = None
                          /\ Verdict(jobs[j]) = "none"
    BY <2>1 DEF NoRow, Verdict, Terminal
  <2>3. \A j \in JobIds : {a \in Artifacts : \E c \in Callers : <<j, c, a>> \in grants} = {}
    BY <1>1 DEF Init
  <2>4. QED BY <2>2, <2>3 DEF Lifecycle!Init
<1>2. ASSUME IInv, NEW j \in JobIds, NEW row \in Rows, Rewrites(j, row)
      PROVE  Lifecycle!Next
  <2> DEFINE phase == [i \in JobIds |-> jobs[i].status]
             cancelled == [i \in JobIds |-> jobs[i].cancelAt # None]
             verdict == [i \in JobIds |-> Verdict(jobs[i])]
             content == [i \in JobIds |-> {a \in Artifacts : \E c \in Callers : <<i, c, a>> \in grants}]
             found == IF row.result = None THEN {} ELSE row.result.artifacts
  <2>1. \A i \in JobIds : jobs'[i] = IF i = j THEN row ELSE jobs[i]
    BY <1>2 DEF IInv, Rewrites
  <2>2. /\ phase' = [phase EXCEPT ![j] = row.status]
        /\ cancelled' = [cancelled EXCEPT ![j] = (row.cancelAt # None)]
        /\ verdict' = [verdict EXCEPT ![j] = Verdict(row)]
    BY <2>1
  <2>3. content' = [content EXCEPT ![j] = IF row.caller = None THEN {} ELSE found]
    <3>1. grants' = grants \cup GrantsOf(j, row)
      BY <1>2 DEF Rewrites
    <3>2. \A g \in GrantsOf(j, row) : g[1] = j
      BY DEF GrantsOf
    <3>3. \A i \in JobIds \ {j} : content'[i] = content[i]
      BY <3>1, <3>2
    <3>4. \A c, a : <<j, c, a>> \notin grants
      <4>1. jobs[j].result = None
        BY <1>2 DEF IInv, Rewrites, RowInv, Shape, NoRow, Terminal
      <4>2. QED BY <1>2, <4>1 DEF IInv, Evidence, GrantsOf
    <3>5. content'[j] = {a \in Artifacts : \E c \in Callers : <<j, c, a>> \in GrantsOf(j, row)}
      BY <3>1, <3>4
    <3>6. content'[j] = IF row.caller = None THEN {} ELSE found
      <4>1. row.caller \in Opt(Callers) /\ row.result \in Opt(Results)
        BY DEF Rows
      <4>2. found \in SUBSET Artifacts
        BY <4>1, ResultTypes
      <4>3. CASE row.caller = None \/ row.result = None
        BY <3>5, <4>3 DEF GrantsOf
      <4>4. CASE row.caller # None /\ row.result # None
        <5>1. GrantsOf(j, row) = {<<j, row.caller, a>> : a \in found}
          BY <4>4 DEF GrantsOf
        <5>2. QED BY <3>5, <4>1, <4>2, <4>4, <5>1
      <4>5. QED BY <4>3, <4>4
    <3> HIDE DEF found
    <3>7. QED BY <3>3, <3>6
  <2>4. content[j] = {}
    <3>1. jobs[j].result = None
      BY <1>2 DEF IInv, Rewrites, RowInv, Shape, NoRow, Terminal
    <3>2. QED BY <1>2, <3>1 DEF IInv, Evidence, GrantsOf
  <2>5. RowInv(j, row) /\ Advances(jobs[j], row) /\ Verdict(jobs[j]) = "none"
    BY <1>2 DEF Rewrites, Verdict, Terminal
  <2>6. /\ phase[j] = jobs[j].status /\ cancelled[j] = (jobs[j].cancelAt # None)
        /\ verdict[j] = "none"
    BY <2>5
  <2>7. CASE row.status \notin Terminal
    <3>1. row.result = None
      BY <2>5, <2>7 DEF RowInv, Shape, NoRow
    <3>2. verdict' = verdict /\ content' = content
      <4>1. Verdict(row) = "none" /\ found = {}
        BY <2>7, <3>1 DEF Verdict
      <4>2. verdict' = verdict
        BY <2>2, <2>6, <4>1
      <4>3. content' = content
        BY <2>3, <2>4, <4>1
      <4>4. QED BY <4>2, <4>3
    <3>3. CASE jobs[j].status = "absent"
      <4>1. cancelled' = cancelled /\ row.status \in {"submitted", "running"}
        BY <2>2, <2>5, <2>6, <3>3 DEF Advances
      <4>2. Lifecycle!Publish(j)
        BY <2>2, <2>6, <3>2, <3>3, <4>1 DEF Lifecycle!Publish
      <4>3. QED BY <4>2 DEF Lifecycle!Next
    <3>4. CASE jobs[j].status = "submitted" /\ row.status = "running" /\ row.cancelAt = jobs[j].cancelAt
      <4>1. cancelled' = cancelled
        BY <2>2, <2>6, <3>4
      <4>2. Lifecycle!Start(j)
        BY <2>2, <2>6, <3>2, <3>4, <4>1 DEF Lifecycle!Start
      <4>3. QED BY <4>2 DEF Lifecycle!Next
    <3>5. CASE /\ jobs[j].status \in {"submitted", "running"} /\ row.status = jobs[j].status
               /\ row.cancelAt # None
      <4>1. phase' = phase /\ cancelled' = [cancelled EXCEPT ![j] = TRUE]
        BY <2>2, <2>6, <3>5
      <4>2. Lifecycle!RequestCancel(j)
        BY <2>6, <3>2, <3>5, <4>1 DEF Lifecycle!RequestCancel
      <4>3. QED BY <4>2 DEF Lifecycle!Next
    <3>6. QED BY <2>5, <2>7, <3>3, <3>4, <3>5 DEF Advances
  <2>8. CASE row.status \in Terminal
    <3>1. jobs[j].status = "running" /\ row.cancelAt = jobs[j].cancelAt
      BY <2>5, <2>8 DEF Advances, Terminal
    <3>2. cancelled' = cancelled
      BY <2>2, <2>6, <3>1
    <3>3. found \in SUBSET Artifacts
      BY ResultTypes DEF Rows
    <3>4. Verdict(row) \in {"ordinary", "cancelled", "interrupted"}
      BY <2>8 DEF Verdict
    <3>5. cancelled[j] => Verdict(row) # "ordinary"
      BY <2>5, <2>6, <2>8, <3>1 DEF RowInv, Fenced, Verdict
    <3>6. Verdict(row) = "interrupted" => row.status = "failed" /\ found = {}
      BY <2>5, <2>8 DEF RowInv, Shape, Verdict, NoRow, Terminal
    <3>7. row.result # None => row.result.status = row.status /\ WellFormed(row.result)
      <4>1. row.result \in Opt(Results)
        BY DEF Rows
      <4>2. row.result # None => row.result.status = row.status
        BY <2>5, <2>8 DEF RowInv, Shape, NoRow, Terminal
      <4>3. QED BY <4>1, <4>2, ResultsAreWellFormed
    <3>8. Verdict(row) = "cancelled" => row.status # "completed"
      BY <2>8, <3>7, NoneIsNoCode DEF Verdict, WellFormed, Codes, Terminal
    <3>9. found # {} <=> row.status \in {"completed", "partial"}
      <4>1. CASE row.result = None
        BY <2>5, <2>8, <4>1 DEF RowInv, Shape, NoRow, Terminal
      <4>2. CASE row.result # None
        BY <3>7, <4>2 DEF WellFormed
      <4>3. QED BY <4>1, <4>2
    <3>10. content' \in {content, [content EXCEPT ![j] = found]}
      BY <2>3, <2>4
    <3> HIDE DEF found, phase, cancelled, verdict, content
    <3>11. Lifecycle!End(j)
      BY <2>2, <2>6, <2>8, <3>1, <3>2, <3>3, <3>4, <3>5, <3>6, <3>8, <3>9, <3>10
         DEF Lifecycle!End, Lifecycle!Ends, Terminal, phase, cancelled, verdict, content
    <3>12. QED BY <3>11 DEF Lifecycle!Next
  <2>9. QED BY <2>7, <2>8
<1>3. ASSUME IInv, [Next]_vars PROVE [Lifecycle!Next]_(Lifecycle!vars)
  <2>1. CASE UNCHANGED vars
    BY <2>1 DEF vars, Lifecycle!vars, Verdict
  <2>2. CASE Next
    BY <1>2, <1>3, <2>2, NextRewrites
  <2>3. QED BY <1>3, <2>1, <2>2
<1>4. QED BY InvariantHolds, <1>1, <1>3, PTL DEF Spec, ImplementsLifecycle, Lifecycle!Spec

-----------------------------------------------------------------------------
(* II. The execution *)


\* What the program counter says of the other columns of an executor.
ExecShape(e) ==
  /\ exec[e].pc \notin {"idle", "open"} => exec[e].job \in JobIds
  /\ exec[e].pc # "idle" => exec[e].since \in Times
  /\ exec[e].pc = "poll" => exec[e].result \in Results
  /\ exec[e].pc \in {"commit", "recommit"} => exec[e].proposal \in Results
  /\ exec[e].pc \in {"poll", "except", "claimed"} => exec[e].token \in Tokens

ExecStates ==
  [pc : PCs, job : Opt(JobIds), token : Opt(Tokens), since : Opt(Times),
   result : Opt(Results), proposal : Opt(Results), raised : BOOLEAN]

ExecTypes ==
  /\ clock \in Times
  /\ server \in {"down", "opening", "starting", "up", "closing"}
  /\ reading \in Opt(Times) /\ (server \in {"opening", "starting"} => reading \in Times)
  /\ todo \subseteq JobIds
  /\ crashes \in 0..MaxCrashes /\ closes \in 0..MaxCloses
  /\ exec \in [Executors -> ExecStates]
  /\ \A e \in Executors : ExecShape(e)

LEMMA BuiltResults ==
  ASSUME NEW at \in Times, NEW j \in JobIds
  PROVE  /\ \A r \in Results : CancelledResult(r, at) \in Results
         /\ \A r \in Opt(Results), c \in BOOLEAN : ExceptionResult(j, r, c, at) \in Results
         /\ RunFailures(j, at) \subseteq Results
<1>1. /\ \A r \in Results : CancelledResult(r, at) \in Results
      /\ FailedResult(j, WorkflowFailed, at) \in Results
      /\ FailedResult(j, Cancelled, at) \in Results
      /\ RunFailures(j, at) \subseteq Results
      /\ \A r \in Results : ExceptionResult(r.run, r, FALSE, at) \in Results
  BY ResultsAreClosed DEF RunFailures
<1>2. ASSUME NEW r \in Results, r # None PROVE ExceptionResult(j, r, FALSE, at) \in Results
  <2>1. ExceptionResult(j, r, FALSE, at) = ExceptionResult(r.run, r, FALSE, at)
    BY <1>2 DEF ExceptionResult
  <2>2. QED BY <1>1, <2>1
<1>3. ASSUME NEW r \in Results, r # None PROVE ExceptionResult(j, r, TRUE, at) \in Results
  BY <1>1, <1>3 DEF ExceptionResult
<1>4. ASSUME NEW c \in BOOLEAN PROVE ExceptionResult(j, None, c, at) \in Results
  BY <1>1, <1>4 DEF ExceptionResult
<1>5. QED BY <1>1, <1>2, <1>3, <1>4

LEMMA IdleState == Idle \in ExecStates
  BY DEF Idle, ExecStates, PCs

\* A step of one executor that gives it a well-shaped state keeps the types.
LEMMA MoveKeepsTypes ==
  ASSUME ExecTypes, NEW e \in Executors, NEW state \in ExecStates, Move(e, state),
         UNCHANGED Process,
         /\ state.pc \notin {"idle", "open"} => state.job \in JobIds
         /\ state.pc # "idle" => state.since \in Times
         /\ state.pc = "poll" => state.result \in Results
         /\ state.pc \in {"commit", "recommit"} => state.proposal \in Results
         /\ state.pc \in {"poll", "except", "claimed"} => state.token \in Tokens
  PROVE  ExecTypes'
<1>1. \A f \in Executors : exec'[f] = IF f = e THEN state ELSE exec[f]
  BY DEF ExecTypes, Move
<1>2. exec' \in [Executors -> ExecStates]
  BY DEF ExecTypes, Move
<1>3. \A f \in Executors : ExecShape(f)'
  BY <1>1 DEF ExecTypes, ExecShape
<1>4. QED BY <1>2, <1>3 DEF ExecTypes, Process

LEMMA StopKeepsTypes ==
  ASSUME ExecTypes, NEW e \in Executors, Stop(e), UNCHANGED Process
  PROVE  ExecTypes'
<1>1. Idle.pc = "idle" BY DEF Idle
<1>2. QED BY <1>1, IdleState, MoveKeepsTypes DEF Stop

LEMMA BeginKeepsTypes ==
  ASSUME ExecTypes, NEW e \in Executors, NEW j \in JobIds, NEW t \in Opt(Tokens),
         NEW pc \in {"queued", "claimed", "work"}, Begin(e, pc, j, t), UNCHANGED Process,
         pc = "claimed" => t \in Tokens
  PROVE  ExecTypes'
<1> DEFINE state == [Idle EXCEPT !.pc = pc, !.job = j, !.token = t, !.since = clock]
<1>1. state \in ExecStates /\ state.pc = pc /\ state.job = j /\ state.token = t /\ state.since = clock
  BY DEF Idle, ExecStates, PCs, ExecTypes
<1>2. Move(e, state)
  BY DEF Begin
<1> HIDE DEF state
<1>3. clock \in Times BY DEF ExecTypes
<1>4. QED BY <1>1, <1>2, <1>3, MoveKeepsTypes

-----------------------------------------------------------------------------
(* Every step keeps the types, and is a call on the repository or none *)

Changing(e) ==
  \/ Claim(e) \/ Abandon(e) \/ Retrieve(e) \/ Run(e) \/ RunStart(e) \/ Commit(e)

Private(e) ==
  \/ Look(e) \/ ClaimNothing(e) \/ ClaimRaises(e) \/ Register(e) \/ RunRaises(e)
  \/ NotClaimed(e) \/ Work(e) \/ Raise(e) \/ Poll(e) \/ Terminalize(e) \/ Convert(e) \/ GiveUp(e)
  \/ Fault(e)

Surroundings ==
  \/ \E j \in JobIds : Ask(j) \/ AskCancel(j)
  \/ Tick \/ ServerStep \/ Crash \/ Close

LEMMA StepKinds ==
  ExecNext <=> (\E e \in Executors : Changing(e) \/ Private(e)) \/ Surroundings
  BY DEF ExecNext, Execute, Changing, Private, Surroundings

LEMMA TransitionIsNext ==
  ASSUME NEW j \in JobIds, NEW s \in Statuses, NEW at \in Times, NEW r \in Opt(Results),
         NEW code \in Opt(Codes), NEW t \in Opt(Tokens), Transition(j, s, at, r, code, t)
  PROVE  Next
  BY DEF Next

\* A step of an executor on its own state.
LEMMA PrivateKeepsTypes ==
  ASSUME ExecTypes, NEW e \in Executors, Private(e)
  PROVE  ExecTypes' /\ UNCHANGED <<vars, Process>>
<1> DEFINE old == exec[e]
<1>0. old \in ExecStates /\ ExecShape(e) /\ clock \in Times /\ exec \in [Executors -> ExecStates]
  BY DEF ExecTypes
<1>1. CASE Look(e)
  <2> DEFINE state == [Idle EXCEPT !.pc = "open", !.since = clock]
  <2>1. state \in ExecStates /\ state.pc = "open" /\ state.since = clock
    BY <1>0 DEF Idle, ExecStates, PCs
  <2>2. Move(e, state) /\ UNCHANGED <<vars, Process>>
    BY <1>1 DEF Look
  <2> HIDE DEF state
  <2>3. QED BY <1>0, <2>1, <2>2, MoveKeepsTypes
<1>2. CASE ClaimNothing(e) \/ ClaimRaises(e) \/ RunRaises(e) \/ NotClaimed(e) \/ GiveUp(e)
        \/ StorageFails(e) \/ Die(e)
  <2>1. Stop(e) /\ UNCHANGED <<vars, Process>>
    BY <1>2 DEF ClaimNothing, ClaimRaises, RunRaises, NotClaimed, GiveUp, StorageFails, Die
  <2>2. QED BY <2>1, StopKeepsTypes
<1>3. CASE Register(e)
  <2> DEFINE state == [old EXCEPT !.pc = "work", !.since = clock]
  <2>1. old.pc = "claimed" /\ Move(e, state) /\ UNCHANGED <<vars, Process>>
    BY <1>3 DEF Register
  <2>2. state \in ExecStates /\ state.pc = "work" /\ state.job = old.job /\ state.since = clock
    BY <1>0 DEF ExecStates, PCs
  <2>3. state.job \in JobIds
    BY <1>0, <2>1, <2>2 DEF ExecShape
  <2> HIDE DEF state
  <2>4. QED BY <1>0, <2>1, <2>2, <2>3, MoveKeepsTypes
<1>4. CASE Work(e)
  <2>1. PICK r \in Results :
          Move(e, [old EXCEPT !.pc = IF Claimed(e) THEN "poll" ELSE "commit",
                              !.result = r, !.proposal = r])
    BY <1>4 DEF Work
  <2>2. old.pc = "work" /\ UNCHANGED <<vars, Process>>
    BY <1>4 DEF Work
  <2> DEFINE pc == IF Claimed(e) THEN "poll" ELSE "commit"
             state == [old EXCEPT !.pc = pc, !.result = r, !.proposal = r]
  <2>3. pc \in {"poll", "commit"} /\ (pc = "poll" => old.token \in Tokens)
    BY <1>0 DEF Claimed, ExecStates
  <2>4. Move(e, state)
    BY <2>1
  <2> HIDE DEF pc
  <2>5. /\ state \in ExecStates /\ state.pc = pc /\ state.job = old.job /\ state.since = old.since
        /\ state.result = r /\ state.proposal = r /\ state.token = old.token
    BY <1>0, <2>3 DEF ExecStates, PCs
  <2>6. old.job \in JobIds /\ old.since \in Times
    BY <1>0, <2>2 DEF ExecShape
  <2> HIDE DEF state
  <2>7. QED BY <2>2, <2>3, <2>4, <2>5, <2>6, MoveKeepsTypes
<1>5. CASE Raise(e)
  <2>1. old.pc = "work" /\ UNCHANGED <<vars, Process>>
    BY <1>5 DEF Raise
  <2>2. old.job \in JobIds /\ old.since \in Times
    BY <1>0, <2>1 DEF ExecShape
  <2>3. CASE Claimed(e)
    <3> DEFINE state == [old EXCEPT !.pc = "except", !.raised = TRUE]
    <3>1. Move(e, state)
      BY <1>5, <2>3 DEF Raise
    <3>2. /\ state \in ExecStates /\ state.pc = "except" /\ state.job = old.job
          /\ state.since = old.since /\ state.token = old.token
      BY <1>0 DEF ExecStates, PCs
    <3>3. old.token \in Tokens
      BY <1>0, <2>3 DEF Claimed, ExecStates
    <3> HIDE DEF state
    <3>4. QED BY <2>1, <2>2, <3>1, <3>2, <3>3, MoveKeepsTypes
  <2>4. CASE ~ Claimed(e)
    <3>0. PICK r \in RunFailures(Job(e), clock) :
            Move(e, [old EXCEPT !.pc = "commit", !.raised = TRUE, !.proposal = r])
      BY <1>5, <2>4 DEF Raise
    <3> DEFINE state == [old EXCEPT !.pc = "commit", !.raised = TRUE, !.proposal = r]
    <3>1. Move(e, state)
      BY <3>0
    <3>2. r \in Results
      BY <1>0, <2>2, BuiltResults DEF Job
    <3>3. /\ state \in ExecStates /\ state.pc = "commit" /\ state.job = old.job
          /\ state.since = old.since /\ state.proposal = r
      BY <1>0, <3>2 DEF ExecStates, PCs
    <3> HIDE DEF state
    <3>4. QED BY <2>1, <2>2, <3>1, <3>2, <3>3, MoveKeepsTypes
  <2>5. QED BY <2>3, <2>4
<1>6. CASE Poll(e)
  <2> DEFINE r == IF Row(e).cancelAt # None THEN CancelledResult(old.result, clock) ELSE old.result
             state == [old EXCEPT !.pc = "commit", !.proposal = r]
  <2>1. old.pc = "poll" /\ Move(e, state) /\ UNCHANGED <<vars, Process>>
    BY <1>6 DEF Poll
  <2>2. old.job \in JobIds /\ old.since \in Times /\ old.result \in Results
    BY <1>0, <2>1 DEF ExecShape
  <2>3. r \in Results
    BY <1>0, <2>2, BuiltResults
  <2> HIDE DEF r
  <2>4. /\ state \in ExecStates /\ state.pc = "commit" /\ state.job = old.job
        /\ state.since = old.since /\ state.proposal = r
    BY <1>0, <2>3 DEF ExecStates, PCs
  <2> HIDE DEF state
  <2>5. QED BY <2>1, <2>2, <2>3, <2>4, MoveKeepsTypes
<1>7. CASE PollFails(e)
  <2> DEFINE state == [old EXCEPT !.pc = "except", !.raised = TRUE]
  <2>1. old.pc = "poll" /\ Move(e, state) /\ UNCHANGED <<vars, Process>>
    BY <1>7 DEF PollFails
  <2>2. old.job \in JobIds /\ old.since \in Times /\ old.token \in Tokens
    BY <1>0, <2>1 DEF ExecShape
  <2>3. /\ state \in ExecStates /\ state.pc = "except" /\ state.job = old.job
        /\ state.since = old.since /\ state.token = old.token
    BY <1>0 DEF ExecStates, PCs
  <2> HIDE DEF state
  <2>4. QED BY <2>1, <2>2, <2>3, MoveKeepsTypes
<1>8. CASE Terminalize(e)
  <2> DEFINE r == ExceptionResult(Job(e), old.result, Row(e).cancelAt # None, clock)
             state == [old EXCEPT !.pc = "commit", !.proposal = r]
  <2>1. old.pc = "except" /\ Move(e, state) /\ UNCHANGED <<vars, Process>>
    BY <1>8 DEF Terminalize
  <2>2. old.job \in JobIds /\ old.since \in Times /\ old.result \in Opt(Results)
    BY <1>0, <2>1 DEF ExecShape, ExecStates
  <2>3. r \in Results
    BY <1>0, <2>2, BuiltResults DEF Job
  <2> HIDE DEF r
  <2>4. /\ state \in ExecStates /\ state.pc = "commit" /\ state.job = old.job
        /\ state.since = old.since /\ state.proposal = r
    BY <1>0, <2>3 DEF ExecStates, PCs
  <2> HIDE DEF state
  <2>5. QED BY <2>1, <2>2, <2>3, <2>4, MoveKeepsTypes
<1>9. CASE Convert(e)
  <2> DEFINE r == IF old.raised THEN ExceptionResult(Job(e), old.result, TRUE, clock)
                  ELSE CancelledResult(old.proposal, clock)
             state == [old EXCEPT !.pc = "recommit", !.proposal = r]
  <2>1. old.pc = "commit" /\ Move(e, state) /\ UNCHANGED <<vars, Process>>
    BY <1>9 DEF Convert, Outrun
  <2>2. old.job \in JobIds /\ old.since \in Times /\ old.result \in Opt(Results) /\ old.proposal \in Results
    BY <1>0, <2>1 DEF ExecShape, ExecStates
  <2>3. r \in Results
    BY <1>0, <2>2, BuiltResults DEF Job
  <2> HIDE DEF r
  <2>4. /\ state \in ExecStates /\ state.pc = "recommit" /\ state.job = old.job
        /\ state.since = old.since /\ state.proposal = r
    BY <1>0, <2>3 DEF ExecStates, PCs
  <2> HIDE DEF state
  <2>5. QED BY <2>1, <2>2, <2>3, <2>4, MoveKeepsTypes
<1>10. QED
  BY <1>1, <1>2, <1>3, <1>4, <1>5, <1>6, <1>7, <1>8, <1>9 DEF Private, Fault

\* A step of an executor that calls the repository.
LEMMA ChangingKeepsTypes ==
  ASSUME ExecTypes, NEW e \in Executors, Changing(e)
  PROVE  ExecTypes' /\ [Next]_vars
<1>0. exec[e] \in ExecStates /\ ExecShape(e) /\ clock \in Times
  BY DEF ExecTypes
<1>1. CASE Claim(e)
  <2>1. PICK j \in JobIds, t \in Tokens :
          ClaimNext(j, exec[e].since, t) /\ Begin(e, "claimed", j, t)
    BY <1>1 DEF Claim
  <2>2. exec[e].pc = "open" /\ UNCHANGED Process
    BY <1>1 DEF Claim
  <2>3. exec[e].since \in Times
    BY <1>0, <2>2 DEF ExecShape
  <2>4. QED BY <2>1, <2>2, <2>3, BeginKeepsTypes DEF Next
<1>2. CASE Abandon(e)
  <2>1. exec[e].pc = "claimed" /\ Stop(e) /\ UNCHANGED Process
    BY <1>2 DEF Abandon
  <2>2. Job(e) \in JobIds
    BY <1>0, <2>1 DEF ExecShape, Job
  <2>3. QED BY <1>0, <1>2, <2>1, <2>2, StopKeepsTypes DEF Abandon, Next
<1>3. CASE Retrieve(e)
  <2>1. PICK j \in JobIds, c \in Callers, k \in Keys, q \in Requests, t \in Tokens :
          SubmitAndClaim(j, c, k, q, clock, t) /\ Begin(e, "work", j, t)
    BY <1>3 DEF Retrieve
  <2>2. UNCHANGED Process
    BY <1>3 DEF Retrieve
  <2>3. QED BY <1>0, <2>1, <2>2, BeginKeepsTypes DEF Next
<1>4. CASE Run(e)
  <2>1. PICK j \in JobIds : Submit(j, clock) /\ Begin(e, "queued", j, None)
    BY <1>4 DEF Run
  <2>2. UNCHANGED Process
    BY <1>4 DEF Run
  <2>3. QED BY <1>0, <2>1, <2>2, BeginKeepsTypes DEF Next
<1>5. CASE RunStart(e)
  <2>1. /\ exec[e].pc = "queued" /\ UNCHANGED Process
        /\ Transition(Job(e), "running", clock, None, None, None) /\ Begin(e, "work", Job(e), None)
    BY <1>5 DEF RunStart
  <2>2. Job(e) \in JobIds
    BY <1>0, <2>1 DEF ExecShape, Job
  <2>3. QED BY <1>0, <2>1, <2>2, BeginKeepsTypes, TransitionIsNext DEF Statuses
<1>6. CASE Commit(e)
  <2> DEFINE p == exec[e].proposal
  <2>1. /\ exec[e].pc \in {"commit", "recommit"} /\ Stop(e) /\ UNCHANGED Process
        /\ Transition(Job(e), p.status, clock, p, FailureCode(p), exec[e].token)
    BY <1>6 DEF Commit
  <2>2. Job(e) \in JobIds /\ p \in Results /\ exec[e].token \in Opt(Tokens)
    BY <1>0, <2>1 DEF ExecShape, Job, ExecStates
  <2>3. p.status \in Statuses /\ FailureCode(p) \in Opt(Codes)
    BY <2>2, ResultTypes DEF Statuses
  <2> HIDE DEF p
  <2>4. QED BY <1>0, <2>1, <2>2, <2>3, StopKeepsTypes, TransitionIsNext
<1>7. QED
  BY <1>1, <1>2, <1>3, <1>4, <1>5, <1>6 DEF Changing

LEMMA SameExecKeepsTypes ==
  ASSUME ExecTypes, exec' = exec, clock' \in Times,
         server' \in {"down", "opening", "starting", "up", "closing"},
         reading' \in Opt(Times), server' \in {"opening", "starting"} => reading' \in Times,
         todo' \subseteq JobIds,
         crashes' \in 0..MaxCrashes, closes' \in 0..MaxCloses
  PROVE  ExecTypes'
  BY DEF ExecTypes, ExecShape

\* A step of a caller, of the clock or of the server's life.
LEMMA SurroundingsKeepTypes ==
  ASSUME IInv, ExecTypes, Surroundings
  PROVE  ExecTypes' /\ [Next]_vars
<1>0. /\ clock \in Times /\ todo \subseteq JobIds
      /\ server \in {"down", "opening", "starting", "up", "closing"}
      /\ reading \in Opt(Times) /\ (server \in {"opening", "starting"} => reading \in Times)
      /\ crashes \in 0..MaxCrashes /\ closes \in 0..MaxCloses
  BY DEF ExecTypes
<1>1. ASSUME NEW j \in JobIds, Ask(j) \/ AskCancel(j) PROVE ExecTypes' /\ Next
  <2>1. UNCHANGED execVars
    BY <1>1 DEF Ask, AskCancel
  <2>2. Next
    BY <1>0, <1>1 DEF Ask, AskCancel, Next
  <2>3. QED BY <1>0, <2>1, <2>2, SameExecKeepsTypes DEF execVars
<1>2. CASE Tick
  BY <1>0, <1>2, SameExecKeepsTypes DEF Tick, vars
<1>3. CASE Open \/ Start \/ StartFails \/ Serve \/ Exit
  <2>1. Running \subseteq JobIds
    BY DEF Running
  <2>2. QED BY <1>0, <1>3, <2>1, SameExecKeepsTypes DEF Open, Start, StartFails, Serve, Exit, vars
<1>4. CASE Reconcile
  <2>1. PICK j \in todo : Interrupt(j, reading) /\ todo' = todo \ {j}
    BY <1>4 DEF Reconcile
  <2>0. reading \in Times
    BY <1>0, <1>4 DEF Reconcile
  <2>2. j \in JobIds /\ jobs[j].token \in Opt(Tokens)
    BY <1>0 DEF IInv, Rows
  <2>3. Next
    BY <2>0, <2>1, <2>2, TransitionIsNext DEF Interrupt, Statuses, Terminal, Codes
  <2>4. QED BY <1>0, <1>4, <2>1, <2>3, SameExecKeepsTypes DEF Reconcile
<1>5. CASE CancelActive
  <2>1. PICK j \in todo : (Cancel(j, clock) \/ UNCHANGED vars) /\ todo' = todo \ {j}
    BY <1>5 DEF CancelActive
  <2>2. [Next]_vars
    BY <1>0, <2>1 DEF Next
  <2>3. QED BY <1>0, <1>5, <2>1, <2>2, SameExecKeepsTypes DEF CancelActive
<1>6. CASE Close
  BY <1>0, <1>6, SameExecKeepsTypes, BoundsAreNatural DEF Close, vars
<1>7. CASE Crash
  <2>1. \A f \in Executors : exec'[f] \in {Idle, exec[f]}
    BY <1>7 DEF Crash
  <2>2. exec' \in [Executors -> ExecStates]
    <3>1. DOMAIN exec' = Executors /\ exec' = [e \in Executors |-> exec'[e]]
      BY <1>7 DEF Crash
    <3>2. QED BY <2>1, <3>1, IdleState DEF ExecTypes
  <2>3. \A f \in Executors : ExecShape(f)'
    BY <2>1 DEF ExecTypes, ExecShape, Idle
  <2>4. QED BY <1>0, <1>7, <2>2, <2>3, BoundsAreNatural DEF Crash, ExecTypes, vars
<1>8. QED
  BY <1>1, <1>2, <1>3, <1>4, <1>5, <1>6, <1>7 DEF Surroundings, ServerStep

LEMMA ExecStep ==
  ASSUME IInv, ExecTypes, [ExecNext]_allVars
  PROVE  ExecTypes' /\ [Next]_vars /\ IInv'
<1>1. ASSUME NEW e \in Executors, Private(e) PROVE ExecTypes' /\ UNCHANGED vars
  BY <1>1, PrivateKeepsTypes
<1>2. ASSUME UNCHANGED allVars PROVE ExecTypes' /\ UNCHANGED vars
  BY <1>2 DEF allVars, vars, ExecTypes, ExecShape
<1>3. ExecTypes' /\ [Next]_vars
  BY <1>1, <1>2, StepKinds, ChangingKeepsTypes, SurroundingsKeepTypes
<1>4. QED BY <1>3, Inductive

LEMMA InitExecTypes == ExecInit => ExecTypes
<1> SUFFICES ASSUME ExecInit PROVE ExecTypes
  OBVIOUS
<1>1. \A e \in Executors : exec[e] = Idle
  BY DEF ExecInit
<1>2. exec \in [Executors -> ExecStates]
  BY IdleState DEF ExecInit
<1>3. \A e \in Executors : ExecShape(e)
  BY <1>1 DEF ExecShape, Idle
<1>4. QED BY <1>2, <1>3, BoundsAreNatural DEF ExecInit, ExecTypes

\* The processes keep the types and the repository's own invariant.
THEOREM ExecTypesHold == ExecSpec => [](IInv /\ ExecTypes)
<1>1. ExecInit => IInv /\ ExecTypes
  BY InitIInv, InitExecTypes DEF ExecInit
<1>2. IInv /\ ExecTypes /\ [ExecNext]_allVars => (IInv /\ ExecTypes)'
  BY ExecStep
<1>3. QED BY <1>1, <1>2, PTL DEF ExecSpec

\* The processes keep their shape.
THEOREM ExecTypeHolds == ExecSpec => []ExecTypeOK
<1>1. ExecTypes => ExecTypeOK
  BY DEF ExecTypes, ExecTypeOK, ExecStates
<1>2. QED BY <1>1, ExecTypesHold, PTL

\* Server, CLI and MCP processes together only ever make calls the repository
\* allows: everything proved of the repository is true of the running system.
THEOREM UsesRepositoryHolds == ExecSpec => UsesRepository
<1>1. ExecInit => Init
  BY DEF ExecInit
<1>2. IInv /\ ExecTypes /\ [ExecNext]_allVars => [Next]_vars
  BY ExecStep
<1>3. QED BY <1>1, <1>2, ExecTypesHold, PTL DEF ExecSpec, Spec, UsesRepository

-----------------------------------------------------------------------------
(* What a step of an executor leaves in its columns *)

\* An executor goes on with its Job: only these columns change.
GoesOn(e, pc, result, proposal) ==
  /\ exec'[e].pc = pc /\ exec'[e].result = result /\ exec'[e].proposal = proposal
  /\ exec'[e].job = exec[e].job /\ exec'[e].token = exec[e].token

LEMMA MoveAlone ==
  ASSUME ExecTypes, NEW e \in Executors, NEW state, Move(e, state)
  PROVE  exec'[e] = state /\ \A f \in Executors : f # e => exec'[f] = exec[f]
  BY DEF ExecTypes, Move

LEMMA MoveGoesOn ==
  ASSUME ExecTypes, NEW e \in Executors, NEW state, Move(e, state), NEW pc, NEW result, NEW proposal,
         state.pc = pc, state.result = result, state.proposal = proposal,
         state.job = exec[e].job, state.token = exec[e].token
  PROVE  GoesOn(e, pc, result, proposal) /\ exec'[e].since = state.since
  BY MoveAlone DEF GoesOn

LEMMA RegisterFields ==
  ASSUME ExecTypes, NEW e \in Executors, Register(e)
  PROVE  GoesOn(e, "work", exec[e].result, exec[e].proposal) /\ exec'[e].since = clock
<1> DEFINE state == [exec[e] EXCEPT !.pc = "work", !.since = clock]
<1>1. Move(e, state)
  BY DEF Register
<1>2. /\ state.pc = "work" /\ state.result = exec[e].result /\ state.proposal = exec[e].proposal
      /\ state.job = exec[e].job /\ state.token = exec[e].token /\ state.since = clock
  BY DEF ExecTypes, ExecStates
<1> HIDE DEF state
<1>3. QED BY <1>1, <1>2, MoveGoesOn

\* The evidence a working executor brings: the Result of the workflow, or none.
LEMMA WorkFields ==
  ASSUME ExecTypes, NEW e \in Executors, Work(e)
  PROVE  \E r \in Results :
           /\ r.run = Job(e) /\ r.from = Least(exec[e].since, clock) /\ r.to = Greatest(exec[e].since, clock)
           /\ GoesOn(e, IF Claimed(e) THEN "poll" ELSE "commit", r, r)
           /\ exec'[e].since = exec[e].since
<1> DEFINE pc == IF Claimed(e) THEN "poll" ELSE "commit"
<1>1. PICK r \in Results :
        /\ r.run = Job(e) /\ r.from = Least(exec[e].since, clock) /\ r.to = Greatest(exec[e].since, clock)
        /\ Move(e, [exec[e] EXCEPT !.pc = pc, !.result = r, !.proposal = r])
  BY DEF Work
<1> HIDE DEF pc
<1> DEFINE state == [exec[e] EXCEPT !.pc = pc, !.result = r, !.proposal = r]
<1>2. /\ state.pc = pc /\ state.result = r /\ state.proposal = r
      /\ state.job = exec[e].job /\ state.token = exec[e].token /\ state.since = exec[e].since
  BY DEF ExecTypes, ExecStates
<1>3. Move(e, state)
  BY <1>1
<1> HIDE DEF state
<1>4. GoesOn(e, pc, r, r) /\ exec'[e].since = exec[e].since
  BY <1>2, <1>3, MoveGoesOn
<1>5. QED BY <1>1, <1>4 DEF pc

LEMMA RaiseFields ==
  ASSUME ExecTypes, NEW e \in Executors, Raise(e)
  PROVE  /\ \/ GoesOn(e, "except", exec[e].result, exec[e].proposal)
            \/ \E r \in RunFailures(Job(e), clock) : GoesOn(e, "commit", exec[e].result, r)
         /\ exec'[e].since = exec[e].since
<1>0. exec[e] \in ExecStates
  BY DEF ExecTypes
<1>1. CASE Claimed(e)
  <2> DEFINE state == [exec[e] EXCEPT !.pc = "except", !.raised = TRUE]
  <2>1. Move(e, state)
    BY <1>1 DEF Raise
  <2>2. /\ state.pc = "except" /\ state.result = exec[e].result /\ state.proposal = exec[e].proposal
        /\ state.job = exec[e].job /\ state.token = exec[e].token /\ state.since = exec[e].since
    BY <1>0 DEF ExecStates
  <2> HIDE DEF state
  <2>3. QED BY <2>1, <2>2, MoveGoesOn
<1>2. CASE ~ Claimed(e)
  <2>0. PICK r \in RunFailures(Job(e), clock) :
          Move(e, [exec[e] EXCEPT !.pc = "commit", !.raised = TRUE, !.proposal = r])
    BY <1>2 DEF Raise
  <2> DEFINE state == [exec[e] EXCEPT !.pc = "commit", !.raised = TRUE, !.proposal = r]
  <2>1. Move(e, state)
    BY <2>0
  <2>2. /\ state.pc = "commit" /\ state.result = exec[e].result /\ state.proposal = r
        /\ state.job = exec[e].job /\ state.token = exec[e].token /\ state.since = exec[e].since
    BY <1>0 DEF ExecStates
  <2> HIDE DEF state
  <2>3. GoesOn(e, "commit", exec[e].result, r) /\ exec'[e].since = exec[e].since
    BY <2>1, <2>2, MoveGoesOn
  <2>4. QED BY <2>3
<1>3. QED BY <1>1, <1>2

LEMMA PollFields ==
  ASSUME ExecTypes, NEW e \in Executors, Poll(e)
  PROVE  /\ \/ GoesOn(e, "commit", exec[e].result, CancelledResult(exec[e].result, clock))
            \/ GoesOn(e, "commit", exec[e].result, exec[e].result)
         /\ exec'[e].since = exec[e].since
<1> DEFINE r == IF Row(e).cancelAt # None THEN CancelledResult(exec[e].result, clock)
                ELSE exec[e].result
<1> DEFINE state == [exec[e] EXCEPT !.pc = "commit", !.proposal = r]
<1>1. Move(e, state)
  BY DEF Poll
<1> HIDE DEF r
<1>2. /\ state.pc = "commit" /\ state.result = exec[e].result /\ state.proposal = r
      /\ state.job = exec[e].job /\ state.token = exec[e].token /\ state.since = exec[e].since
  BY DEF ExecTypes, ExecStates
<1> HIDE DEF state
<1>3. GoesOn(e, "commit", exec[e].result, r) /\ exec'[e].since = exec[e].since
  BY <1>1, <1>2, MoveGoesOn
<1>4. QED BY <1>1, <1>3 DEF r

LEMMA PollFailsFields ==
  ASSUME ExecTypes, NEW e \in Executors, PollFails(e)
  PROVE  GoesOn(e, "except", exec[e].result, exec[e].proposal) /\ exec'[e].since = exec[e].since
<1> DEFINE state == [exec[e] EXCEPT !.pc = "except", !.raised = TRUE]
<1>1. Move(e, state)
  BY DEF PollFails
<1>2. /\ state.pc = "except" /\ state.result = exec[e].result /\ state.proposal = exec[e].proposal
      /\ state.job = exec[e].job /\ state.token = exec[e].token /\ state.since = exec[e].since
  BY DEF ExecTypes, ExecStates
<1> HIDE DEF state
<1>3. QED BY <1>1, <1>2, MoveGoesOn

LEMMA TerminalizeFields ==
  ASSUME ExecTypes, NEW e \in Executors, Terminalize(e)
  PROVE  /\ \E c \in BOOLEAN :
              GoesOn(e, "commit", exec[e].result, ExceptionResult(Job(e), exec[e].result, c, clock))
         /\ exec'[e].since = exec[e].since
<1> DEFINE c == Row(e).cancelAt # None
           r == ExceptionResult(Job(e), exec[e].result, c, clock)
<1> DEFINE state == [exec[e] EXCEPT !.pc = "commit", !.proposal = r]
<1>1. Move(e, state) /\ c \in BOOLEAN
  BY DEF Terminalize
<1> HIDE DEF r
<1>2. /\ state.pc = "commit" /\ state.result = exec[e].result /\ state.proposal = r
      /\ state.job = exec[e].job /\ state.token = exec[e].token /\ state.since = exec[e].since
  BY DEF ExecTypes, ExecStates
<1> HIDE DEF state
<1>3. GoesOn(e, "commit", exec[e].result, r) /\ exec'[e].since = exec[e].since
  BY <1>1, <1>2, MoveGoesOn
<1>4. QED BY <1>1, <1>3 DEF r

LEMMA ConvertFields ==
  ASSUME ExecTypes, NEW e \in Executors, Convert(e)
  PROVE  /\ \/ GoesOn(e, "recommit", exec[e].result, ExceptionResult(Job(e), exec[e].result, TRUE, clock))
            \/ GoesOn(e, "recommit", exec[e].result, CancelledResult(exec[e].proposal, clock))
         /\ exec'[e].since = exec[e].since
<1> DEFINE r == IF exec[e].raised THEN ExceptionResult(Job(e), exec[e].result, TRUE, clock)
                ELSE CancelledResult(exec[e].proposal, clock)
<1> DEFINE state == [exec[e] EXCEPT !.pc = "recommit", !.proposal = r]
<1>1. Move(e, state)
  BY DEF Convert
<1> HIDE DEF r
<1>2. /\ state.pc = "recommit" /\ state.result = exec[e].result /\ state.proposal = r
      /\ state.job = exec[e].job /\ state.token = exec[e].token /\ state.since = exec[e].since
  BY DEF ExecTypes, ExecStates
<1> HIDE DEF state
<1>3. GoesOn(e, "recommit", exec[e].result, r) /\ exec'[e].since = exec[e].since
  BY <1>1, <1>2, MoveGoesOn
<1>4. QED BY <1>1, <1>3 DEF r

LEMMA BeginFields ==
  ASSUME ExecTypes, NEW e \in Executors, NEW pc, NEW j, NEW t, Begin(e, pc, j, t)
  PROVE  /\ exec'[e].pc = pc /\ exec'[e].job = j /\ exec'[e].token = t /\ exec'[e].since = clock
         /\ exec'[e].result = None
         /\ \A f \in Executors : f # e => exec'[f] = exec[f]
<1> DEFINE state == [Idle EXCEPT !.pc = pc, !.job = j, !.token = t, !.since = clock]
<1>1. Move(e, state)
  BY DEF Begin
<1>2. state.pc = pc /\ state.job = j /\ state.token = t /\ state.since = clock /\ state.result = None
  BY DEF Idle
<1> HIDE DEF state
<1>3. QED BY <1>1, <1>2, MoveAlone

LEMMA StopFields ==
  ASSUME ExecTypes, NEW e \in Executors, Stop(e)
  PROVE  exec'[e] = Idle /\ \A f \in Executors : f # e => exec'[f] = exec[f]
  BY MoveAlone DEF Stop

\* A step that is another executor's, or nobody's, moves one executor at most.
LEMMA OthersStay ==
  ASSUME ExecTypes, NEW e \in Executors, Changing(e) \/ Private(e)
  PROVE  \A f \in Executors : f # e => exec'[f] = exec[f]
<1>1. \E state : Move(e, state)
  BY DEF Changing, Private, Fault, Claim, Abandon, Retrieve, Run, RunStart, Commit, Begin, Stop,
         Look, ClaimNothing, ClaimRaises, Register, RunRaises, NotClaimed, Work, Raise, Poll,
         PollFails, Terminalize, Convert, GiveUp, StorageFails, Die
<1>2. QED BY <1>1, MoveAlone

\* The rest of the world leaves the executors alone, or kills the workers.
LEMMA SurroundingsStep ==
  ASSUME Surroundings
  PROVE  \A e \in Executors : exec'[e] \in {exec[e], Idle}
<1>1. CASE Crash
  BY <1>1 DEF Crash
<1>2. CASE exec' = exec
  BY <1>2
<1>3. QED
  BY <1>1, <1>2 DEF Surroundings, ServerStep, Ask, AskCancel, execVars, Tick, Open, Start,
     Reconcile, StartFails, Serve, CancelActive, Exit, Close

-----------------------------------------------------------------------------
(* Who holds a Job *)

\* The strengthening both exclusion properties need: an executor with a Job knows
\* the token in its row, and only a Job without a Request waits unclaimed for the
\* process that submitted it.
Busy(e) == exec[e].pc \notin {"idle", "open"}
Driven(row, pc) ==
  IF pc = "queued" THEN row.status = "submitted" /\ row.request = None
  ELSE \/ row.status = "running"
       \/ row.status = "failed" /\ row.result = None /\ row.failure = Interrupted

Holds(e) ==
  /\ ~ Busy(e) => exec[e].job = None
  /\ Busy(e) => Row(e).token = exec[e].token /\ Driven(Row(e), exec[e].pc)

OneHolder == \A e, f \in Executors : Busy(e) /\ Busy(f) /\ Job(e) = Job(f) => e = f

Holdings == (\A e \in Executors : Holds(e)) /\ OneHolder

\* A row nobody can be holding, and a step that does not disturb a holder.
Free(row) == row.status = "absent" \/ (row.status = "submitted" /\ row.request # None)
Kept(old, new) ==
  /\ new.token = old.token /\ new.request = old.request
  /\ \/ new.status = old.status /\ new.result = old.result /\ new.failure = old.failure
     \/ old.status = "running" /\ new.status = "failed" /\ new.result = None /\ new.failure = Interrupted

Quiet(j) == Free(jobs[j]) \/ Kept(jobs[j], jobs'[j])

\* An executor stays as it is, lets go, or goes on with its Job.
Steady(f) ==
  \/ exec'[f] = exec[f]
  \/ exec'[f].pc \in {"idle", "open"} /\ exec'[f].job = None
  \/ /\ exec'[f].job = exec[f].job /\ exec'[f].token = exec[f].token
     /\ {exec[f].pc, exec'[f].pc} \cap {"idle", "open", "queued"} = {}

LEMMA FreeIsUnheld ==
  ASSUME NEW row, Free(row), NEW pc
  PROVE  ~ Driven(row, pc)
  BY DEF Free, Driven

LEMMA KeptIsDriven ==
  ASSUME NEW old, NEW new, NEW pc, Kept(old, new), Driven(old, pc)
  PROVE  Driven(new, pc)
  BY DEF Kept, Driven

LEMMA SteadyKeepsHoldings ==
  ASSUME ExecTypes, Holdings,
         \A f \in Executors : Steady(f) /\ (Busy(f)' => Quiet(Job(f)))
  PROVE  Holdings'
<1>1. ASSUME NEW f \in Executors, Busy(f)' PROVE Busy(f) /\ Job(f)' = Job(f) /\ exec'[f].token = exec[f].token
                                                 /\ (exec'[f].pc = "queued" <=> exec[f].pc = "queued")
  BY <1>1 DEF Steady, Busy, Job
<1>2. ASSUME NEW f \in Executors PROVE Holds(f)'
  <2>1. CASE Busy(f)'
    <3>1. Busy(f) /\ Driven(Row(f), exec[f].pc) /\ Row(f).token = exec[f].token
      BY <1>1, <2>1 DEF Holdings, Holds
    <3>2. Kept(jobs[Job(f)], jobs'[Job(f)])
      BY <2>1, <3>1, FreeIsUnheld DEF Quiet, Row, Job
    <3>3. Driven(jobs'[Job(f)], exec[f].pc) /\ jobs'[Job(f)].token = exec[f].token
      BY <3>1, <3>2, KeptIsDriven DEF Row, Job, Kept
    <3>4. Driven(jobs'[Job(f)], exec'[f].pc)
      BY <1>1, <2>1, <3>3 DEF Driven
    <3>5. QED BY <1>1, <2>1, <3>3, <3>4 DEF Holds, Row, Job
  <2>2. CASE ~ Busy(f)'
    BY <2>2 DEF Holds, Busy, Steady, Holdings
  <2>3. QED BY <2>1, <2>2
<1>3. OneHolder'
  BY <1>1 DEF OneHolder, Holdings
<1>4. QED BY <1>2, <1>3 DEF Holdings

\* An executor takes a Job that nobody, or only itself, was holding.
LEMMA TakingKeepsHoldings ==
  ASSUME ExecTypes, Holdings, jobs \in [JobIds -> Rows],
         NEW e \in Executors, NEW j \in JobIds, NEW row, NEW state,
         jobs' = [jobs EXCEPT ![j] = row], Move(e, state),
         state.pc \in {"queued", "claimed", "work"}, state.job = j, state.token = row.token,
         Driven(row, state.pc),
         Free(jobs[j]) \/ (Busy(e) /\ Job(e) = j)
  PROVE  Holdings'
<1>1. /\ \A f \in Executors : exec'[f] = IF f = e THEN state ELSE exec[f]
      /\ \A i \in JobIds : jobs'[i] = IF i = j THEN row ELSE jobs[i]
  BY DEF ExecTypes, Move
<1>2. ASSUME NEW f \in Executors, f # e, Busy(f) PROVE Job(f) # j /\ Job(f) \in JobIds
  <2>1. Job(f) \in JobIds
    BY <1>2 DEF ExecTypes, ExecShape, Busy, Job
  <2>2. Driven(jobs[Job(f)], exec[f].pc)
    BY <1>2 DEF Holdings, Holds, Row, Job
  <2>3. QED BY <1>2, <2>1, <2>2, FreeIsUnheld DEF Holdings, OneHolder
<1>3. ASSUME NEW f \in Executors PROVE Holds(f)'
  <2>1. CASE f = e
    BY <1>1, <2>1 DEF Holds, Busy, Row
  <2>2. CASE f # e
    <3>1. exec'[f] = exec[f]
      BY <1>1, <2>2
    <3>2. Busy(f) => jobs'[Job(f)] = jobs[Job(f)]
      BY <1>1, <1>2, <2>2
    <3>3. Holds(f)
      BY DEF Holdings
    <3>4. QED BY <3>1, <3>2, <3>3 DEF Holds, Busy, Row, Job
  <2>3. QED BY <2>1, <2>2
<1>4. ASSUME NEW f \in Executors, f # e, Busy(f)' PROVE Busy(f) /\ Job(f)' = Job(f) /\ Job(f)' # j
  BY <1>1, <1>2, <1>4 DEF Busy, Job
<1>5. Job(e)' = j
  BY <1>1 DEF Job
<1>6. OneHolder'
  BY <1>4, <1>5 DEF OneHolder, Holdings
<1>7. QED BY <1>3, <1>6 DEF Holdings

\* A cancellation, an interruption and no call at all disturb no holder.
LEMMA CancelIsQuiet ==
  ASSUME jobs \in [JobIds -> Rows], NEW j \in JobIds, NEW at, Cancel(j, at)
  PROVE  \A i \in JobIds : Quiet(i)
<1> DEFINE row == [jobs[j] EXCEPT !.cancelAt = at]
<1>1. \A i \in JobIds : jobs'[i] = IF i = j THEN row ELSE jobs[i]
  BY DEF Cancel, Write
<1>2. /\ row.token = jobs[j].token /\ row.request = jobs[j].request /\ row.status = jobs[j].status
      /\ row.result = jobs[j].result /\ row.failure = jobs[j].failure
  BY DEF Rows
<1> HIDE DEF row
<1>3. QED BY <1>1, <1>2 DEF Quiet, Kept

LEMMA InterruptIsQuiet ==
  ASSUME jobs \in [JobIds -> Rows], NEW j \in JobIds, NEW at, Interrupt(j, at)
  PROVE  \A i \in JobIds : Quiet(i)
<1> DEFINE row == Snapshot(jobs[j], "failed", at, None, Interrupted)
<1>1. \A i \in JobIds : jobs'[i] = IF i = j THEN row ELSE jobs[i]
  BY DEF Interrupt, Transition, Write
<1>2. /\ row.token = jobs[j].token /\ row.request = jobs[j].request /\ row.status = "failed"
      /\ row.result = None /\ row.failure = Interrupted
  BY SnapshotFields
<1>3. jobs[j].status = "running"
  BY DEF Interrupt, Transition, Accepts, SnapshotLegal
<1> HIDE DEF row
<1>4. QED BY <1>1, <1>2, <1>3 DEF Quiet, Kept

LEMMA SilenceIsQuiet ==
  ASSUME UNCHANGED vars
  PROVE  \A i \in JobIds : Quiet(i)
  BY DEF vars, Quiet, Kept

LEMMA BusyHasJob ==
  ASSUME ExecTypes, NEW f \in Executors, Steady(f), Busy(f)'
  PROVE  Busy(f) /\ Job(f) \in JobIds
  BY DEF ExecTypes, ExecShape, Busy, Steady, Job

LEMMA QuietStepKeepsHoldings ==
  ASSUME ExecTypes, Holdings, \A i \in JobIds : Quiet(i), \A f \in Executors : Steady(f)
  PROVE  Holdings'
  BY BusyHasJob, SteadyKeepsHoldings

\* Any step of an executor on its own state leaves all executors steady.
LEMMA MoveIsSteady ==
  ASSUME ExecTypes, NEW e \in Executors, NEW state, Move(e, state),
         \/ state.pc \in {"idle", "open"} /\ state.job = None
         \/ /\ state.job = exec[e].job /\ state.token = exec[e].token
            /\ {exec[e].pc, state.pc} \cap {"idle", "open", "queued"} = {}
  PROVE  \A f \in Executors : Steady(f)
  BY DEF ExecTypes, Move, Steady

LEMMA StopIsSteady ==
  ASSUME ExecTypes, NEW e \in Executors, Stop(e)
  PROVE  \A f \in Executors : Steady(f)
  BY MoveIsSteady DEF Stop, Idle

LEMMA PrivateIsSteady ==
  ASSUME ExecTypes, NEW e \in Executors, Private(e)
  PROVE  \A f \in Executors : Steady(f)
<1>1. CASE Look(e)
  <2> DEFINE state == [Idle EXCEPT !.pc = "open", !.since = clock]
  <2>1. Move(e, state) /\ state.pc = "open" /\ state.job = None
    BY <1>1 DEF Look, Idle
  <2> HIDE DEF state
  <2>2. QED BY <2>1, MoveIsSteady
<1>2. CASE ClaimNothing(e) \/ ClaimRaises(e) \/ RunRaises(e) \/ NotClaimed(e) \/ GiveUp(e)
        \/ StorageFails(e) \/ Die(e)
  <2>1. Stop(e)
    BY <1>2 DEF ClaimNothing, ClaimRaises, RunRaises, NotClaimed, GiveUp, StorageFails, Die
  <2>2. QED BY <2>1, StopIsSteady
<1>3. ASSUME Register(e) \/ Work(e) \/ Raise(e) \/ Poll(e) \/ PollFails(e) \/ Terminalize(e) \/ Convert(e)
      PROVE  Steady(e)
  <2>1. exec[e].pc \notin {"idle", "open", "queued"}
    BY <1>3 DEF Register, Work, Raise, Poll, PollFails, Terminalize, Convert, Outrun
  <2>2. \E pc \in {"work", "poll", "except", "commit", "recommit"} : \E r, p : GoesOn(e, pc, r, p)
    BY <1>3, RegisterFields, WorkFields, RaiseFields, PollFields, PollFailsFields, TerminalizeFields,
       ConvertFields
  <2>3. QED BY <2>1, <2>2 DEF GoesOn, Steady
<1>4. QED
  BY <1>1, <1>2, <1>3, OthersStay DEF Private, Fault, Steady

LEMMA PrivateKeepsHoldings ==
  ASSUME ExecTypes, Holdings, NEW e \in Executors, Private(e)
  PROVE  Holdings'
<1>1. \A i \in JobIds : Quiet(i)
  BY PrivateKeepsTypes, SilenceIsQuiet
<1>2. QED BY <1>1, PrivateIsSteady, QuietStepKeepsHoldings

\* The row a fresh claim writes.
LEMMA ClaimedRow ==
  ASSUME NEW old \in Rows, NEW at, NEW t
  PROVE  LET row == [Snapshot(old, "running", at, None, None) EXCEPT !.token = t] IN
         row.token = t /\ row.status = "running"
<1> DEFINE started == at
           finished == IF "running" \in Terminal THEN at ELSE None
           new == [old EXCEPT !.status = "running", !.startedAt = started, !.finishedAt = finished,
                              !.result = None, !.failure = None]
<1>1. new = Snapshot(old, "running", at, None, None)
  BY DEF Snapshot
<1> HIDE DEF started, finished
<1>2. [new EXCEPT !.token = t].token = t /\ [new EXCEPT !.token = t].status = "running"
  BY DEF Rows
<1>3. QED BY <1>1, <1>2

LEMMA BeginState ==
  ASSUME NEW e \in Executors, NEW pc, NEW j, NEW t, Begin(e, pc, j, t)
  PROVE  \E state : Move(e, state) /\ state.pc = pc /\ state.job = j /\ state.token = t
<1> DEFINE state == [Idle EXCEPT !.pc = pc, !.job = j, !.token = t, !.since = clock]
<1>1. Move(e, state)
  BY DEF Begin
<1>2. state.pc = pc /\ state.job = j /\ state.token = t
  BY DEF Idle
<1> HIDE DEF state
<1>3. QED BY <1>1, <1>2

LEMMA ChangingKeepsHoldings ==
  ASSUME IInv, ExecTypes, Holdings, NEW e \in Executors, Changing(e)
  PROVE  Holdings'
<1>0. jobs \in [JobIds -> Rows] /\ exec[e] \in ExecStates /\ ExecShape(e)
  BY DEF IInv, ExecTypes
<1>1. CASE Claim(e)
  <2>1. PICK j \in JobIds, t \in Tokens :
          ClaimNext(j, exec[e].since, t) /\ Begin(e, "claimed", j, t)
    BY <1>1 DEF Claim
  <2>2. PICK state : Move(e, state) /\ state.pc = "claimed" /\ state.job = j /\ state.token = t
    BY <2>1, BeginState
  <2> DEFINE row == [Snapshot(jobs[j], "running", exec[e].since, None, None) EXCEPT !.token = t]
  <2>3. jobs' = [jobs EXCEPT ![j] = row] /\ Free(jobs[j])
    BY <2>1 DEF ClaimNext, Write, Claimable, Free
  <2>4. row.token = t /\ row.status = "running"
    BY <1>0, ClaimedRow
  <2> HIDE DEF row
  <2>5. Driven(row, state.pc)
    BY <2>2, <2>4 DEF Driven
  <2>6. QED BY <1>0, <2>2, <2>3, <2>4, <2>5, TakingKeepsHoldings
<1>2. CASE Abandon(e)
  <2>1. exec[e].pc = "claimed" /\ Stop(e)
    BY <1>2 DEF Abandon
  <2>2. Job(e) \in JobIds
    BY <1>0, <2>1 DEF ExecShape, Job
  <2>3. \A i \in JobIds : Quiet(i)
    BY <1>0, <1>2, <2>2, CancelIsQuiet, SilenceIsQuiet DEF Abandon
  <2>4. QED BY <2>1, <2>3, StopIsSteady, QuietStepKeepsHoldings
<1>3. CASE Retrieve(e)
  <2>1. PICK j \in JobIds, c \in Callers, k \in Keys, q \in Requests, t \in Tokens :
          SubmitAndClaim(j, c, k, q, clock, t) /\ Begin(e, "work", j, t)
    BY <1>3 DEF Retrieve
  <2>2. PICK state : Move(e, state) /\ state.pc = "work" /\ state.job = j /\ state.token = t
    BY <2>1, BeginState
  <2> DEFINE row == [Submitted(c, k, q, clock) EXCEPT !.status = "running", !.startedAt = clock, !.token = t]
  <2>3. jobs' = [jobs EXCEPT ![j] = row] /\ Free(jobs[j])
    <3>1. jobs' = [jobs EXCEPT ![j] = row]
      BY <2>1 DEF SubmitAndClaim, Write
    <3>2. jobs[j].status = "absent"
      BY <2>1 DEF SubmitAndClaim, Exists
    <3>3. QED BY <3>1, <3>2 DEF Free
  <2>4. row.token = t /\ row.status = "running"
    BY DEF Submitted, NoRow
  <2> HIDE DEF row
  <2>5. Driven(row, state.pc)
    BY <2>2, <2>4 DEF Driven
  <2>6. QED BY <1>0, <2>2, <2>3, <2>4, <2>5, TakingKeepsHoldings
<1>4. CASE Run(e)
  <2>1. PICK j \in JobIds : Submit(j, clock) /\ Begin(e, "queued", j, None)
    BY <1>4 DEF Run
  <2>2. PICK state : Move(e, state) /\ state.pc = "queued" /\ state.job = j /\ state.token = None
    BY <2>1, BeginState
  <2> DEFINE row == [NoRow EXCEPT !.status = "submitted", !.submittedAt = clock]
  <2>3. jobs' = [jobs EXCEPT ![j] = row] /\ Free(jobs[j])
    <3>1. jobs' = [jobs EXCEPT ![j] = row]
      BY <2>1 DEF Submit, Write
    <3>2. jobs[j].status = "absent"
      BY <2>1 DEF Submit, Exists
    <3>3. QED BY <3>1, <3>2 DEF Free
  <2>4. row.token = None /\ row.status = "submitted" /\ row.request = None
    BY DEF NoRow
  <2> HIDE DEF row
  <2>5. Driven(row, state.pc)
    BY <2>2, <2>4 DEF Driven
  <2>6. QED BY <1>0, <2>2, <2>3, <2>4, <2>5, TakingKeepsHoldings
<1>5. CASE RunStart(e)
  <2> DEFINE j == Job(e)
             row == Snapshot(jobs[j], "running", clock, None, None)
  <2>1. /\ exec[e].pc = "queued" /\ Transition(j, "running", clock, None, None, None)
        /\ Begin(e, "work", j, None)
    BY <1>5 DEF RunStart
  <2>2. j \in JobIds /\ Busy(e)
    BY <1>0, <2>1 DEF ExecShape, Job, Busy
  <2>3. PICK state : Move(e, state) /\ state.pc = "work" /\ state.job = j /\ state.token = None
    BY <2>1, BeginState
  <2>4. jobs' = [jobs EXCEPT ![j] = row] /\ jobs[j].token = None
    BY <2>1 DEF Transition, Write, Accepts, ClaimHeld
  <2>5. row.token = None /\ row.status = "running"
    BY <1>0, <2>2, <2>4, SnapshotFields
  <2> HIDE DEF row
  <2>6. Driven(row, state.pc)
    BY <2>3, <2>5 DEF Driven
  <2>7. QED BY <1>0, <2>2, <2>3, <2>4, <2>5, <2>6, TakingKeepsHoldings
<1>6. CASE Commit(e)
  <2> DEFINE p == exec[e].proposal
  <2>1. /\ exec[e].pc \in {"commit", "recommit"} /\ Stop(e)
        /\ Transition(Job(e), p.status, clock, p, FailureCode(p), exec[e].token)
    BY <1>6 DEF Commit
  <2>2. Job(e) \in JobIds /\ Busy(e)
    BY <1>0, <2>1 DEF ExecShape, Job, Busy
  <2>3. \A i \in JobIds : i # Job(e) => jobs'[i] = jobs[i]
    BY <1>0, <2>1 DEF Transition, Write
  <2>4. \A f \in Executors : Steady(f)
    BY <2>1, StopIsSteady
  <2>5. exec'[e] = Idle
    BY <2>1 DEF Stop, Move, ExecTypes
  <2>6. ASSUME NEW f \in Executors, Busy(f)' PROVE Quiet(Job(f))
    <3>1. f # e /\ Busy(f) /\ Job(f) \in JobIds
      BY <2>4, <2>5, <2>6, BusyHasJob DEF Busy, Idle
    <3>2. Job(f) # Job(e)
      BY <2>2, <3>1 DEF Holdings, OneHolder
    <3>3. QED BY <2>3, <3>1, <3>2 DEF Quiet, Kept
  <2>7. QED BY <2>4, <2>6, SteadyKeepsHoldings
<1>7. QED
  BY <1>1, <1>2, <1>3, <1>4, <1>5, <1>6 DEF Changing

LEMMA SurroundingsKeepHoldings ==
  ASSUME IInv, ExecTypes, Holdings, Surroundings
  PROVE  Holdings'
<1>0. jobs \in [JobIds -> Rows] /\ todo \subseteq JobIds
  BY DEF IInv, ExecTypes
<1>1. ASSUME NEW j \in JobIds, Ask(j) PROVE exec' = exec /\ \A i \in JobIds : Quiet(i)
  <2>1. PICK c \in Callers, k \in Keys, q \in Requests : SubmitRequest(j, c, k, q, clock)
    BY <1>1 DEF Ask
  <2>2. Free(jobs[j]) /\ \A i \in JobIds : i # j => jobs'[i] = jobs[i]
    <3>1. \A i \in JobIds : i # j => jobs'[i] = jobs[i]
      BY <1>0, <2>1 DEF SubmitRequest, Write
    <3>2. jobs[j].status = "absent"
      BY <2>1 DEF SubmitRequest, Exists
    <3>3. QED BY <3>1, <3>2 DEF Free
  <2>3. QED BY <1>1, <2>2 DEF Ask, execVars, Quiet, Kept
<1>2. ASSUME NEW j \in JobIds, AskCancel(j) PROVE exec' = exec /\ \A i \in JobIds : Quiet(i)
  BY <1>0, <1>2, CancelIsQuiet DEF AskCancel, execVars
<1>3. ASSUME Tick \/ Open \/ Start \/ StartFails \/ Serve \/ Exit \/ Close
      PROVE  exec' = exec /\ \A i \in JobIds : Quiet(i)
  <2>1. exec' = exec /\ UNCHANGED vars
    BY <1>3 DEF Tick, Open, Start, StartFails, Serve, Exit, Close
  <2>2. QED BY <2>1, SilenceIsQuiet
<1>4. ASSUME Reconcile PROVE exec' = exec /\ \A i \in JobIds : Quiet(i)
  BY <1>0, <1>4, InterruptIsQuiet DEF Reconcile
<1>5. ASSUME CancelActive PROVE exec' = exec /\ \A i \in JobIds : Quiet(i)
  BY <1>0, <1>5, CancelIsQuiet, SilenceIsQuiet DEF CancelActive
<1>6. CASE exec' = exec /\ \A i \in JobIds : Quiet(i)
  BY <1>6, QuietStepKeepsHoldings DEF Steady
<1>7. CASE Crash
  <2>1. \A f \in Executors : Steady(f)
    BY <1>7 DEF Crash, Steady, Idle
  <2>2. UNCHANGED vars
    BY <1>7 DEF Crash
  <2>3. QED BY <2>1, <2>2, SilenceIsQuiet, QuietStepKeepsHoldings
<1>8. QED
  BY <1>1, <1>2, <1>3, <1>4, <1>5, <1>6, <1>7 DEF Surroundings, ServerStep

\* An executor with a Job knows the token in its row, and no other executor has that Job.
THEOREM HoldingsHold == ExecSpec => []Holdings
<1>1. ExecInit => Holdings
  BY DEF ExecInit, Holdings, Holds, OneHolder, Busy, Idle
<1>2. ASSUME IInv, ExecTypes, Holdings, [ExecNext]_allVars PROVE Holdings'
  <2>1. CASE UNCHANGED allVars
    BY <1>2, <2>1 DEF allVars, Holdings, Holds, OneHolder, Busy, Row, Job
  <2>2. CASE ExecNext
    BY <1>2, <2>2, StepKinds, PrivateKeepsHoldings, ChangingKeepsHoldings, SurroundingsKeepHoldings
  <2>3. QED BY <1>2, <2>1, <2>2
<1>3. QED BY <1>1, <1>2, ExecTypesHold, PTL DEF ExecSpec

\* No Job is ever executed twice at once, however many processes share the data
\* directory: the transactions of the claim close every window.
THEOREM ExclusionHolds == ExecSpec => []OneExecutorPerJob
<1>1. Holdings => OneExecutorPerJob
  BY DEF Holdings, Holds, OneHolder, OneExecutorPerJob, Active, Busy, Job
<1>2. QED BY <1>1, HoldingsHold, PTL

\* While a Job is being executed, only restart reconciliation can end it under
\* its executor's hands.
THEOREM EndingHolds == ExecSpec => []EndedByItsExecutor
<1>1. Holdings => EndedByItsExecutor
  BY DEF Holdings, Holds, Driven, EndedByItsExecutor, Busy
<1>2. QED BY <1>1, HoldingsHold, PTL

-----------------------------------------------------------------------------
(* Conversions keep the evidence *)

\* A Result that is regenerated keeps its run, its artifacts and its window, which
\* only grows to the present.
LEMMA RegeneratedFields ==
  ASSUME NEW r \in ResultRecords, NEW s, NEW code, NEW at \in Times
  PROVE  LET new == Regenerated(r, s, code, at) IN
         /\ new.run = r.run /\ new.artifacts = r.artifacts /\ new.error = code
         /\ new.from = Least(r.from, at) /\ new.to = Greatest(r.to, at)
         /\ \A a : [new EXCEPT !.attempt = a].run = r.run
         /\ \A a : [new EXCEPT !.attempt = a].artifacts = r.artifacts
         /\ \A a : [new EXCEPT !.attempt = a].from = Least(r.from, at)
         /\ \A a : [new EXCEPT !.attempt = a].to = Greatest(r.to, at)
<1> DEFINE from == Least(r.from, at)
           to == Greatest(r.to, at)
           new == [r EXCEPT !.status = s, !.error = code, !.from = from, !.to = to]
<1>1. Regenerated(r, s, code, at) = new
  BY DEF Regenerated
<1> HIDE DEF from, to
<1>2. /\ new.run = r.run /\ new.artifacts = r.artifacts /\ new.error = code
      /\ new.from = from /\ new.to = to
      /\ \A a : [new EXCEPT !.attempt = a].run = r.run
      /\ \A a : [new EXCEPT !.attempt = a].artifacts = r.artifacts
      /\ \A a : [new EXCEPT !.attempt = a].from = from
      /\ \A a : [new EXCEPT !.attempt = a].to = to
  BY DEF ResultRecords
<1>3. QED BY <1>1, <1>2 DEF from, to

\* What both conversions leave of a Result.
LEMMA ConvertedFields ==
  ASSUME NEW r \in Results, r # None, NEW at \in Times, NEW j, NEW c \in BOOLEAN,
         NEW new \in {r, CancelledResult(r, at), ExceptionResult(j, r, c, at)}
  PROVE  /\ new.run = r.run /\ new.artifacts = r.artifacts
         /\ new.from \in {r.from, Least(r.from, at)} /\ new.to \in {r.to, Greatest(r.to, at)}
<1>0. r \in ResultRecords
  BY ResultTypes
<1>1. CASE new = r
  BY <1>1
<1>2. CASE new = CancelledResult(r, at)
  BY <1>0, <1>2, RegeneratedFields DEF CancelledResult
<1>3. CASE new = ExceptionResult(j, r, c, at)
  <2>1. CASE c
    BY <1>2, <1>3, <2>1, <1>0, RegeneratedFields DEF CancelledResult, ExceptionResult
  <2>2. CASE ~ c
    <3> DEFINE a == IF r.attempt = Cancelled THEN WorkflowFailed ELSE r.attempt
    <3>1. new = [Regenerated(r, PartialOrFailed(r), WorkflowFailed, at) EXCEPT !.attempt = a]
      BY <1>3, <2>2 DEF ExceptionResult
    <3> HIDE DEF a
    <3>2. QED BY <1>0, <3>1, RegeneratedFields
  <2>3. QED BY <2>1, <2>2
<1>4. QED BY <1>1, <1>2, <1>3

\* Nothing is discarded: there is no Result before the workflow returned one, and
\* what is proposed afterwards carries its artifacts.
Carries(e) ==
  /\ exec[e].pc \in {"claimed", "work"} => exec[e].result = None
  /\ exec[e].pc \in {"commit", "recommit"} /\ exec[e].result # None =>
       exec[e].proposal.artifacts = exec[e].result.artifacts

LEMMA PrivateKeepsCarrying ==
  ASSUME ExecTypes, NEW e \in Executors, Carries(e), Private(e)
  PROVE  Carries(e)'
<1>0. exec[e] \in ExecStates /\ ExecShape(e) /\ clock \in Times
  BY DEF ExecTypes
<1>1. CASE Look(e)
  <2> DEFINE state == [Idle EXCEPT !.pc = "open", !.since = clock]
  <2>1. Move(e, state) /\ state.pc = "open"
    BY <1>1 DEF Look, Idle
  <2> HIDE DEF state
  <2>2. QED BY <2>1, MoveAlone DEF Carries
<1>2. CASE ClaimNothing(e) \/ ClaimRaises(e) \/ RunRaises(e) \/ NotClaimed(e) \/ GiveUp(e)
        \/ StorageFails(e) \/ Die(e)
  <2>1. Stop(e)
    BY <1>2 DEF ClaimNothing, ClaimRaises, RunRaises, NotClaimed, GiveUp, StorageFails, Die
  <2>2. QED BY <2>1, StopFields DEF Idle, Carries
<1>3. CASE Register(e)
  BY <1>3, RegisterFields DEF Register, GoesOn, Carries
<1>4. CASE Work(e)
  BY <1>4, WorkFields DEF GoesOn, Carries
<1>5. CASE Raise(e)
  BY <1>5, RaiseFields DEF Raise, GoesOn, Carries
<1>6. CASE Poll(e)
  <2>1. exec[e].pc = "poll" /\ exec[e].result \in Results
    BY <1>0, <1>6 DEF Poll, ExecShape
  <2>2. QED BY <1>0, <1>6, <2>1, PollFields, ConvertedFields DEF GoesOn, Carries
<1>7. CASE PollFails(e)
  BY <1>7, PollFailsFields DEF GoesOn, Carries
<1>8. CASE Terminalize(e)
  <2>1. exec[e].result \in Opt(Results)
    BY <1>0 DEF ExecStates
  <2>2. PICK c \in BOOLEAN :
          GoesOn(e, "commit", exec[e].result, ExceptionResult(Job(e), exec[e].result, c, clock))
    BY <1>8, TerminalizeFields
  <2>3. QED BY <1>0, <2>1, <2>2, ConvertedFields DEF GoesOn, Carries
<1>9. CASE Convert(e)
  <2>1. exec[e].result \in Opt(Results) /\ exec[e].pc = "commit" /\ exec[e].proposal \in Results
    BY <1>0, <1>9 DEF ExecStates, ExecShape, Convert, Outrun
  <2>2. /\ CancelledResult(exec[e].proposal, clock).artifacts = exec[e].proposal.artifacts
        /\ exec[e].result # None =>
             ExceptionResult(Job(e), exec[e].result, TRUE, clock).artifacts = exec[e].result.artifacts
    <3>1. exec[e].proposal # None /\ TRUE \in BOOLEAN
      BY <2>1, NoneIsNothing
    <3>2. ASSUME exec[e].result # None
          PROVE  ExceptionResult(Job(e), exec[e].result, TRUE, clock).artifacts = exec[e].result.artifacts
      BY <1>0, <2>1, <3>1, <3>2, ConvertedFields
    <3>3. QED BY <1>0, <2>1, <3>1, <3>2, ConvertedFields
  <2>3. QED BY <1>9, <2>1, <2>2, ConvertFields DEF GoesOn, Carries
<1>10. QED
  BY <1>1, <1>2, <1>3, <1>4, <1>5, <1>6, <1>7, <1>8, <1>9 DEF Private, Fault

LEMMA ChangingKeepsCarrying ==
  ASSUME ExecTypes, NEW e \in Executors, Changing(e)
  PROVE  Carries(e)'
<1>1. CASE Abandon(e) \/ Commit(e)
  <2>1. Stop(e)
    BY <1>1 DEF Abandon, Commit
  <2>2. QED BY <2>1, StopFields DEF Idle, Carries
<1>2. CASE Claim(e) \/ Retrieve(e) \/ Run(e) \/ RunStart(e)
  <2>1. PICK j, t : \E pc \in {"claimed", "work", "queued"} : Begin(e, pc, j, t)
    BY <1>2 DEF Claim, Retrieve, Run, RunStart
  <2>2. QED BY <2>1, BeginFields DEF Carries
<1>3. QED BY <1>1, <1>2 DEF Changing

\* Converting a Result because of a cancellation or an exception never discards
\* artifacts that the execution has already committed.
THEOREM EvidenceHolds == ExecSpec => []EvidenceIsKept
<1> DEFINE Carrying == \A e \in Executors : Carries(e)
<1>1. ExecInit => Carrying
  BY DEF ExecInit, Idle, Carries
<1>2. ASSUME ExecTypes, Carrying, [ExecNext]_allVars PROVE Carrying'
  <2>1. CASE UNCHANGED allVars
    BY <1>2, <2>1 DEF allVars, Carries
  <2>2. ASSUME NEW e \in Executors, Changing(e) \/ Private(e) PROVE Carrying'
    <3>1. Carries(e)'
      BY <1>2, <2>2, PrivateKeepsCarrying, ChangingKeepsCarrying
    <3>2. QED BY <1>2, <2>2, <3>1, OthersStay DEF Carries
  <2>3. CASE Surroundings
    BY <1>2, <2>3, SurroundingsStep DEF Carries, Idle
  <2>4. QED BY <1>2, <2>1, <2>2, <2>3, StepKinds
<1>3. Carrying => EvidenceIsKept
  BY DEF Carries, EvidenceIsKept
<1>4. QED BY <1>1, <1>2, <1>3, ExecTypesHold, PTL DEF ExecSpec

-----------------------------------------------------------------------------
(* No Job is stranded *)

\* What a row keeps once it is there, whatever is called.
Lasting(old, new) ==
  /\ old.caller # None => new.caller = old.caller
  /\ old.status # "absent" => new.caller = old.caller
  /\ old.status \notin {"absent", "submitted"} => new.startedAt = old.startedAt

LEMMA RowsLast ==
  ASSUME IInv, [Next]_vars
  PROVE  \A i \in JobIds : Lasting(jobs[i], jobs'[i])
<1>0. jobs \in [JobIds -> Rows] /\ \A j \in JobIds : jobs[j].status = "absent" => jobs[j].caller = None
  <2>1. \A j \in JobIds : jobs[j].status = "absent" => jobs[j] = NoRow
    BY DEF IInv, RowInv, Shape, Terminal
  <2>2. QED BY <2>1 DEF IInv, NoRow
<1>1. ASSUME NEW j \in JobIds, NEW row, jobs' = [jobs EXCEPT ![j] = row], Lasting(jobs[j], row)
      PROVE  \A i \in JobIds : Lasting(jobs[i], jobs'[i])
  BY <1>0, <1>1 DEF Lasting
<1>2. ASSUME NEW j \in JobIds, NEW row, jobs' = [jobs EXCEPT ![j] = row], jobs[j].status = "absent"
      PROVE  \A i \in JobIds : Lasting(jobs[i], jobs'[i])
  BY <1>0, <1>1, <1>2 DEF Lasting
<1>3. ASSUME NEW j \in JobIds, NEW at \in Times, NEW t, ClaimNext(j, at, t)
      PROVE  \A i \in JobIds : Lasting(jobs[i], jobs'[i])
  <2> DEFINE mid == Snapshot(jobs[j], "running", at, None, None)
             row == [mid EXCEPT !.token = t]
  <2>1. mid \in Rows /\ mid.caller = jobs[j].caller
    BY <1>0, SnapshotFields DEF Statuses
  <2>2. jobs' = [jobs EXCEPT ![j] = row] /\ jobs[j].status = "submitted"
    BY <1>3 DEF ClaimNext, Write, Claimable
  <2> HIDE DEF mid
  <2>3. row.caller = mid.caller
    BY <2>1 DEF Rows
  <2> HIDE DEF row
  <2>4. QED BY <1>1, <2>1, <2>2, <2>3 DEF Lasting
<1>4. ASSUME NEW j \in JobIds, NEW at \in Times, Cancel(j, at)
      PROVE  \A i \in JobIds : Lasting(jobs[i], jobs'[i])
  <2> DEFINE row == [jobs[j] EXCEPT !.cancelAt = at]
  <2>1. jobs' = [jobs EXCEPT ![j] = row]
    BY <1>4 DEF Cancel, Write
  <2>2. row.caller = jobs[j].caller /\ row.startedAt = jobs[j].startedAt
    BY <1>0 DEF Rows
  <2> HIDE DEF row
  <2>3. QED BY <1>1, <2>1, <2>2 DEF Lasting
<1>5. ASSUME NEW j \in JobIds, NEW s \in Statuses, NEW at \in Times, NEW r \in Opt(Results),
             NEW code \in Opt(Codes), NEW t \in Opt(Tokens), Transition(j, s, at, r, code, t)
      PROVE  \A i \in JobIds : Lasting(jobs[i], jobs'[i])
  <2> DEFINE row == Snapshot(jobs[j], s, at, r, code)
  <2>1. jobs' = [jobs EXCEPT ![j] = row] /\ (jobs[j].status = "submitted" \/ s # "running")
    BY <1>5 DEF Transition, Write, Accepts, SnapshotLegal, Terminal
  <2>2. row.caller = jobs[j].caller /\ (s # "running" => row.startedAt = jobs[j].startedAt)
    BY <1>0, SnapshotFields
  <2> HIDE DEF row
  <2>3. QED BY <1>1, <2>1, <2>2 DEF Lasting
<1>6. CASE UNCHANGED vars
  BY <1>6 DEF vars, Lasting
<1>7. ASSUME NEW j \in JobIds, NEW at \in Times,
             \/ Submit(j, at)
             \/ \E c \in Callers, k \in Keys, q \in Requests :
                  SubmitRequest(j, c, k, q, at) \/ \E t \in Tokens : SubmitAndClaim(j, c, k, q, at, t)
      PROVE  \A i \in JobIds : Lasting(jobs[i], jobs'[i])
  <2>1. jobs[j].status = "absent" /\ \E row : jobs' = [jobs EXCEPT ![j] = row]
    BY <1>7 DEF Submit, SubmitRequest, SubmitAndClaim, Exists, Write
  <2>2. QED BY <1>2, <2>1
<1>8. QED
  BY <1>3, <1>4, <1>5, <1>6, <1>7 DEF Next

\* Only a Job with an owner is ever cancelled from outside, and only a worker's
\* own claim makes it one the close cancels: a Job of run has no cancellation.
OwnedRow(row) ==
  row.caller = None => row.token = None /\ row.cancelAt = None /\ row.request = None

Unowned(e) ==
  Busy(e) /\ exec[e].token = None => e \notin Workers /\ Row(e).caller = None

Ownership ==
  /\ \A j \in JobIds : OwnedRow(jobs[j])
  /\ server = "closing" => \A j \in todo : jobs[j].caller # None
  /\ \A e \in Executors : Unowned(e)

LEMMA UnownedStays ==
  ASSUME IInv, ExecTypes, Holdings, [Next]_vars, NEW f \in Executors, Unowned(f), Steady(f)
  PROVE  Unowned(f)'
<1> SUFFICES ASSUME Busy(f)', exec'[f].token = None
             PROVE  f \notin Workers /\ Row(f)'.caller = None
  BY DEF Unowned
<1>1. Busy(f) /\ Job(f) \in JobIds /\ exec'[f].job = exec[f].job /\ exec'[f].token = exec[f].token
  BY BusyHasJob DEF Steady, Busy
<1>2. Row(f).status # "absent"
  BY <1>1 DEF Holdings, Holds, Driven
<1>3. jobs'[Job(f)].caller = jobs[Job(f)].caller
  BY <1>1, <1>2, RowsLast DEF Lasting, Row, Job
<1>4. QED BY <1>1, <1>3 DEF Unowned, Row, Job

\* The calls the processes make: only a Job with an owner is cancelled.
OwnersCall ==
  \/ UNCHANGED vars
  \/ \E j \in JobIds, at \in Times :
       \/ Submit(j, at)
       \/ \E c \in Callers, k \in Keys, q \in Requests :
            SubmitRequest(j, c, k, q, at) \/ \E t \in Tokens : SubmitAndClaim(j, c, k, q, at, t)
       \/ \E t \in Tokens : ClaimNext(j, at, t)
       \/ Cancel(j, at) /\ jobs[j].caller # None
       \/ \E s, r, code, t : Transition(j, s, at, r, code, t)

LEMMA RowsStayOwned ==
  ASSUME IInv, \A j \in JobIds : OwnedRow(jobs[j]), OwnersCall
  PROVE  \A j \in JobIds : OwnedRow(jobs'[j])
<1>0. jobs \in [JobIds -> Rows]
  BY DEF IInv
<1>1. ASSUME NEW j \in JobIds, NEW row, jobs' = [jobs EXCEPT ![j] = row], OwnedRow(row)
      PROVE  \A i \in JobIds : OwnedRow(jobs'[i])
  BY <1>0, <1>1
<1>2. ASSUME NEW j \in JobIds, NEW at, Submit(j, at) PROVE \A i \in JobIds : OwnedRow(jobs'[i])
  <2> DEFINE row == [NoRow EXCEPT !.status = "submitted", !.submittedAt = at]
  <2>1. jobs' = [jobs EXCEPT ![j] = row]
    BY <1>2 DEF Submit, Write
  <2>2. OwnedRow(row)
    BY DEF NoRow, OwnedRow
  <2> HIDE DEF row
  <2>3. QED BY <1>1, <2>1, <2>2
<1>3. ASSUME NEW j \in JobIds, NEW c \in Callers, NEW k, NEW q, NEW at, SubmitRequest(j, c, k, q, at)
      PROVE  \A i \in JobIds : OwnedRow(jobs'[i])
  <2> DEFINE row == Submitted(c, k, q, at)
  <2>1. jobs' = [jobs EXCEPT ![j] = row]
    BY <1>3 DEF SubmitRequest, Write
  <2>2. row.caller = c
    BY DEF NoRow, Submitted
  <2> HIDE DEF row
  <2>3. QED BY <1>1, <2>1, <2>2, NoneIsNothing DEF OwnedRow
<1>4. ASSUME NEW j \in JobIds, NEW c \in Callers, NEW k, NEW q, NEW at, NEW t,
             SubmitAndClaim(j, c, k, q, at, t)
      PROVE  \A i \in JobIds : OwnedRow(jobs'[i])
  <2> DEFINE row == [Submitted(c, k, q, at) EXCEPT !.status = "running", !.startedAt = at, !.token = t]
  <2>1. jobs' = [jobs EXCEPT ![j] = row]
    BY <1>4 DEF SubmitAndClaim, Write
  <2>2. row.caller = c
    BY DEF NoRow, Submitted
  <2> HIDE DEF row
  <2>3. QED BY <1>1, <2>1, <2>2, NoneIsNothing DEF OwnedRow
<1>5. ASSUME NEW j \in JobIds, NEW at \in Times, NEW t, ClaimNext(j, at, t)
      PROVE  \A i \in JobIds : OwnedRow(jobs'[i])
  <2> DEFINE mid == Snapshot(jobs[j], "running", at, None, None)
             row == [mid EXCEPT !.token = t]
  <2>1. mid \in Rows /\ mid.caller = jobs[j].caller
    BY <1>0, SnapshotFields DEF Statuses
  <2>2. jobs' = [jobs EXCEPT ![j] = row] /\ jobs[j].request # None
    BY <1>5 DEF ClaimNext, Write, Claimable
  <2> HIDE DEF mid
  <2>3. row.caller = mid.caller
    BY <2>1 DEF Rows
  <2> HIDE DEF row
  <2>4. QED BY <1>1, <2>1, <2>2, <2>3 DEF OwnedRow
<1>6. ASSUME NEW j \in JobIds, NEW at \in Times, Cancel(j, at), jobs[j].caller # None
      PROVE  \A i \in JobIds : OwnedRow(jobs'[i])
  <2> DEFINE row == [jobs[j] EXCEPT !.cancelAt = at]
  <2>1. jobs' = [jobs EXCEPT ![j] = row]
    BY <1>6 DEF Cancel, Write
  <2>2. row.caller = jobs[j].caller
    BY <1>0 DEF Rows
  <2> HIDE DEF row
  <2>3. QED BY <1>1, <1>6, <2>1, <2>2 DEF OwnedRow
<1>7. ASSUME NEW j \in JobIds, NEW s, NEW at, NEW r, NEW code, NEW t, Transition(j, s, at, r, code, t)
      PROVE  \A i \in JobIds : OwnedRow(jobs'[i])
  <2> DEFINE row == Snapshot(jobs[j], s, at, r, code)
  <2>1. jobs' = [jobs EXCEPT ![j] = row]
    BY <1>7 DEF Transition, Write
  <2>2. /\ row.caller = jobs[j].caller /\ row.token = jobs[j].token
        /\ row.cancelAt = jobs[j].cancelAt /\ row.request = jobs[j].request
    BY <1>0, SnapshotFields
  <2> HIDE DEF row
  <2>3. QED BY <1>1, <2>1, <2>2 DEF OwnedRow
<1>8. CASE UNCHANGED vars
  BY <1>8 DEF vars
<1>9. QED
  BY <1>2, <1>3, <1>4, <1>5, <1>6, <1>7, <1>8 DEF OwnersCall


LEMMA ExecCallsOwned ==
  ASSUME IInv, ExecTypes, Holdings, Ownership, [ExecNext]_allVars
  PROVE  OwnersCall
<1>0. /\ clock \in Times /\ todo \subseteq JobIds /\ jobs \in [JobIds -> Rows]
      /\ server = "starting" => reading \in Times
  BY DEF ExecTypes, IInv
<1>1. ASSUME NEW e \in Executors, Changing(e) PROVE OwnersCall
  <2>0. ExecShape(e)
    BY DEF ExecTypes
  <2>1. CASE Claim(e)
    <3>1. exec[e].since \in Times
      BY <2>0, <2>1 DEF Claim, ExecShape
    <3>2. QED BY <2>1, <3>1 DEF Claim, OwnersCall
  <2>2. CASE Abandon(e)
    <3>1. Job(e) \in JobIds /\ exec[e].token \in Tokens /\ exec[e].pc = "claimed"
      BY <2>0, <2>2 DEF Abandon, ExecShape, Job
    <3>2. Row(e).token # None
      BY <3>1, NoneIsNothing DEF Holdings, Holds, Busy
    <3>3. Row(e).caller # None
      BY <3>1, <3>2 DEF Ownership, OwnedRow, Row, Job
    <3>4. QED BY <1>0, <2>2, <3>1, <3>3 DEF Abandon, OwnersCall, Row, Job
  <2>3. CASE Retrieve(e) \/ Run(e)
    BY <1>0, <2>3 DEF Retrieve, Run, OwnersCall
  <2>4. CASE RunStart(e) \/ Commit(e)
    <3>1. Job(e) \in JobIds
      BY <2>0, <2>4 DEF RunStart, Commit, ExecShape, Job
    <3>2. QED BY <1>0, <2>4, <3>1 DEF RunStart, Commit, OwnersCall
  <2>5. QED BY <1>1, <2>1, <2>2, <2>3, <2>4 DEF Changing
<1>2. ASSUME NEW e \in Executors, Private(e) PROVE OwnersCall
  BY <1>2, PrivateKeepsTypes DEF OwnersCall
<1>3. CASE Surroundings
  <2>1. ASSUME NEW j \in JobIds, Ask(j) \/ AskCancel(j) PROVE OwnersCall
    BY <1>0, <2>1 DEF Ask, AskCancel, OwnersCall
  <2>2. CASE Reconcile
    BY <1>0, <2>2 DEF Reconcile, Interrupt, OwnersCall
  <2>3. CASE CancelActive
    BY <1>0, <2>3 DEF CancelActive, Ownership, OwnersCall
  <2>4. CASE UNCHANGED vars
    BY <2>4 DEF OwnersCall
  <2>5. QED
    BY <1>3, <2>1, <2>2, <2>3, <2>4 DEF Surroundings, ServerStep, Tick, Open, Start, StartFails, Serve,
       Exit, Close, Crash
<1>4. CASE UNCHANGED allVars
  BY <1>4 DEF allVars, vars, OwnersCall
<1>5. QED BY <1>1, <1>2, <1>3, <1>4, StepKinds

\* An executor that has just begun.
LEMMA BeginnersAreOwned ==
  ASSUME IInv, ExecTypes, Holdings, Ownership, NEW e \in Executors, Changing(e)
  PROVE  Unowned(e)'
<1>1. CASE Claim(e) \/ Retrieve(e)
  <2>1. PICK t \in Tokens, j \in JobIds, pc \in {"claimed", "work"} : Begin(e, pc, j, t)
    BY <1>1 DEF Claim, Retrieve
  <2>2. QED BY <2>1, BeginFields, NoneIsNothing DEF Unowned
<1>2. CASE Run(e)
  <2>1. PICK j \in JobIds : Submit(j, clock) /\ Begin(e, "queued", j, None)
    BY <1>2 DEF Run
  <2>2. jobs'[j] = [NoRow EXCEPT !.status = "submitted", !.submittedAt = clock]
    BY <2>1 DEF Submit, Write, IInv
  <2>3. jobs'[j].caller = None
    BY <2>2 DEF NoRow
  <2>4. e \notin Workers
    BY <1>2, ExecutorsAreDistinct DEF Run
  <2>5. QED BY <2>1, <2>3, <2>4, BeginFields DEF Unowned, Row
<1>3. CASE RunStart(e)
  <2>1. /\ exec[e].pc = "queued" /\ Transition(Job(e), "running", clock, None, None, None)
        /\ Begin(e, "work", Job(e), None)
    BY <1>3 DEF RunStart
  <2>2. Busy(e) /\ Job(e) \in JobIds
    BY <2>1 DEF Busy, ExecTypes, ExecShape, Job
  <2>3. jobs[Job(e)].token = None
    BY <2>1 DEF Transition, Accepts, ClaimHeld
  <2>4. e \notin Workers /\ jobs[Job(e)].caller = None
    BY <2>2, <2>3 DEF Holdings, Holds, Ownership, Unowned, Row, Job
  <2>5. jobs[Job(e)].status # "absent"
    BY <2>1 DEF Transition, Exists
  <2>6. jobs'[Job(e)].caller = None
    BY <2>2, <2>4, <2>5, ChangingKeepsTypes, RowsLast DEF Lasting
  <2>7. QED BY <2>1, <2>4, <2>6, BeginFields DEF Unowned, Row
<1>4. CASE Abandon(e) \/ Commit(e)
  <2>1. Stop(e)
    BY <1>4 DEF Abandon, Commit
  <2>2. QED BY <2>1, StopFields DEF Unowned, Busy, Idle
<1>5. QED BY <1>1, <1>2, <1>3, <1>4 DEF Changing

LEMMA OwnershipStep ==
  ASSUME IInv, ExecTypes, Holdings, Ownership, [ExecNext]_allVars
  PROVE  Ownership'
<1>0. [Next]_vars /\ todo \subseteq JobIds
  BY ExecStep DEF ExecTypes
<1>1. (\A j \in JobIds : OwnedRow(jobs[j]))'
  BY ExecCallsOwned, RowsStayOwned DEF Ownership
<1>2. (server = "closing" => \A j \in todo : jobs[j].caller # None)'
  <2>1. CASE server = "closing" /\ todo' \subseteq todo
    BY <1>0, <2>1, RowsLast DEF Ownership, Lasting
  <2>2. CASE Close
    <3>1. ASSUME NEW j \in todo' PROVE jobs[j].caller # None /\ j \in JobIds
      <4>1. PICK e \in Workers : Active(e) /\ exec[e].pc \notin {"open", "claimed"} /\ Job(e) = j /\ j \in JobIds
        BY <2>2, <3>1 DEF Close
      <4>2. e \in Executors /\ Busy(e)
        BY <4>1 DEF Executors, Active, Busy
      <4>3. exec[e].token # None
        BY <4>1, <4>2 DEF Ownership, Unowned
      <4>4. jobs[j].token # None
        BY <4>1, <4>2, <4>3 DEF Holdings, Holds, Row, Job
      <4>5. QED BY <4>1, <4>4 DEF Ownership, OwnedRow
    <3>2. QED BY <2>2, <3>1 DEF Close, vars
  <2>3. CASE UNCHANGED Process
    BY <2>1, <2>3 DEF Process
  <2>4. CASE server' # "closing"
    BY <2>4
  <2>5. CASE Surroundings
    BY <2>1, <2>2, <2>4, <2>5 DEF Surroundings, ServerStep, Ask, AskCancel, execVars, Tick, Open, Start,
       Reconcile, StartFails, Serve, CancelActive, Exit, Crash
  <2>6. CASE UNCHANGED allVars
    BY <2>3, <2>6 DEF allVars, Process
  <2>7. ASSUME NEW e \in Executors, Changing(e) \/ Private(e) PROVE UNCHANGED Process
    BY <2>7, PrivateKeepsTypes DEF Changing, Claim, Abandon, Retrieve, Run, RunStart, Commit
  <2>8. QED BY <2>3, <2>5, <2>6, <2>7, StepKinds
<1>3. (\A e \in Executors : Unowned(e))'
  <2>1. ASSUME \A f \in Executors : Steady(f) PROVE \A f \in Executors : Unowned(f)'
    BY <1>0, <2>1, UnownedStays DEF Ownership
  <2>2. ASSUME NEW e \in Executors, Private(e) PROVE \A f \in Executors : Unowned(f)'
    BY <2>1, <2>2, PrivateIsSteady
  <2>3. ASSUME NEW e \in Executors, Changing(e) PROVE \A f \in Executors : Unowned(f)'
    BY <1>0, <2>3, BeginnersAreOwned, OthersStay, UnownedStays DEF Ownership, Steady
  <2>4. CASE Surroundings \/ UNCHANGED allVars
    <3>1. \A f \in Executors : exec'[f] \in {exec[f], Idle}
      BY <2>4, SurroundingsStep DEF allVars
    <3>2. QED BY <2>1, <3>1 DEF Steady, Idle
  <2>5. QED BY <2>2, <2>3, <2>4, StepKinds
<1>4. QED BY <1>1, <1>2, <1>3 DEF Ownership

\* A Job that RuntimeService.run publishes without a Request is never claimed, cancelled or
\* executed by a worker thread, and an executor without a token executes only such a Job.
THEOREM OwnershipHolds == ExecSpec => []Ownership
<1>1. ExecInit => Ownership
  BY DEF ExecInit, Init, Ownership, OwnedRow, NoRow, Unowned, Busy, Idle
<1>2. IInv /\ ExecTypes /\ Holdings /\ Ownership /\ [ExecNext]_allVars => Ownership'
  BY OwnershipStep
<1>3. QED BY <1>1, <1>2, ExecTypesHold, HoldingsHold, PTL DEF ExecSpec

\* Under a clock that is never set back, and as long as the database answers and
\* no process is killed, what an executor proposes fits the time window of its row.
Underway(e) == exec[e].pc \notin {"idle", "open", "queued"}

Within(e, r) == r.run = Job(e) /\ Row(e).startedAt <= r.from /\ r.to <= clock

Timely(e) ==
  /\ exec[e].pc # "idle" => exec[e].since <= clock
  /\ Underway(e) =>
       /\ Row(e).startedAt <= exec[e].since
       /\ exec[e].result # None => Within(e, exec[e].result)
  /\ exec[e].pc \in {"commit", "recommit"} => Within(e, exec[e].proposal)
  /\ exec[e].pc = "recommit" => exec[e].proposal.error = Cancelled

\* The row of an executor underway has been started.
LEMMA UnderwayRow ==
  ASSUME IInv, ExecTypes, Holdings, NEW e \in Executors, Underway(e)
  PROVE  /\ Job(e) \in JobIds /\ Row(e) \in Rows
         /\ Row(e).startedAt \in Times /\ exec[e].since \in Times
         /\ Row(e).status \notin {"absent", "submitted"}
<1>1. Job(e) \in JobIds /\ exec[e].since \in Times
  BY DEF ExecTypes, ExecShape, Underway, Job
<1>2. Driven(Row(e), exec[e].pc) /\ exec[e].pc # "queued"
  BY DEF Holdings, Holds, Busy, Underway
<1>3. RowInv(Job(e), Row(e))
  BY <1>1 DEF IInv, Row, Job
<1>4. Row(e).status \in {"running", "failed"}
  BY <1>2 DEF Driven
<1>5. Row(e).startedAt # None /\ Row(e).startedAt \in Opt(Times)
  BY <1>3, <1>4 DEF RowInv, Shape, NoRow, Terminal, Rows
<1>6. QED BY <1>1, <1>3, <1>4, <1>5 DEF RowInv

LEMMA TimesAreNatural == \A t \in Times : t \in Nat
  BY TimesAreOrdered

\* An executor that is not touched stays timely.
LEMMA TimelyStays ==
  ASSUME IInv, ExecTypes, Holdings, [Next]_vars, NEW f \in Executors, Timely(f),
         exec'[f] = exec[f], clock' \in Times, clock <= clock'
  PROVE  Timely(f)'
<1>1. clock \in Nat /\ clock' \in Nat
  BY TimesAreNatural DEF ExecTypes
<1>2. exec[f].pc # "idle" => exec[f].since \in Nat
  BY TimesAreNatural DEF ExecTypes, ExecShape
<1>3. Underway(f) => Row(f)'.startedAt = Row(f).startedAt
  BY UnderwayRow, RowsLast DEF Lasting, Row, Job
<1>4. Job(f)' = Job(f) /\ (Underway(f)' <=> Underway(f))
  BY DEF Job, Underway
<1>5. ASSUME NEW r \in Results, Underway(f), Within(f, r) PROVE Within(f, r)'
  <2>1. r.to \in Nat
    BY ResultTypes, TimesAreNatural
  <2>2. QED BY <1>1, <1>3, <1>4, <1>5, <2>1 DEF Within
<1>6. exec[f].result \in Opt(Results) /\ (exec[f].pc \in {"commit", "recommit"} => exec[f].proposal \in Results)
  BY DEF ExecTypes, ExecStates, ExecShape
<1>7. exec[f].pc \in {"commit", "recommit"} => Underway(f)
  BY DEF Underway
<1>8. QED
  BY <1>1, <1>2, <1>3, <1>4, <1>5, <1>6, <1>7 DEF Timely

\* A conversion at the present stays within the window and says what it must.
LEMMA ConversionsStayWithin ==
  ASSUME IInv, ExecTypes, Holdings, NEW e \in Executors, Underway(e),
         Row(e).startedAt <= clock, NEW c \in BOOLEAN
  PROVE  /\ \A r \in Results : Within(e, r) => Within(e, CancelledResult(r, clock))
         /\ \A r \in Opt(Results) : (r # None => Within(e, r)) =>
              Within(e, ExceptionResult(Job(e), r, c, clock))
         /\ \A r \in RunFailures(Job(e), clock) : Within(e, r)
<1>0. clock \in Nat /\ Row(e).startedAt \in Nat /\ clock \in Times
  BY UnderwayRow, TimesAreNatural DEF ExecTypes
<1>1. ASSUME NEW r \in Results, Within(e, r),
             NEW new \in {CancelledResult(r, clock), ExceptionResult(Job(e), r, c, clock)}
      PROVE  Within(e, new)
  <2>1. r # None /\ r.from \in Nat /\ r.to \in Nat
    BY NoneIsNothing, ResultTypes, TimesAreNatural
  <2>2. /\ new.run = r.run
        /\ new.from \in {r.from, Least(r.from, clock)} /\ new.to \in {r.to, Greatest(r.to, clock)}
    BY <1>0, <2>1, ConvertedFields
  <2>3. QED BY <1>0, <1>1, <2>1, <2>2 DEF Within, Least, Greatest
<1>2. \A code, status : Within(e, TerminalFailure(Job(e), status, code, clock))
  BY <1>0 DEF Within, TerminalFailure
<1>3. Within(e, ExceptionResult(Job(e), None, c, clock))
  BY <1>2 DEF ExceptionResult, FailedResult
<1>4. \A r \in RunFailures(Job(e), clock) : Within(e, r)
  BY <1>2 DEF RunFailures, FailedResult
<1>5. QED BY <1>1, <1>3, <1>4, NoneIsNothing

LEMMA ConversionsSayCancelled ==
  ASSUME NEW at \in Times, NEW j
  PROVE  /\ \A r \in Results : CancelledResult(r, at).error = Cancelled
         /\ \A r \in Opt(Results) : ExceptionResult(j, r, TRUE, at).error = Cancelled
<1>1. ASSUME NEW r \in Results PROVE CancelledResult(r, at).error = Cancelled
  BY ResultTypes, RegeneratedFields DEF CancelledResult
<1>2. ExceptionResult(j, None, TRUE, at).error = Cancelled
  BY DEF ExceptionResult, FailedResult, TerminalFailure
<1>3. QED BY <1>1, <1>2, NoneIsNothing DEF ExceptionResult

LEMMA PrivateKeepsTimely ==
  ASSUME IInv, ExecTypes, Holdings, NEW e \in Executors, Timely(e), Private(e)
  PROVE  Timely(e)'
<1> USE DEF Timely
<1>0. /\ exec[e] \in ExecStates /\ ExecShape(e) /\ clock \in Times /\ clock \in Nat
      /\ clock' = clock /\ jobs' = jobs
  BY PrivateKeepsTypes, TimesAreNatural DEF ExecTypes, vars, Process
<1>1. CASE Look(e)
  <2> DEFINE state == [Idle EXCEPT !.pc = "open", !.since = clock]
  <2>1. Move(e, state) /\ state.pc = "open" /\ state.since = clock
    BY <1>1 DEF Look, Idle
  <2> HIDE DEF state
  <2>2. QED BY <1>0, <2>1, MoveAlone DEF Underway
<1>2. CASE ClaimNothing(e) \/ ClaimRaises(e) \/ RunRaises(e) \/ NotClaimed(e) \/ GiveUp(e)
        \/ StorageFails(e) \/ Die(e)
  <2>1. Stop(e)
    BY <1>2 DEF ClaimNothing, ClaimRaises, RunRaises, NotClaimed, GiveUp, StorageFails, Die
  <2>2. QED BY <2>1, StopFields DEF Idle, Underway
<1>3. CASE Register(e) \/ Work(e) \/ Raise(e) \/ Poll(e) \/ PollFails(e) \/ Terminalize(e) \/ Convert(e)
  <2>1. Underway(e)
    BY <1>3 DEF Register, Work, Raise, Poll, PollFails, Terminalize, Convert, Outrun, Underway
  <2>2. Row(e).startedAt \in Nat /\ exec[e].since \in Nat
    BY <2>1, UnderwayRow, TimesAreNatural
  <2>3. Row(e).startedAt <= exec[e].since /\ exec[e].since <= clock /\ Row(e).startedAt <= clock
    BY <1>0, <2>1, <2>2 DEF Underway
  <2>4. \A pc, r, p : GoesOn(e, pc, r, p) =>
          /\ exec'[e].pc = pc /\ exec'[e].result = r /\ exec'[e].proposal = p
          /\ Row(e)'.startedAt = Row(e).startedAt
          /\ \A x : Within(e, x)' <=> Within(e, x)
    BY <1>0 DEF GoesOn, Row, Job, Within
  <2>5. exec[e].result \in Opt(Results) /\ (exec[e].result # None => Within(e, exec[e].result))
    BY <1>0, <2>1 DEF ExecStates
  <2>6. CASE Register(e)
    <3>1. GoesOn(e, "work", exec[e].result, exec[e].proposal) /\ exec'[e].since = clock
      BY <2>6, RegisterFields
    <3>2. QED BY <1>0, <2>2, <2>3, <2>4, <2>5, <3>1
  <2>7. CASE Work(e)
    <3>1. PICK r \in Results :
            /\ r.run = Job(e) /\ r.from = Least(exec[e].since, clock) /\ r.to = Greatest(exec[e].since, clock)
            /\ GoesOn(e, IF Claimed(e) THEN "poll" ELSE "commit", r, r)
            /\ exec'[e].since = exec[e].since
      BY <2>7, WorkFields
    <3>2. Within(e, r)
      BY <1>0, <2>2, <2>3, <3>1 DEF Within, Least, Greatest
    <3>3. QED BY <1>0, <2>3, <2>4, <3>1, <3>2
  <2>8. CASE Raise(e)
    <3>1. exec'[e].since = exec[e].since
      BY <1>0, <2>8, RaiseFields
    <3>2. CASE GoesOn(e, "except", exec[e].result, exec[e].proposal)
      BY <1>0, <2>3, <2>4, <2>5, <3>1, <3>2
    <3>3. ASSUME NEW r \in RunFailures(Job(e), clock), GoesOn(e, "commit", exec[e].result, r)
          PROVE  Timely(e)'
      <4>1. Within(e, r)
        BY <2>1, <2>3, <2>5, ConversionsStayWithin
      <4>2. QED BY <1>0, <2>3, <2>4, <2>5, <3>1, <3>3, <4>1
    <3>4. QED BY <2>8, <3>2, <3>3, RaiseFields
  <2>9. CASE Poll(e)
    <3>1. exec[e].result \in Results /\ exec[e].result # None
      BY <1>0, <2>9, NoneIsNothing DEF Poll, ExecShape
    <3>2. Within(e, CancelledResult(exec[e].result, clock))
      BY <2>1, <2>3, <2>5, <3>1, ConversionsStayWithin
    <3>3. QED BY <1>0, <2>3, <2>4, <2>5, <2>9, <3>1, <3>2, PollFields
  <2>10. CASE PollFails(e)
    BY <1>0, <2>3, <2>4, <2>5, <2>10, PollFailsFields
  <2>11. CASE Terminalize(e)
    <3>1. PICK c \in BOOLEAN :
            GoesOn(e, "commit", exec[e].result, ExceptionResult(Job(e), exec[e].result, c, clock))
      BY <2>11, TerminalizeFields
    <3>2. Within(e, ExceptionResult(Job(e), exec[e].result, c, clock))
      BY <2>1, <2>3, <2>5, ConversionsStayWithin
    <3>3. exec'[e].since = exec[e].since
      BY <2>11, TerminalizeFields
    <3>4. QED BY <1>0, <2>3, <2>4, <2>5, <3>1, <3>2, <3>3
  <2>12. CASE Convert(e)
    <3>1. exec[e].pc = "commit" /\ exec[e].proposal \in Results /\ Within(e, exec[e].proposal)
      BY <1>0, <2>12 DEF Convert, Outrun, ExecShape
    <3>2. /\ Within(e, ExceptionResult(Job(e), exec[e].result, TRUE, clock))
          /\ Within(e, CancelledResult(exec[e].proposal, clock))
      BY <2>1, <2>3, <2>5, <3>1, ConversionsStayWithin
    <3>3. /\ ExceptionResult(Job(e), exec[e].result, TRUE, clock).error = Cancelled
          /\ CancelledResult(exec[e].proposal, clock).error = Cancelled
      BY <1>0, <2>5, <3>1, ConversionsSayCancelled
    <3>4. PICK r \in {ExceptionResult(Job(e), exec[e].result, TRUE, clock),
                      CancelledResult(exec[e].proposal, clock)} :
            GoesOn(e, "recommit", exec[e].result, r) /\ exec'[e].since = exec[e].since
      BY <1>0, <2>12, ConvertFields
    <3>5. Within(e, r) /\ r.error = Cancelled
      BY <3>2, <3>3
    <3>6. QED BY <1>0, <2>3, <2>4, <2>5, <3>4, <3>5
  <2> HIDE DEF Timely
  <2>13. QED BY <1>3, <2>6, <2>7, <2>8, <2>9, <2>10, <2>11, <2>12
<1>4. QED BY <1>1, <1>2, <1>3 DEF Private, Fault

\* A Job begins at the time its executor read, and not in the future.
LEMMA ChangingKeepsTimely ==
  ASSUME IInv, ExecTypes, NEW e \in Executors, Timely(e), Changing(e)
  PROVE  Timely(e)'
<1> USE DEF Timely
<1>0. /\ jobs \in [JobIds -> Rows] /\ clock \in Nat /\ ExecShape(e)
      /\ exec[e].pc # "idle" => exec[e].since \in Nat
  BY TimesAreNatural DEF IInv, ExecTypes, ExecShape
<1>1. CASE Abandon(e) \/ Commit(e)
  <2>1. Stop(e)
    BY <1>1 DEF Abandon, Commit
  <2>2. QED BY <2>1, StopFields DEF Idle, Underway
<1>2. ASSUME NEW pc \in {"queued", "claimed", "work"}, NEW j \in JobIds, NEW t, Begin(e, pc, j, t),
             UNCHANGED Process, pc # "queued" => jobs'[j].startedAt \in Nat /\ jobs'[j].startedAt <= clock
      PROVE  Timely(e)'
  <2>1. /\ exec'[e].pc = pc /\ exec'[e].since = clock /\ exec'[e].result = None /\ Job(e)' = j
        /\ clock' = clock
    BY <1>2, BeginFields DEF Job, Process
  <2>2. QED BY <1>0, <1>2, <2>1 DEF Underway, Row, Job
<1>3. CASE Claim(e)
  <2>1. PICK j \in JobIds, t \in Tokens : ClaimNext(j, exec[e].since, t) /\ Begin(e, "claimed", j, t)
    BY <1>3 DEF Claim
  <2> DEFINE mid == Snapshot(jobs[j], "running", exec[e].since, None, None)
             row == [mid EXCEPT !.token = t]
  <2>2. exec[e].pc = "open" /\ exec[e].since \in Times /\ exec[e].since \in Nat /\ exec[e].since <= clock
    BY <1>0, <1>3 DEF Claim, ExecShape
  <2>3. mid \in Rows /\ mid.startedAt = exec[e].since
    BY <1>0, <2>2, SnapshotFields DEF Statuses
  <2>4. jobs' = [jobs EXCEPT ![j] = row]
    BY <2>1 DEF ClaimNext, Write
  <2> HIDE DEF mid
  <2>5. row.startedAt = mid.startedAt
    BY <2>3 DEF Rows
  <2> HIDE DEF row
  <2>6. jobs'[j].startedAt = exec[e].since
    BY <1>0, <2>3, <2>4, <2>5
  <2>7. QED BY <1>2, <1>3, <2>1, <2>2, <2>6 DEF Claim
<1>4. CASE Retrieve(e)
  <2>1. PICK j \in JobIds, c \in Callers, k \in Keys, q \in Requests, t \in Tokens :
          SubmitAndClaim(j, c, k, q, clock, t) /\ Begin(e, "work", j, t)
    BY <1>4 DEF Retrieve
  <2> DEFINE row == [Submitted(c, k, q, clock) EXCEPT !.status = "running", !.startedAt = clock, !.token = t]
  <2>2. jobs' = [jobs EXCEPT ![j] = row]
    BY <2>1 DEF SubmitAndClaim, Write
  <2>3. row.startedAt = clock
    BY DEF Submitted, NoRow
  <2> HIDE DEF row
  <2>4. jobs'[j].startedAt = clock
    BY <1>0, <2>2, <2>3
  <2>5. QED BY <1>0, <1>2, <1>4, <2>1, <2>4 DEF Retrieve
<1>5. CASE Run(e)
  BY <1>2, <1>5 DEF Run
<1>6. CASE RunStart(e)
  <2>1. /\ exec[e].pc = "queued" /\ Transition(Job(e), "running", clock, None, None, None)
        /\ Begin(e, "work", Job(e), None) /\ UNCHANGED Process
    BY <1>6 DEF RunStart
  <2>2. Job(e) \in JobIds
    BY <1>0, <2>1 DEF ExecShape, Job
  <2> DEFINE row == Snapshot(jobs[Job(e)], "running", clock, None, None)
  <2>3. jobs' = [jobs EXCEPT ![Job(e)] = row]
    BY <2>1 DEF Transition, Write
  <2>4. row.startedAt = clock
    BY <1>0, <2>2, SnapshotFields
  <2> HIDE DEF row
  <2>5. jobs'[Job(e)].startedAt = clock
    BY <1>0, <2>2, <2>3, <2>4
  <2>6. QED BY <1>0, <1>2, <2>1, <2>2, <2>5
<1>7. QED BY <1>1, <1>3, <1>4, <1>5, <1>6 DEF Changing

LEMMA TimelyStep ==
  ASSUME ~ ClockMayStepBack, IInv, ExecTypes, Holdings, \A e \in Executors : Timely(e),
         [ExecNext]_allVars
  PROVE  (\A e \in Executors : Timely(e))'
<1>0. [Next]_vars /\ clock \in Times /\ clock \in Nat /\ clock' \in Times /\ clock' \in Nat
  BY ExecStep, TimesAreNatural DEF ExecTypes
<1>1. ASSUME NEW e \in Executors, Changing(e) \/ Private(e) PROVE (\A f \in Executors : Timely(f))'
  <2>1. clock' = clock
    BY <1>1, PrivateKeepsTypes DEF Process, Changing, Claim, Abandon, Retrieve, Run, RunStart, Commit
  <2>2. Timely(e)'
    BY <1>1, PrivateKeepsTimely, ChangingKeepsTimely
  <2>3. \A f \in Executors : f # e => Timely(f)'
    BY <1>0, <1>1, <2>1, OthersStay, TimelyStays
  <2>4. QED BY <2>2, <2>3
<1>2. CASE Surroundings \/ UNCHANGED allVars
  <2>1. clock <= clock'
    BY <1>0, <1>2 DEF Surroundings, ServerStep, Ask, AskCancel, execVars, Tick, Open, Start, Reconcile,
       StartFails, Serve, CancelActive, Exit, Close, Crash, allVars
  <2>2. \A f \in Executors : exec'[f] \in {exec[f], Idle}
    BY <1>2, SurroundingsStep DEF allVars
  <2>3. \A f \in Executors : exec'[f] = Idle => Timely(f)'
    BY DEF Timely, Idle, Underway
  <2>4. QED BY <1>0, <2>1, <2>2, <2>3, TimelyStays
<1>3. QED BY <1>1, <1>2, StepKinds

\* A proposal for a Job that still runs is accepted, or outrun by a cancellation
\* the first time.
LEMMA ProposalsAreAccepted ==
  ASSUME IInv, ExecTypes, Holdings, Ownership, NEW e \in Executors, Timely(e),
         exec[e].pc \in {"commit", "recommit"}, Row(e).status = "running"
  PROVE  ~ GiveUp(e)
<1> DEFINE p == exec[e].proposal
<1>1. Underway(e) /\ Busy(e)
  BY DEF Underway, Busy
<1>2. p \in Results /\ p # None /\ p.status \in Terminal /\ p.from \in Nat /\ p.to \in Nat /\ WellFormed(p)
  BY NoneIsNothing, ResultTypes, TimesAreNatural, ResultsAreWellFormed DEF ExecTypes, ExecShape
<1>3. /\ Job(e) \in JobIds /\ Row(e).startedAt \in Nat /\ clock \in Nat
  BY <1>1, UnderwayRow, TimesAreNatural DEF ExecTypes
<1>4. p.run = Job(e) /\ Row(e).startedAt <= p.from /\ p.to <= clock /\ p.from <= p.to
  BY <1>2 DEF Timely, Within, WellFormed
<1> HIDE DEF p
<1>5. SnapshotLegal(Job(e), jobs[Job(e)], p.status, clock, p, FailureCode(p))
  BY <1>2, <1>3, <1>4 DEF SnapshotLegal, Row, Job
<1>6. ClaimHeld(jobs[Job(e)], p.status, exec[e].token)
  BY <1>1, <1>2 DEF Holdings, Holds, ClaimHeld, Row, Job
<1>7. CASE CancelHonoured(jobs[Job(e)], p.status, p, FailureCode(p))
  BY <1>5, <1>6, <1>7 DEF GiveUp, Accepts, p
<1>8. CASE ~ CancelHonoured(jobs[Job(e)], p.status, p, FailureCode(p))
  <2>1. Row(e).cancelAt # None /\ p.error # Cancelled
    BY <1>2, <1>8 DEF CancelHonoured, Row, Job
  <2>2. exec[e].token # None
    BY <1>1, <1>3, <2>1 DEF Ownership, OwnedRow, Unowned, Row, Job
  <2>3. exec[e].pc = "commit"
    BY <2>1 DEF Timely, p
  <2>4. Outrun(e)
    BY <1>6, <1>8, <2>2, <2>3 DEF Outrun, Claimed, RefusesForCancel, p
  <2>5. QED BY <2>4 DEF GiveUp
<1>9. QED BY <1>7, <1>8

\* The Jobs a server has taken charge of: while it starts, the running ones are on
\* its list, and once it is up all of them have an executor.
Attended ==
  server \in {"starting", "up"} =>
    \A j \in Running : Holding(j) # {} \/ (server = "starting" /\ j \in todo)

\* A step that keeps the server, starts no Job unheld and loses no holder of one.
LEMMA AttendanceLasts ==
  ASSUME Attended, server' = server, todo \subseteq todo' \cup (JobIds \ Running'),
         \A j \in Running' : Holding(j)' # {} \/ (j \in Running /\ Holding(j) \subseteq Holding(j)')
  PROVE  Attended'
  BY DEF Attended, Running

\* An executor stops only over a Job that has ended, or has none.
LEMMA LettingGo ==
  ASSUME ~ StorageMayFail, ~ InlineMayDie, IInv, ExecTypes, Holdings, Ownership,
         NEW e \in Executors, Timely(e), Private(e), NEW j \in Running, e \in Holding(j)
  PROVE  e \in Holding(j)'
<1>1. j \in JobIds /\ Active(e) /\ Job(e) = j /\ j # None /\ Row(e).status = "running"
  BY ExecutorsAreDistinct DEF Running, Holding, Row, Job
<1>2. Busy(e)
  BY <1>1 DEF Holdings, Holds, Active, Busy, Job
<1>3. exec[e].pc # "queued"
  BY <1>1, <1>2 DEF Holdings, Holds, Driven
<1>4. ~ (ClaimNothing(e) \/ ClaimRaises(e) \/ RunRaises(e) \/ NotClaimed(e) \/ StorageFails(e) \/ Die(e) \/ Look(e))
  BY <1>1, <1>2, <1>3 DEF ClaimNothing, ClaimRaises, RunRaises, NotClaimed, StorageFails, Die, Look, Busy
<1>5. ~ GiveUp(e)
  BY <1>1, ProposalsAreAccepted DEF GiveUp
<1>6. \E pc \in {"work", "poll", "except", "commit", "recommit"} : \E r, p : GoesOn(e, pc, r, p)
  BY <1>4, <1>5, RegisterFields, WorkFields, RaiseFields, PollFields, PollFailsFields, TerminalizeFields,
     ConvertFields DEF Private, Fault
<1>7. QED BY <1>1, <1>6 DEF GoesOn, Holding, Active, Job

\* What an executor does to its own Job when it calls the repository.
LEMMA ChangingAttends ==
  ASSUME IInv, ExecTypes, Holdings, Attended, NEW e \in Executors, Changing(e)
  PROVE  Attended'
<1>0. /\ jobs \in [JobIds -> Rows] /\ ExecShape(e)
      /\ \A f \in Executors : f # e => exec'[f] = exec[f]
  BY OthersStay DEF IInv, ExecTypes
<1>1. ASSUME NEW pc \in {"queued", "claimed", "work"}, NEW j \in JobIds, NEW t, Begin(e, pc, j, t),
             \A i \in JobIds : i # j => jobs'[i] = jobs[i],
             ~ Active(e) \/ Job(e) \in {None, j}, UNCHANGED Process
      PROVE  Attended'
  <2>1. Active(e)' /\ Job(e)' = j
    BY <1>1, BeginFields DEF Active, Job
  <2>2. Holding(j)' # {}
    BY <2>1 DEF Holding
  <2>3. ASSUME NEW i \in Running', i # j PROVE i \in Running /\ Holding(i) \subseteq Holding(i)'
    <3>1. i \in Running /\ i # None
      BY <1>1, <2>3, ExecutorsAreDistinct DEF Running
    <3>2. e \notin Holding(i)
      BY <1>1, <2>3, <3>1 DEF Holding
    <3>3. QED BY <1>0, <3>1, <3>2 DEF Holding, Active, Job
  <2>4. server' = server /\ todo' = todo
    BY <1>1 DEF Process
  <2>5. QED BY <2>2, <2>3, <2>4, AttendanceLasts
<1>2. ASSUME NEW i \in JobIds, Job(e) = i, Stop(e), \A k \in JobIds : k # i => jobs'[k] = jobs[k],
             jobs'[i].status # "running", UNCHANGED Process
      PROVE  Attended'
  <2>1. ASSUME NEW k \in Running' PROVE k \in Running /\ Holding(k) \subseteq Holding(k)'
    <3>1. k \in Running /\ k # i
      BY <1>2, <2>1 DEF Running
    <3>2. QED BY <1>0, <1>2, <3>1 DEF Holding, Active, Job
  <2>2. server' = server /\ todo' = todo
    BY <1>2 DEF Process
  <2>3. QED BY <2>1, <2>2, AttendanceLasts
<1>3. CASE Claim(e)
  <2>1. PICK j \in JobIds, t \in Tokens : ClaimNext(j, exec[e].since, t) /\ Begin(e, "claimed", j, t)
    BY <1>3 DEF Claim
  <2>2. \A i \in JobIds : i # j => jobs'[i] = jobs[i]
    BY <1>0, <2>1 DEF ClaimNext, Write
  <2>3. Job(e) = None
    BY <1>3 DEF Claim, Holdings, Holds, Busy, Job
  <2>4. QED BY <1>1, <1>3, <2>1, <2>2, <2>3 DEF Claim
<1>4. CASE Retrieve(e)
  <2>1. PICK j \in JobIds, t \in Tokens : Begin(e, "work", j, t) /\ \A i \in JobIds : i # j => jobs'[i] = jobs[i]
    BY <1>0, <1>4 DEF Retrieve, SubmitAndClaim, Write
  <2>2. QED BY <1>1, <1>4, <2>1 DEF Retrieve
<1>5. CASE Run(e)
  <2>1. PICK j \in JobIds : Begin(e, "queued", j, None) /\ \A i \in JobIds : i # j => jobs'[i] = jobs[i]
    BY <1>0, <1>5 DEF Run, Submit, Write
  <2>2. QED BY <1>1, <1>5, <2>1 DEF Run
<1>6. CASE RunStart(e)
  <2>1. Job(e) \in JobIds
    BY <1>0, <1>6 DEF RunStart, ExecShape, Job
  <2>2. Begin(e, "work", Job(e), None) /\ \A i \in JobIds : i # Job(e) => jobs'[i] = jobs[i]
    BY <1>0, <1>6, <2>1 DEF RunStart, Transition, Write
  <2>3. QED BY <1>1, <1>6, <2>1, <2>2 DEF RunStart
<1>7. CASE Commit(e)
  <2> DEFINE p == exec[e].proposal
             row == Snapshot(jobs[Job(e)], p.status, clock, p, FailureCode(p))
  <2>1. Job(e) \in JobIds /\ p \in Results /\ p.status \in Terminal
    BY <1>0, <1>7, ResultTypes DEF Commit, ExecShape, Job
  <2>2. jobs' = [jobs EXCEPT ![Job(e)] = row] /\ row.status = p.status
    BY <1>0, <1>7, <2>1, SnapshotFields DEF Commit, Transition, Write
  <2> HIDE DEF row
  <2>3. jobs'[Job(e)].status # "running" /\ \A k \in JobIds : k # Job(e) => jobs'[k] = jobs[k]
    BY <1>0, <2>1, <2>2 DEF Terminal
  <2>4. QED BY <1>2, <1>7, <2>1, <2>3 DEF Commit
<1>8. CASE Abandon(e)
  BY <1>8 DEF Abandon, Process, Attended
<1>9. QED BY <1>3, <1>4, <1>5, <1>6, <1>7, <1>8, <1>0 DEF Changing

LEMMA SurroundingsAttend ==
  ASSUME IInv, ExecTypes, Attended, Surroundings
  PROVE  Attended'
<1>0. jobs \in [JobIds -> Rows] /\ todo \subseteq JobIds
  BY DEF IInv, ExecTypes
<1>1. ASSUME exec' = exec, server' = server, todo' = todo, Running' \subseteq Running PROVE Attended'
  BY <1>1 DEF Attended, Holding, Active, Job
<1>2. ASSUME NEW j \in JobIds, Ask(j) \/ AskCancel(j) PROVE Attended'
  <2>1. exec' = exec /\ server' = server /\ todo' = todo
    BY <1>2 DEF Ask, AskCancel, execVars
  <2>2. Running' \subseteq Running
    <3>1. CASE Ask(j)
      <4>1. PICK c \in Callers, k \in Keys, q \in Requests : jobs' = [jobs EXCEPT ![j] = Submitted(c, k, q, clock)]
        BY <3>1 DEF Ask, SubmitRequest, Write
      <4>2. Submitted(c, k, q, clock).status = "submitted"
        BY DEF Submitted, NoRow
      <4>3. QED BY <1>0, <4>1, <4>2 DEF Running
    <3>2. CASE AskCancel(j)
      BY <1>0, <3>2, CancelIsQuiet DEF AskCancel, Cancel, Write, Running, Rows
    <3>3. QED BY <1>2, <3>1, <3>2
  <2>3. QED BY <1>1, <2>1, <2>2
<1>3. CASE Tick
  BY <1>1, <1>3 DEF Tick, vars, Running
<1>4. CASE Open \/ CancelActive \/ Exit \/ StartFails \/ Crash \/ Close
  BY <1>4 DEF Open, CancelActive, Exit, StartFails, Crash, Close, Attended
<1>5. CASE Start
  BY <1>5 DEF Start, Attended, vars, Running
<1>6. CASE Serve
  BY <1>6 DEF Serve, Attended, vars, Running, Holding, Active, Job
<1>7. CASE Reconcile
  <2>1. PICK j \in todo : Interrupt(j, reading) /\ todo' = todo \ {j}
    BY <1>7 DEF Reconcile
  <2>2. server = "starting" /\ server' = "starting" /\ exec' = exec /\ j \in JobIds
    BY <1>0, <1>7 DEF Reconcile
  <2> DEFINE row == Snapshot(jobs[j], "failed", reading, None, Interrupted)
  <2>3. jobs' = [jobs EXCEPT ![j] = row] /\ row.status = "failed"
    BY <1>0, <2>1, <2>2, SnapshotFields DEF Interrupt, Transition, Write
  <2> HIDE DEF row
  <2>4. \A i \in Running' : i \in Running /\ i # j
    BY <1>0, <2>2, <2>3 DEF Running
  <2>5. QED BY <2>1, <2>2, <2>4 DEF Attended, Holding, Active, Job
<1>8. QED BY <1>2, <1>3, <1>4, <1>5, <1>6, <1>7 DEF Surroundings, ServerStep

\* While the server serves, no Job is left running without an executor, unless the
\* database or the clock fails it, or a process that runs its own Job is killed.
THEOREM StrandedHolds ==
  ASSUME ~ StorageMayFail, ~ InlineMayDie, ~ ClockMayStepBack
  PROVE  ExecSpec => []NothingStranded
<1> DEFINE AllTimely == \A e \in Executors : Timely(e)
<1>1. ExecInit => AllTimely /\ Attended
  BY DEF ExecInit, Idle, Timely, Underway, Attended
<1>2. IInv /\ ExecTypes /\ Holdings /\ AllTimely /\ [ExecNext]_allVars => AllTimely'
  BY TimelyStep
<1>3. ASSUME IInv, ExecTypes, Holdings, Ownership, AllTimely, Attended, [ExecNext]_allVars
      PROVE  Attended'
  <2>1. ASSUME NEW e \in Executors, Private(e) PROVE Attended'
    <3>1. UNCHANGED vars /\ server' = server /\ todo' = todo
      BY <1>3, <2>1, PrivateKeepsTypes DEF Process
    <3>2. Running' = Running
      BY <3>1 DEF vars, Running
    <3>3. ASSUME NEW j \in Running PROVE Holding(j) \subseteq Holding(j)'
      <4>1. \A f \in Executors : f # e => exec'[f] = exec[f]
        BY <1>3, <2>1, OthersStay
      <4>2. e \in Holding(j) => e \in Holding(j)'
        BY <1>3, <2>1, <3>3, LettingGo
      <4>3. QED BY <4>1, <4>2 DEF Holding, Active, Job
    <3>4. QED BY <1>3, <3>1, <3>2, <3>3, AttendanceLasts
  <2>2. CASE UNCHANGED allVars
    BY <1>3, <2>2 DEF allVars, Attended, Running, Holding, Active, Job
  <2>3. QED BY <1>3, <2>1, <2>2, StepKinds, ChangingAttends, SurroundingsAttend
<1>4. Attended => NothingStranded
  BY DEF Attended, NothingStranded
<1>5. QED
  BY <1>1, <1>2, <1>3, <1>4, ExecTypesHold, HoldingsHold, OwnershipHolds, PTL DEF ExecSpec
=============================================================================
