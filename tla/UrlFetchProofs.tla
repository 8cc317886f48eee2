--------------------------- MODULE UrlFetchProofs ---------------------------
(***************************************************************************)
(* Proofs about UrlFetch, for any site, answers, costs, limits, clients    *)
(* and number of crashes, whether or not the workflow and database writes  *)
(* raise.                                                                  *)
(*                                                                         *)
(* As in SiteBatch the properties of the durable rows rest on how the      *)
(* thread's locals relate to them: its results are the durable hops, or    *)
(* one more before its checkpoint; and what it has visited covers every    *)
(* hop but the page under examination, so that a page to acquire is new    *)
(* to the hops of all runs, not only of this one.                          *)
(* The budget is a sum over the hops of all runs.  What Total says of a    *)
(* sequence is proved by induction on its length (SetInduction).           *)
(***************************************************************************)
EXTENDS UrlFetch, FiniteSetTheorems, WellFoundedInduction, TLAPS

Hops ==
  [requested : Urls, final : Urls, source : {"none", "html", "file"}, links : Links,
   clean : BOOLEAN, requests : Nat, runtime : Nat, attempts : 1..MaxAttempts]

Finds == [source : Urls, links : Links, runtime : 1..Second]

Places == {"idle", "resume", "loop", "acquire", "checkpoint", "examine", "save", "decide",
           "finish", "fail", "lost"}

FetchTypeOK ==
  /\ pc \in Places
  /\ hops \in Seq(Hops) /\ results \in Seq(Hops)
  /\ finds \in Seq(Finds) /\ discovery \in Seq(Finds)
  /\ current \in Urls
  /\ cancel \in Nat \cup {None}

\* Where the thread has its results.
Working == pc \in {"loop", "acquire", "checkpoint", "examine", "save", "decide", "finish"}

\* The thread's hops and discoveries are the durable ones, or one more on its way to them;
\* the hop on its way was not asked for before.
ResultsFollow ==
  /\ Working /\ pc # "checkpoint" => results = hops
  /\ pc = "checkpoint" =>
       \E hop \in Hops : results = Append(hops, hop) /\ hop.requested \notin Seen(hops)
  /\ Working /\ pc # "save" => discovery = finds
  /\ pc = "save" => \E find \in Finds : discovery = Append(finds, find)

\* What was visited: every durable hop, but for the page under examination.
VisitedFollow ==
  /\ pc \in {"loop", "acquire", "checkpoint"} => Seen(hops) \subseteq visited
  /\ pc = "acquire" => current \notin Seen(hops)
  /\ pc \in {"examine", "save", "decide"} =>
       /\ hops # <<>>
       /\ \A i \in 1..Len(hops) - 1 : {hops[i].requested, hops[i].final} \subseteq visited
  /\ pc \in {"save", "decide"} => evidence \in Finds /\ current = hops[Len(hops)].final

\* Artifacts of durable hops are readable, and only a finished row has an outcome.
OutcomeFollows ==
  /\ \A i \in 1..Len(hops) : hops[i].source # "none" => hops[i] \in granted
  /\ outcome # None => Finished

\* An acquisition under way began before any durable request to cancel, or at it.
CancelFollows ==
  cancel # None =>
    /\ Len(hops) <= cancel + 1
    /\ pc \in {"acquire", "checkpoint"} => Len(hops) <= cancel

IInv ==
  /\ FetchTypeOK
  /\ ResultsFollow
  /\ VisitedFollow
  /\ OutcomeFollows
  /\ CancelFollows
  /\ NoHopTwice
  /\ OutcomeIsDurable

-----------------------------------------------------------------------------

LEMMA SeenIsByIndex ==
  ASSUME NEW rs \in Seq(Hops), NEW url
  PROVE  url \in Seen(rs) <=> \E i \in 1..Len(rs) : url = rs[i].requested \/ url = rs[i].final
<1>1. DOMAIN rs = 1..Len(rs)
  OBVIOUS
<1>2. url \in Seen(rs) <=> \E hop \in HopsOf(rs) : url \in {hop.requested, hop.final}
  BY DEF Seen
<1>3. \A hop : hop \in HopsOf(rs) <=> \E i \in 1..Len(rs) : hop = rs[i]
  BY <1>1 DEF HopsOf
<1> QED BY <1>2, <1>3

\* A page to go on to is a URL.
LEMMA VerdictAdmitsUrls ==
  ASSUME NEW find \in Finds, NEW seen, NEW rs, Verdict(find, seen, rs) = None
  PROVE  find.links \in Urls
<1>1. find.links \in Links
  BY DEF Finds
<1> QED BY <1>1, NoneIsNothing DEF Verdict, Links

\* A verdict to go on to a page that was not seen leaves a hop for it.
LEMMA VerdictLeavesAHop ==
  ASSUME NEW find \in Finds, NEW seen, NEW rs \in Seq(Hops), Verdict(find, seen, rs) = None
  PROVE  find.links \notin seen /\ Len(rs) <= MaxHops
<1>1. find.links \in Urls
  BY VerdictAdmitsUrls
<1>2. find.links \notin seen
  BY NoneIsNothing DEF Verdict
<1>3. ~ (Len(rs) > MaxHops)
  BY <1>1, <1>2, NoneIsNothing DEF Verdict
<1> QED BY <1>2, <1>3, LimitsAreLimits

LEMMA LastHop ==
  ASSUME NEW rs \in Seq(Hops), rs # <<>>
  PROVE  Last(rs) = rs[Len(rs)] /\ Last(rs) \in Hops /\ Last(rs).final \in Seen(rs) /\ Len(rs) \in 1..Len(rs)
<1>1. Len(rs) \in 1..Len(rs) /\ rs[Len(rs)] \in Hops /\ Last(rs) = rs[Len(rs)]
  BY DEF Last
<1> QED BY <1>1, SeenIsByIndex

-----------------------------------------------------------------------------

LEMMA Begins == Init => IInv
<1> SUFFICES ASSUME Init PROVE IInv
  OBVIOUS
<1>1. FetchTypeOK /\ ResultsFollow /\ VisitedFollow
  BY SeedIsAUrl DEF Init, FetchTypeOK, Places, ResultsFollow, VisitedFollow, Working
<1>2. OutcomeFollows /\ CancelFollows /\ NoHopTwice /\ OutcomeIsDurable
  BY DEF Init, OutcomeFollows, CancelFollows, NoHopTwice, OutcomeIsDurable
<1> QED BY <1>1, <1>2 DEF IInv

LEMMA ClaimKeeps == ASSUME IInv, Claim PROVE IInv'
<1>1. /\ pc' = "resume" /\ outcome = None
      /\ UNCHANGED <<cancel, hops, finds, outcome, granted, results, discovery, current, visited,
                     stop, evidence>>
  BY DEF Claim, IInv, OutcomeFollows, Finished
<1> QED BY <1>1 DEF IInv, FetchTypeOK, Places, ResultsFollow, VisitedFollow, OutcomeFollows,
       CancelFollows, NoHopTwice, OutcomeIsDurable, Working, Seen, HopsOf

\* The thread goes on from the durable hops and discoveries alone.
LEMMA ResumeKeeps == ASSUME IInv, Resume PROVE IInv'
<1>1. /\ pc = "resume" /\ pc' = "loop" /\ UNCHANGED <<status, cancel, hops, finds, outcome, granted>>
      /\ results' = hops /\ discovery' = finds /\ visited' = Seen(hops)
  BY DEF Resume, durable
<1>2. current' \in Urls
  <2> DEFINE page == IF hops = <<>> THEN Seed ELSE Last(hops).final
             known == /\ hops # <<>> /\ finds # <<>>
                      /\ Last(hops).source = "html" /\ Last(finds).source = page
             verdict == IF known THEN Verdict(Last(finds), Seen(hops), hops) ELSE None
  <2>1. current' = IF known /\ verdict = None THEN Last(finds).links ELSE page
    BY DEF Resume
  <2>2. page \in Urls
    BY SeedIsAUrl, LastHop DEF IInv, FetchTypeOK, Hops
  <2>3. ASSUME known, verdict = None PROVE Last(finds).links \in Urls
    <3>1. Last(finds) \in Finds
      BY <2>3 DEF IInv, FetchTypeOK, Last
    <3> QED BY <2>3, <3>1, VerdictAdmitsUrls
  <2> HIDE DEF page, known, verdict
  <2> QED BY <2>1, <2>2, <2>3
<1>3. FetchTypeOK' /\ ResultsFollow' /\ VisitedFollow'
  BY <1>1, <1>2 DEF IInv, FetchTypeOK, Places, ResultsFollow, VisitedFollow, Working, Seen, HopsOf
<1>4. OutcomeFollows' /\ CancelFollows' /\ NoHopTwice' /\ OutcomeIsDurable'
  BY <1>1 DEF IInv, OutcomeFollows, CancelFollows, NoHopTwice, OutcomeIsDurable, Finished, HopsOf
<1> QED BY <1>3, <1>4 DEF IInv

\* A page is acquired only if no durable hop asked for it or ended at it.
LEMMA TopKeeps == ASSUME IInv, Top PROVE IInv'
<1>1. /\ pc = "loop" /\ results = hops /\ discovery = finds /\ Seen(hops) \subseteq visited
      /\ UNCHANGED <<status, cancel, hops, finds, outcome, granted, results, discovery, current,
                     visited, evidence>>
  BY DEF Top, durable, IInv, ResultsFollow, VisitedFollow, Working
<1>2. \/ pc' = "finish"
      \/ pc' = "examine" /\ hops # <<>>
      \/ pc' = "acquire" /\ cancel = None /\ (hops = <<>> \/ current \notin visited)
  BY <1>1 DEF Top, Halt
<1>3. hops \in Seq(Hops)
  BY DEF IInv, FetchTypeOK
<1>4. pc' = "acquire" => current \notin Seen(hops)
  BY <1>1, <1>2, <1>3, SeenIsByIndex
<1>5. \A i \in 1..Len(hops) - 1 : {hops[i].requested, hops[i].final} \subseteq visited
  <2> SUFFICES ASSUME NEW i \in 1..Len(hops) - 1
               PROVE  hops[i].requested \in Seen(hops) /\ hops[i].final \in Seen(hops)
    BY <1>1
  <2> QED BY <1>3, SeenIsByIndex
<1>6. FetchTypeOK' /\ ResultsFollow' /\ VisitedFollow'
  BY <1>1, <1>2, <1>4, <1>5
  DEF IInv, FetchTypeOK, Places, ResultsFollow, VisitedFollow, Working, Seen, HopsOf
<1>7. OutcomeFollows' /\ CancelFollows' /\ NoHopTwice' /\ OutcomeIsDurable'
  BY <1>1, <1>2
  DEF IInv, OutcomeFollows, CancelFollows, NoHopTwice, OutcomeIsDurable, Finished, HopsOf
<1> QED BY <1>6, <1>7 DEF IInv

LEMMA AcquireKeeps == ASSUME IInv, Acquire PROVE IInv'
<1>1. /\ pc = "acquire" /\ pc' = "checkpoint" /\ results = hops /\ discovery = finds
      /\ Seen(hops) \subseteq visited /\ current \notin Seen(hops)
      /\ UNCHANGED <<status, cancel, hops, finds, outcome, granted, discovery, current, visited>>
  BY DEF Acquire, durable, IInv, ResultsFollow, VisitedFollow, Working
<1>2. PICK hop \in Hops : results' = Append(results, hop) /\ hop.requested = current
  <2>1. PICK answer \in Answers, cost \in Costs : results' = Append(results, Hop(answer, cost))
    BY DEF Acquire
  <2>2. Hop(answer, cost) \in Hops /\ Hop(answer, cost).requested = current
    BY AnswersAreAnswers, CostsAreCosts DEF Hop, Hops, IInv, FetchTypeOK
  <2> QED BY <2>1, <2>2
<1>3. FetchTypeOK' /\ ResultsFollow' /\ VisitedFollow'
  BY <1>1, <1>2
  DEF IInv, FetchTypeOK, Places, ResultsFollow, VisitedFollow, Working, Seen, HopsOf
<1>4. OutcomeFollows' /\ CancelFollows' /\ NoHopTwice' /\ OutcomeIsDurable'
  BY <1>1 DEF IInv, OutcomeFollows, CancelFollows, NoHopTwice, OutcomeIsDurable, Finished, HopsOf
<1> QED BY <1>3, <1>4 DEF IInv

LEMMA CheckpointKeeps == ASSUME IInv, Checkpoint PROVE IInv'
<1>1. /\ pc = "checkpoint" /\ pc' = "examine" /\ status = "running" /\ discovery = finds
      /\ Seen(hops) \subseteq visited
      /\ hops' = Append(hops, Last(results))
      /\ granted' = granted \cup (IF Last(results).source = "none" THEN {} ELSE {Last(results)})
      /\ UNCHANGED <<status, cancel, finds, outcome, results, discovery, current, visited>>
  BY DEF Checkpoint, IInv, ResultsFollow, VisitedFollow, Working
<1>2. PICK hop \in Hops : results = Append(hops, hop) /\ hop.requested \notin Seen(hops)
  BY <1>1 DEF IInv, ResultsFollow
<1>3. hops \in Seq(Hops) /\ Len(hops) \in Nat
  BY DEF IInv, FetchTypeOK
<1>4. Last(results) = hop
  BY <1>2, <1>3 DEF Last
<1>5. /\ hops' = results /\ hops' \in Seq(Hops) /\ Len(hops') = Len(hops) + 1
      /\ hops'[Len(hops) + 1] = hop /\ \A i \in 1..Len(hops) : hops'[i] = hops[i]
  BY <1>1, <1>2, <1>3, <1>4
<1>6. \A i \in 1..Len(hops) : hops[i].requested \in Seen(hops) /\ hops[i].final \in Seen(hops)
  BY <1>3, SeenIsByIndex
<1>7. FetchTypeOK' /\ ResultsFollow' /\ VisitedFollow'
  <2>1. \A i \in 1..Len(hops') - 1 : {hops'[i].requested, hops'[i].final} \subseteq visited'
    BY <1>1, <1>3, <1>5, <1>6
  <2> QED BY <1>1, <1>5, <2>1
       DEF IInv, FetchTypeOK, Places, ResultsFollow, VisitedFollow, Working
<1>8. NoHopTwice'
  <2> SUFFICES ASSUME NEW i \in 1..Len(hops'), NEW j \in 1..Len(hops'), i < j
               PROVE  hops'[j].requested \notin {hops'[i].requested, hops'[i].final}
    BY <1>5 DEF NoHopTwice
  <2>1. CASE j = Len(hops) + 1
    BY <2>1, <1>2, <1>3, <1>5, <1>6
  <2>2. CASE j # Len(hops) + 1
    <3>1. i \in DOMAIN hops /\ j \in DOMAIN hops
      BY <2>2, <1>3, <1>5
    <3> QED BY <3>1, <1>3, <1>5 DEF IInv, NoHopTwice
  <2> QED BY <2>1, <2>2
<1>9. OutcomeFollows' /\ OutcomeIsDurable'
  <2>1. outcome' = None
    BY <1>1 DEF IInv, OutcomeFollows, Finished
  <2>2. \A i \in 1..Len(hops') : hops'[i].source # "none" => hops'[i] \in granted'
    BY <1>1, <1>3, <1>4, <1>5 DEF IInv, OutcomeFollows
  <2> QED BY <2>1, <2>2 DEF OutcomeFollows, OutcomeIsDurable
<1>10. CancelFollows'
  BY <1>1, <1>3, <1>5 DEF IInv, FetchTypeOK, CancelFollows
<1> QED BY <1>7, <1>8, <1>9, <1>10 DEF IInv

\* The page under examination is the last hop; what it ends at becomes the current URL.
LEMMA ExamineKeeps == ASSUME IInv, Examine PROVE IInv'
<1>1. /\ pc = "examine" /\ results = hops /\ discovery = finds /\ hops # <<>> /\ hops \in Seq(Hops)
      /\ UNCHANGED <<status, cancel, hops, finds, outcome, granted, results, visited>>
  BY DEF Examine, durable, IInv, FetchTypeOK, ResultsFollow, VisitedFollow, Working
<1>2. Last(hops) = hops[Len(hops)] /\ Last(hops) \in Hops
  BY <1>1, LastHop
<1>3. \/ pc' = "finish" /\ current' \in {current, Last(hops).final} /\ UNCHANGED <<discovery, evidence>>
      \/ /\ current' = Last(hops).final
         /\ \E find \in Finds :
              /\ evidence' = find
              /\ \/ pc' = "decide" /\ UNCHANGED discovery
                 \/ pc' = "save" /\ discovery' = Append(discovery, find)
  <2> DEFINE hop == Last(hops)
  <2>1. CASE hop.source = "none"
    BY <1>1, <2>1 DEF Examine, Halt
  <2>2. CASE /\ hop.source # "none"
             /\ (hop.source = "file" \/ ~Follow \/ DiscoveryExhausted(hop.final, results, discovery))
    BY <1>1, <2>2 DEF Examine, Halt
  <2>3. CASE /\ hop.source # "none" /\ hop.source # "file" /\ Follow
             /\ ~DiscoveryExhausted(hop.final, results, discovery)
    <3>1. PICK links \in {"failed", hop.links}, spent \in 1..Second :
            LET find == [source |-> hop.final, links |-> links, runtime |-> spent]
                new == discovery = <<>> \/ Last(discovery) # find
            IN /\ evidence' = find
               /\ discovery' = IF new THEN Append(discovery, find) ELSE discovery
               /\ pc' = IF new THEN "save" ELSE "decide"
      BY <1>1, <2>3 DEF Examine
    <3>2. current' = hop.final
      BY <1>1, <2>3 DEF Examine
    <3>3. [source |-> hop.final, links |-> links, runtime |-> spent] \in Finds
      BY <1>2 DEF Finds, Hops, Links
    <3> QED BY <3>1, <3>2, <3>3
  <2> QED BY <2>1, <2>2, <2>3
<1>4. current' \in Urls
  BY <1>2, <1>3 DEF Hops, IInv, FetchTypeOK
<1>5. discovery' \in Seq(Finds)
  <2>1. discovery \in Seq(Finds)
    BY DEF IInv, FetchTypeOK
  <2>2. \A find \in Finds : Append(discovery, find) \in Seq(Finds)
    BY <2>1
  <2> QED BY <2>1, <2>2, <1>3
<1>6. FetchTypeOK' /\ ResultsFollow' /\ VisitedFollow'
  BY <1>1, <1>2, <1>3, <1>4, <1>5
  DEF IInv, FetchTypeOK, Places, ResultsFollow, VisitedFollow, Working
<1>7. OutcomeFollows' /\ CancelFollows' /\ NoHopTwice' /\ OutcomeIsDurable'
  BY <1>1, <1>3
  DEF IInv, OutcomeFollows, CancelFollows, NoHopTwice, OutcomeIsDurable, Finished, HopsOf
<1> QED BY <1>6, <1>7 DEF IInv

LEMMA SaveKeeps == ASSUME IInv, Save PROVE IInv'
<1>1. /\ pc = "save" /\ pc' = "decide" /\ status = "running" /\ finds' = Append(finds, Last(discovery))
      /\ UNCHANGED <<status, cancel, hops, outcome, granted, results, discovery, current, visited,
                     evidence>>
  BY DEF Save
<1>2. PICK find \in Finds : discovery = Append(finds, find)
  BY <1>1 DEF IInv, ResultsFollow
<1>3. finds \in Seq(Finds)
  BY DEF IInv, FetchTypeOK
<1>4. Last(discovery) = find
  BY <1>2, <1>3 DEF Last
<1>5. finds' = discovery /\ finds' \in Seq(Finds) /\ outcome' = None
  BY <1>1, <1>2, <1>3, <1>4 DEF IInv, OutcomeFollows, Finished
<1>6. FetchTypeOK' /\ ResultsFollow' /\ VisitedFollow'
  BY <1>1, <1>5
  DEF IInv, FetchTypeOK, Places, ResultsFollow, VisitedFollow, Working
<1>7. OutcomeFollows' /\ CancelFollows' /\ NoHopTwice' /\ OutcomeIsDurable'
  BY <1>1, <1>5
  DEF IInv, OutcomeFollows, CancelFollows, NoHopTwice, OutcomeIsDurable, Finished
<1> QED BY <1>6, <1>7 DEF IInv

\* The requested and the final URL of the page are visited when the thread leaves it.
LEMMA DecideKeeps == ASSUME IInv, Decide PROVE IInv'
<1> DEFINE verdict == Verdict(evidence, visited \cup {current}, results)
<1>1. /\ pc = "decide" /\ results = hops /\ discovery = finds /\ hops # <<>> /\ hops \in Seq(Hops)
      /\ evidence \in Finds /\ current = hops[Len(hops)].final
      /\ UNCHANGED <<status, cancel, hops, finds, outcome, granted, results, discovery, evidence>>
  BY DEF Decide, durable, IInv, FetchTypeOK, ResultsFollow, VisitedFollow, Working
<1>2. \/ pc' = "finish" /\ UNCHANGED <<current, visited>>
      \/ /\ verdict = None /\ pc' = "loop" /\ current' = evidence.links
         /\ visited' = visited \cup {Last(results).requested, current}
  BY DEF Decide, Halt
<1>3. verdict = None => evidence.links \in Urls
  BY <1>1, VerdictAdmitsUrls
<1>4. Len(hops) \in 1..Len(hops) /\ Last(results) = hops[Len(hops)]
  BY <1>1, LastHop
<1>5. ASSUME pc' = "loop" PROVE Seen(hops) \subseteq visited'
  <2> SUFFICES ASSUME NEW i \in 1..Len(hops)
               PROVE  hops[i].requested \in visited' /\ hops[i].final \in visited'
    BY <1>1, SeenIsByIndex
  <2>1. CASE i = Len(hops)
    BY <2>1, <1>1, <1>2, <1>4, <1>5
  <2>2. CASE i # Len(hops)
    <3>1. i \in 1..Len(hops) - 1
      BY <2>2, <1>4
    <3>2. hops[i].requested \in visited /\ hops[i].final \in visited
      BY <3>1, <1>1 DEF IInv, VisitedFollow
    <3> QED BY <3>2, <1>2, <1>5
  <2> QED BY <2>1, <2>2
<1>6. current' \in Urls
  BY <1>2, <1>3 DEF IInv, FetchTypeOK
<1> HIDE DEF verdict
<1>7. FetchTypeOK' /\ ResultsFollow' /\ VisitedFollow'
  BY <1>1, <1>2, <1>5, <1>6
  DEF IInv, FetchTypeOK, Places, ResultsFollow, VisitedFollow, Working, Seen, HopsOf
<1>8. OutcomeFollows' /\ CancelFollows' /\ NoHopTwice' /\ OutcomeIsDurable'
  BY <1>1, <1>2
  DEF IInv, OutcomeFollows, CancelFollows, NoHopTwice, OutcomeIsDurable, Finished, HopsOf
<1> QED BY <1>7, <1>8 DEF IInv

LEMMA FinishKeeps == ASSUME IInv, Finish PROVE IInv'
<1>1. /\ pc = "finish" /\ pc' = "idle" /\ results = hops /\ discovery = finds
      /\ outcome' = [stop |-> stop, hops |-> hops, finds |-> finds]
      /\ UNCHANGED <<cancel, hops, finds, granted, results, discovery, current, visited>>
  BY DEF Finish, IInv, ResultsFollow, Working
<1>2. status' \in {"failed", "partial", "completed"}
  BY DEF Finish, FinalStatus, StatusOf
<1>3. FetchTypeOK' /\ ResultsFollow' /\ VisitedFollow'
  BY <1>1 DEF IInv, FetchTypeOK, Places, ResultsFollow, VisitedFollow, Working
<1>4. OutcomeFollows' /\ CancelFollows' /\ NoHopTwice' /\ OutcomeIsDurable'
  <2>1. OutcomeFollows'
    BY <1>1, <1>2 DEF IInv, OutcomeFollows, Finished
  <2>2. CancelFollows' /\ NoHopTwice'
    BY <1>1 DEF IInv, CancelFollows, NoHopTwice
  <2>3. OutcomeIsDurable'
    <3>1. DOMAIN hops = 1..Len(hops)
      BY DEF IInv, FetchTypeOK
    <3>2. \A hop \in HopsOf(hops) : hop.source # "none" => hop \in granted
      BY <3>1 DEF HopsOf, IInv, OutcomeFollows
    <3>3. outcome'.hops = hops /\ outcome'.finds = finds
      BY <1>1
    <3> QED BY <1>1, <3>2, <3>3 DEF OutcomeIsDurable, HopsOf
  <2> QED BY <2>1, <2>2, <2>3
<1> QED BY <1>3, <1>4 DEF IInv

\* Failures and crashes leave the durable rows alone, but for the status.
LEMMA StopsKeep ==
  ASSUME IInv, pc' \in {"idle", "fail", "lost"}, Finished => Finished',
         results' \in {results, <<>>}, discovery' \in {discovery, <<>>}, current' \in Urls,
         UNCHANGED <<cancel, hops, finds, outcome, granted>>
  PROVE  IInv'
<1>1. FetchTypeOK'
  <2>1. results' \in Seq(Hops) /\ discovery' \in Seq(Finds)
    <3>1. <<>> \in Seq(Hops) /\ <<>> \in Seq(Finds)
      OBVIOUS
    <3> QED BY <3>1 DEF IInv, FetchTypeOK
  <2> QED BY <2>1 DEF IInv, FetchTypeOK, Places
<1>2. ResultsFollow' /\ VisitedFollow'
  BY DEF ResultsFollow, VisitedFollow, Working
<1>3. OutcomeFollows' /\ CancelFollows' /\ NoHopTwice' /\ OutcomeIsDurable'
  BY DEF IInv, OutcomeFollows, CancelFollows, NoHopTwice, OutcomeIsDurable, HopsOf
<1> QED BY <1>1, <1>2, <1>3 DEF IInv

\* A request is dated by the hops then durable, also one that overwrites an earlier one.
LEMMA CancelKeeps == ASSUME IInv, NEW c \in Clients, Cancel(c) PROVE IInv'
<1>1. /\ cancel' \in {cancel, Len(hops)}
      /\ UNCHANGED <<status, hops, finds, outcome, granted, pc, results, discovery, current,
                     visited, evidence>>
  BY DEF Cancel, locals
<1>2. Len(hops) \in Nat
  BY DEF IInv, FetchTypeOK
<1>3. FetchTypeOK' /\ CancelFollows'
  BY <1>1, <1>2 DEF IInv, FetchTypeOK, CancelFollows
<1>4. ResultsFollow' /\ VisitedFollow' /\ OutcomeFollows' /\ NoHopTwice' /\ OutcomeIsDurable'
  BY <1>1 DEF IInv, ResultsFollow, VisitedFollow, OutcomeFollows, NoHopTwice, OutcomeIsDurable,
     Working, Seen, HopsOf, Finished
<1> QED BY <1>3, <1>4 DEF IInv

LEMMA Keeps == ASSUME IInv, [Next]_fetchVars PROVE IInv'
<1>1. current \in Urls
  BY DEF IInv, FetchTypeOK
<1>2. ASSUME Raise \/ Fail PROVE IInv'
  <2>1. Finished => Finished'
    BY <1>2 DEF Raise, Fail, durable, Finished
  <2>2. pc' \in {"idle", "fail", "lost"}
    BY <1>2 DEF Raise, Fail
  <2>3. UNCHANGED <<cancel, hops, finds, outcome, granted, results, discovery, current>>
    BY <1>2 DEF Raise, Fail, durable
  <2> QED BY <1>1, <2>1, <2>2, <2>3, StopsKeep
<1>3. CASE Restart
  BY <1>3, SeedIsAUrl, StopsKeep DEF Restart
<1>4. CASE UNCHANGED <<durable, locals>>
  BY <1>4 DEF durable, locals, IInv, FetchTypeOK, ResultsFollow, VisitedFollow, OutcomeFollows,
     CancelFollows, NoHopTwice, OutcomeIsDurable, Working, Seen, HopsOf, Finished
<1>5. ASSUME NEW c \in Clients, Ask(c) PROVE IInv'
  BY <1>4, <1>5 DEF Ask
<1> QED
  BY <1>2, <1>3, <1>4, <1>5, CancelKeeps, ClaimKeeps, ResumeKeeps, TopKeeps, AcquireKeeps,
     CheckpointKeeps, ExamineKeeps, SaveKeeps, DecideKeeps, FinishKeeps
  DEF Next, Thread, fetchVars

\* How a run's locals relate to the durable rows, at every place of every run.
THEOREM InductiveHolds == Spec => []IInv
  BY Begins, Keeps, PTL DEF Spec

\* No run acquires what a durable hop of any run asked for or ended at.
THEOREM HopsHold == Spec => []NoHopTwice
<1>1. IInv => NoHopTwice
  BY DEF IInv
<1> QED BY <1>1, InductiveHolds, PTL

\* A Result contains what all runs made durable, and its contents are readable.
THEOREM OutcomeHolds == Spec => []OutcomeIsDurable
<1>1. IInv => OutcomeIsDurable
  BY DEF IInv
<1> QED BY <1>1, InductiveHolds, PTL

\* After a request at most the hop under way becomes durable, whatever crashes.
THEOREM CancelHolds == Spec => []CancelStopsAtTheNextHop
<1>1. IInv => CancelStopsAtTheNextHop
  BY DEF IInv, CancelFollows, CancelStopsAtTheNextHop
<1> QED BY <1>1, InductiveHolds, PTL

-----------------------------------------------------------------------------
(* Sums *)

\* Induction for a set of numbers, from the least number outside it.
LEMMA SetInduction ==
  ASSUME NEW S, 0 \in S, \A n \in Nat : n \in S => n + 1 \in S
  PROVE  Nat \subseteq S
<1> SUFFICES ASSUME Nat \ S # {} PROVE FALSE
  OBVIOUS
<1> DEFINE R == OpToRel(<, Nat)
<1>1. \A i, j \in Nat : <<j, i>> \in R <=> j < i
  BY DEF OpToRel
<1>2. IsWellFoundedOn(R, Nat) /\ Nat \ S \subseteq Nat
  BY NatLessThanWellFounded
<1> HIDE DEF R
<1>3. PICK n \in Nat \ S : \A m \in Nat \ S : ~ (<<m, n>> \in R)
  BY <1>2, WFMin
<1>4. n # 0 /\ n - 1 \in Nat /\ n - 1 < n
  BY <1>3
<1>5. n - 1 \in S
  BY <1>1, <1>3, <1>4
<1>6. (n - 1) + 1 \in S
  BY <1>4, <1>5
<1> QED BY <1>3, <1>4, <1>6

\* f is the partial sums of the first n amounts.
AreSums(f, amounts, n) ==
  f = [i \in 0..n |-> IF i = 0 THEN 0 ELSE f[i - 1] + amounts[i]]

Sums(amounts) == CHOOSE total : AreSums(total, amounts, Len(amounts))

LEMMA TotalIsLastSum == \A amounts : Total(amounts) = Sums(amounts)[Len(amounts)]
  BY DEF Total, Sums, AreSums

\* The partial sums of amounts exist ...
LEMMA SumsExist ==
  ASSUME NEW amounts \in Seq(Nat)
  PROVE  \A n \in 0..Len(amounts) : \E f \in [0..n -> Nat] : AreSums(f, amounts, n)
<1> DEFINE S == {n \in Nat : n <= Len(amounts) => \E f \in [0..n -> Nat] : AreSums(f, amounts, n)}
<1>1. 0 \in S
  <2> DEFINE f == [i \in 0..0 |-> 0]
  <2>1. f \in [0..0 -> Nat] /\ AreSums(f, amounts, 0)
    BY DEF AreSums
  <2> QED BY <2>1
<1>2. ASSUME NEW n \in Nat, n \in S PROVE n + 1 \in S
  <2> SUFFICES ASSUME n + 1 <= Len(amounts)
               PROVE  \E f \in [0..n + 1 -> Nat] : AreSums(f, amounts, n + 1)
    OBVIOUS
  <2>1. n <= Len(amounts) /\ amounts[n + 1] \in Nat
    OBVIOUS
  <2>2. PICK g \in [0..n -> Nat] : AreSums(g, amounts, n)
    BY <1>2, <2>1
  <2> DEFINE f == [i \in 0..n + 1 |-> IF i <= n THEN g[i] ELSE g[n] + amounts[n + 1]]
  <2>3. f \in [0..n + 1 -> Nat] /\ \A i \in 0..n : f[i] = g[i]
    BY <2>1
  <2>4. f[n + 1] = f[n] + amounts[n + 1]
    BY <2>3
  <2>5. \A i \in 0..n : g[i] = IF i = 0 THEN 0 ELSE g[i - 1] + amounts[i]
    BY <2>2 DEF AreSums
  <2>6. \A i \in 0..n + 1 : f[i] = IF i = 0 THEN 0 ELSE f[i - 1] + amounts[i]
    <3> SUFFICES ASSUME NEW i \in 0..n + 1
                 PROVE  f[i] = IF i = 0 THEN 0 ELSE f[i - 1] + amounts[i]
      OBVIOUS
    <3>1. CASE i = n + 1
      BY <3>1, <2>4
    <3>2. CASE i = 0
      BY <3>2, <2>3, <2>5
    <3>3. CASE i \in 1..n
      <4>1. i \in 0..n /\ i - 1 \in 0..n /\ i # 0
        BY <3>3
      <4> QED BY <4>1, <2>3, <2>5
    <3> QED BY <3>1, <3>2, <3>3
  <2>7. f = [i \in 0..n + 1 |-> f[i]]
    OBVIOUS
  <2> HIDE DEF f
  <2>8. AreSums(f, amounts, n + 1)
    BY <2>6, <2>7 DEF AreSums
  <2> QED BY <2>3, <2>8
<1> HIDE DEF S
<1>3. Nat \subseteq S
  BY <1>1, <1>2, SetInduction
<1> QED BY <1>3 DEF S

\* ... and depend on nothing else.
LEMMA SumsAgree ==
  ASSUME NEW a \in Seq(Nat), NEW b \in Seq(Nat), NEW f, NEW g,
         AreSums(f, a, Len(a)), AreSums(g, b, Len(b)),
         Len(a) <= Len(b), \A i \in 1..Len(a) : a[i] = b[i]
  PROVE  f[Len(a)] = g[Len(a)]
<1> DEFINE m == Len(a)
           n == Len(b)
<1> m \in Nat /\ n \in Nat /\ m <= n
  OBVIOUS
<1> DEFINE S == {i \in Nat : i <= m => f[i] = g[i]}
<1>1. /\ \A i \in 0..m : f[i] = IF i = 0 THEN 0 ELSE f[i - 1] + a[i]
      /\ \A i \in 0..n : g[i] = IF i = 0 THEN 0 ELSE g[i - 1] + b[i]
  BY DEF AreSums
<1>2. 0 \in S
  BY <1>1
<1>3. ASSUME NEW i \in Nat, i \in S PROVE i + 1 \in S
  <2> SUFFICES ASSUME i + 1 <= m PROVE f[i + 1] = g[i + 1]
    OBVIOUS
  <2>1. i + 1 \in 0..m /\ i + 1 \in 0..n /\ i + 1 \in 1..m /\ i + 1 # 0 /\ (i + 1) - 1 = i
    OBVIOUS
  <2>2. f[i] = g[i]
    BY <1>3
  <2>3. f[i + 1] = f[i] + a[i + 1] /\ g[i + 1] = g[i] + b[i + 1]
    BY <1>1, <2>1
  <2> QED BY <2>1, <2>2, <2>3
<1> HIDE DEF S
<1>4. Nat \subseteq S
  BY <1>2, <1>3, SetInduction
<1> QED BY <1>4 DEF S

LEMMA TotalIsSum ==
  ASSUME NEW amounts \in Seq(Nat)
  PROVE  \E f \in [0..Len(amounts) -> Nat] :
           AreSums(f, amounts, Len(amounts)) /\ Total(amounts) = f[Len(amounts)]
<1>1. Len(amounts) \in 0..Len(amounts)
  OBVIOUS
<1>2. PICK f \in [0..Len(amounts) -> Nat] : AreSums(f, amounts, Len(amounts))
  BY <1>1, SumsExist
<1>3. AreSums(Sums(amounts), amounts, Len(amounts))
  BY <1>2 DEF Sums
<1>4. Sums(amounts)[Len(amounts)] = f[Len(amounts)]
  BY <1>1, <1>2, <1>3, SumsAgree
<1> QED BY <1>2, <1>4, TotalIsLastSum

\* A sum grows by what is appended.
LEMMA TotalAppend ==
  ASSUME NEW amounts \in Seq(Nat), NEW amount \in Nat
  PROVE  /\ Total(amounts) \in Nat
         /\ Total(Append(amounts, amount)) = Total(amounts) + amount
<1> DEFINE more == Append(amounts, amount)
<1>1. /\ more \in Seq(Nat) /\ Len(more) = Len(amounts) + 1 /\ Len(amounts) \in Nat
      /\ more[Len(amounts) + 1] = amount /\ \A i \in 1..Len(amounts) : amounts[i] = more[i]
  OBVIOUS
<1> HIDE DEF more
<1>2. PICK f \in [0..Len(amounts) -> Nat] :
        AreSums(f, amounts, Len(amounts)) /\ Total(amounts) = f[Len(amounts)]
  BY TotalIsSum
<1>3. PICK g \in [0..Len(more) -> Nat] : AreSums(g, more, Len(more)) /\ Total(more) = g[Len(more)]
  BY <1>1, TotalIsSum
<1>4. f[Len(amounts)] = g[Len(amounts)]
  <2>1. Len(more) \in Nat /\ Len(amounts) \in Nat /\ Len(amounts) <= Len(more)
    BY <1>1
  <2>2. AreSums(f, amounts, Len(amounts)) /\ AreSums(g, more, Len(more))
    BY <1>2, <1>3
  <2>3. \A i \in 1..Len(amounts) : amounts[i] = more[i]
    BY <1>1
  <2> QED BY <2>1, <2>2, <2>3, SumsAgree
<1>5. g[Len(more)] = g[Len(amounts)] + amount
  <2>1. \A i \in 0..Len(more) : g[i] = IF i = 0 THEN 0 ELSE g[i - 1] + more[i]
    BY <1>3 DEF AreSums
  <2>2. Len(more) \in 0..Len(more) /\ Len(more) # 0 /\ Len(more) - 1 = Len(amounts)
    BY <1>1
  <2> QED BY <1>1, <2>1, <2>2
<1>6. Total(amounts) \in Nat
  BY <1>2
<1>7. Total(more) = Total(amounts) + amount
  BY <1>1, <1>2, <1>3, <1>4, <1>5
<1> QED BY <1>6, <1>7 DEF more

LEMMA RequestsAppend ==
  ASSUME NEW rs \in Seq(Hops), NEW hop \in Hops
  PROVE  /\ Requests(rs) \in Nat
         /\ Requests(Append(rs, hop)) = Requests(rs) + hop.requests
<1> DEFINE amounts == [i \in DOMAIN rs |-> rs[i].requests]
           more == [i \in DOMAIN Append(rs, hop) |-> Append(rs, hop)[i].requests]
<1>1. DOMAIN rs = 1..Len(rs) /\ Len(rs) \in Nat /\ \A i \in 1..Len(rs) : rs[i] \in Hops
  OBVIOUS
<1>2. hop.requests \in Nat /\ \A i \in 1..Len(rs) : rs[i].requests \in Nat
  BY <1>1 DEF Hops
<1>3. amounts \in Seq(Nat) /\ Len(amounts) = Len(rs)
  BY <1>1, <1>2
<1>4. more = Append(amounts, hop.requests)
  <2>1. DOMAIN Append(rs, hop) = 1..Len(rs) + 1
    BY <1>1
  <2>2. \A i \in 1..Len(rs) + 1 :
          Append(rs, hop)[i].requests = IF i <= Len(rs) THEN rs[i].requests ELSE hop.requests
    BY <1>1
  <2>3. more = [i \in 1..Len(rs) + 1 |-> IF i <= Len(rs) THEN rs[i].requests ELSE hop.requests]
    BY <2>1, <2>2
  <2>4. Append(amounts, hop.requests)
          = [i \in 1..Len(rs) + 1 |-> IF i <= Len(rs) THEN rs[i].requests ELSE hop.requests]
    BY <1>1, <1>2, <1>3
  <2> QED BY <2>3, <2>4
<1>5. Requests(rs) = Total(amounts) /\ Requests(Append(rs, hop)) = Total(more)
  BY DEF Requests
<1> HIDE DEF amounts, more
<1> QED BY <1>2, <1>3, <1>4, <1>5, TotalAppend

LEMMA FindsAppend ==
  ASSUME NEW ds \in Seq(Finds), NEW find \in Finds, NEW url \in Urls
  PROVE  /\ Cardinality(FindsOn(url, ds)) \in Nat
         /\ Cardinality(FindsOn(url, Append(ds, find)))
              = Cardinality(FindsOn(url, ds)) + (IF find.source = url THEN 1 ELSE 0)
<1> DEFINE more == Append(ds, find)
<1>1. /\ Len(ds) \in Nat /\ DOMAIN ds = 1..Len(ds) /\ DOMAIN more = 1..Len(ds) + 1
      /\ more[Len(ds) + 1] = find /\ \A i \in 1..Len(ds) : more[i] = ds[i]
  OBVIOUS
<1> HIDE DEF more
<1>2. IsFiniteSet(FindsOn(url, ds)) /\ FindsOn(url, ds) \subseteq 1..Len(ds)
  <2>1. FindsOn(url, ds) \subseteq 1..Len(ds)
    BY <1>1 DEF FindsOn
  <2>2. IsFiniteSet(1..Len(ds))
    BY <1>1, FS_Interval
  <2> QED BY <2>1, <2>2, FS_Subset
<1>3. CASE find.source = url
  <2>1. FindsOn(url, more) = FindsOn(url, ds) \cup {Len(ds) + 1}
    BY <1>1, <1>3 DEF FindsOn
  <2>2. Len(ds) + 1 \notin FindsOn(url, ds)
    BY <1>1, <1>2
  <2> QED BY <1>2, <1>3, <2>1, <2>2, FS_AddElement, FS_CardinalityType DEF more
<1>4. CASE find.source # url
  <2>1. FindsOn(url, more) = FindsOn(url, ds)
    BY <1>1, <1>4 DEF FindsOn
  <2> QED BY <1>2, <1>4, <2>1, FS_CardinalityType DEF more
<1> QED BY <1>3, <1>4

-----------------------------------------------------------------------------
(* The budget *)

\* On each page one attempt at least is left to its acquisition.
AttemptsLimited(ds) == \A url \in Urls : Cardinality(FindsOn(url, ds)) < MaxAttempts

\* Hops that overspend the requests together end with one that has no source.
OverspentLast(rs) == Requests(rs) > MaxRequests => Last(rs).source = "none"

\* The durable rows, and what is on its way to them, are in the budget; the thread goes on
\* to a new page, and begins a hop or a discovery, only while it has the means.
BudgetFollows ==
  /\ AttemptsLimited(finds) /\ (pc = "save" => AttemptsLimited(discovery))
  /\ OverspentLast(hops) /\ (pc = "checkpoint" => OverspentLast(results))
  /\ Requests(hops) > MaxRequests /\ Finished => status = "failed"
  /\ Len(hops) <= MaxHops + 1
  /\ pc \in {"acquire", "checkpoint"} => Len(hops) <= MaxHops /\ ~ Exhausted(hops, finds)
  /\ pc = "loop" /\ stop = None /\ hops # <<>> /\ current \notin visited => Len(hops) <= MaxHops
  /\ pc = "save" => ~ (Runtime(hops, finds) >= MaxRuntime)

LEMMA BudgetBegins == Init => BudgetFollows
<1> SUFFICES ASSUME Init PROVE BudgetFollows
  OBVIOUS
<1>1. hops = <<>> /\ finds = <<>> /\ pc = "idle"
  BY DEF Init
<1>2. Requests(<<>>) = 0
  <2>1. PICK none \in Seq(Nat) : none = <<>> /\ Len(none) = 0
    <3>1. <<>> \in Seq(Nat) /\ Len(<<>>) = 0
      OBVIOUS
    <3> QED BY <3>1
  <2>2. PICK f \in [0..Len(none) -> Nat] : AreSums(f, none, Len(none)) /\ Total(none) = f[Len(none)]
    BY TotalIsSum
  <2>3. f[0] = 0
    BY <2>1, <2>2 DEF AreSums
  <2>4. Requests(<<>>) = Total(<<>>)
    BY DEF Requests
  <2> QED BY <2>1, <2>2, <2>3, <2>4
<1>3. \A url \in Urls : Cardinality(FindsOn(url, <<>>)) = 0
  <2>1. \A url \in Urls : FindsOn(url, <<>>) = {}
    BY DEF FindsOn
  <2> QED BY <2>1, FS_EmptySet
<1>4. 0 < MaxAttempts /\ 0 <= MaxHops + 1 /\ ~ (0 > MaxRequests) /\ Len(<<>>) = 0
  BY LimitsAreLimits
<1> QED BY <1>1, <1>2, <1>3, <1>4 DEF BudgetFollows, AttemptsLimited, OverspentLast

\* Steps that leave the rows alone and neither begin nor end an acquisition or discovery.
LEMMA BudgetStays ==
  ASSUME BudgetFollows, UNCHANGED <<hops, finds>>,
         status' \in {status, "submitted", "running", "failed"},
         pc' \in {"idle", "resume", "examine", "decide", "finish", "fail", "lost"}
  PROVE  BudgetFollows'
<1>1. pc' \notin {"checkpoint", "save", "acquire", "loop"}
  OBVIOUS
<1>2. Requests(hops) > MaxRequests /\ Finished' => status' = "failed"
  BY DEF BudgetFollows, Finished
<1> QED BY <1>1, <1>2 DEF BudgetFollows

\* A run that goes on from durable evidence has a hop left.
LEMMA ResumeBudget == ASSUME IInv, BudgetFollows, Resume PROVE BudgetFollows'
<1> DEFINE page == IF hops = <<>> THEN Seed ELSE Last(hops).final
           known == /\ hops # <<>> /\ finds # <<>>
                    /\ Last(hops).source = "html" /\ Last(finds).source = page
           verdict == IF known THEN Verdict(Last(finds), Seen(hops), hops) ELSE None
<1>1. /\ pc' = "loop" /\ UNCHANGED <<status, hops, finds>> /\ visited' = Seen(hops)
      /\ stop' = verdict
      /\ current' = IF known /\ verdict = None THEN Last(finds).links ELSE page
  BY DEF Resume, durable
<1>2. hops \in Seq(Hops) /\ finds \in Seq(Finds)
  BY DEF IInv, FetchTypeOK
<1>3. ASSUME verdict = None, hops # <<>>, current' \notin visited' PROVE Len(hops) <= MaxHops
  <2>1. page \in Seen(hops)
    BY <1>2, <1>3, LastHop
  <2>2. known /\ current' = Last(finds).links
    BY <1>1, <1>3, <2>1
  <2>3. Last(finds) \in Finds
    BY <1>2, <2>2 DEF Last
  <2>4. Verdict(Last(finds), Seen(hops), hops) = None
    BY <1>3, <2>2
  <2> HIDE DEF page, known, verdict
  <2>5. Last(finds).links \in Urls /\ Last(finds).links \notin Seen(hops)
    BY <1>1, <1>3, <2>2, <2>3, <2>4, VerdictAdmitsUrls
  <2> QED BY <2>3, <2>4, <2>5, VerdictLeavesAHop, <1>2
<1> HIDE DEF page, known, verdict
<1> QED BY <1>1, <1>3 DEF BudgetFollows, Finished

LEMMA TopBudget == ASSUME IInv, BudgetFollows, Top PROVE BudgetFollows'
<1>1. /\ pc = "loop" /\ results = hops /\ discovery = finds
      /\ UNCHANGED <<status, hops, finds, results, discovery, current, visited>>
  BY DEF Top, durable, IInv, ResultsFollow, Working
<1>2. \/ pc' = "finish"
      \/ pc' = "examine"
      \/ /\ pc' = "acquire" /\ stop = None /\ (hops = <<>> \/ current \notin visited)
         /\ ~ Exhausted(hops, finds)
  BY <1>1 DEF Top, Halt
<1>3. CASE pc' = "acquire"
  <2>1. Len(hops) <= MaxHops
    <3>1. CASE hops = <<>>
      BY <3>1, LimitsAreLimits
    <3>2. CASE hops # <<>>
      BY <1>1, <1>2, <1>3, <3>2 DEF BudgetFollows
    <3> QED BY <3>1, <3>2
  <2> QED BY <1>1, <1>2, <1>3, <2>1 DEF BudgetFollows, Finished
<1> QED BY <1>1, <1>2, <1>3, BudgetStays

\* A hop that spends more than the earlier ones left has no source.
LEMMA AcquireBudget == ASSUME IInv, BudgetFollows, Acquire PROVE BudgetFollows'
<1>1. /\ pc = "acquire" /\ pc' = "checkpoint" /\ results = hops /\ discovery = finds
      /\ UNCHANGED <<status, hops, finds, discovery, current>> /\ hops \in Seq(Hops)
  BY DEF Acquire, durable, IInv, ResultsFollow, Working, FetchTypeOK
<1>2. PICK answer \in Answers, cost \in Costs :
        /\ cost.requests > MaxRequests - Requests(hops) => answer.source = "none"
        /\ results' = Append(hops, Hop(answer, cost))
  BY <1>1 DEF Acquire
<1>3. /\ Hop(answer, cost) \in Hops /\ Hop(answer, cost).requests = cost.requests
      /\ Hop(answer, cost).source = answer.source /\ cost.requests \in Nat
  BY AnswersAreAnswers, CostsAreCosts DEF Hop, Hops, IInv, FetchTypeOK
<1>4. OverspentLast(results')
  <2>1. Requests(results') = Requests(hops) + cost.requests /\ Requests(hops) \in Nat
    BY <1>1, <1>2, <1>3, RequestsAppend
  <2>2. Last(results').source = answer.source
    BY <1>1, <1>2, <1>3 DEF Last
  <2> QED BY <1>2, <1>3, <2>1, <2>2, LimitsAreLimits DEF OverspentLast
<1> QED BY <1>1, <1>4 DEF BudgetFollows, Finished

LEMMA CheckpointBudget == ASSUME IInv, BudgetFollows, Checkpoint PROVE BudgetFollows'
<1>1. /\ pc = "checkpoint" /\ pc' = "examine" /\ discovery = finds
      /\ status = "running" /\ hops' = Append(hops, Last(results)) /\ UNCHANGED <<status, finds>>
  BY DEF Checkpoint, IInv, ResultsFollow, Working
<1>2. PICK hop \in Hops : results = Append(hops, hop)
  BY <1>1 DEF IInv, ResultsFollow
<1>3. hops \in Seq(Hops)
  BY DEF IInv, FetchTypeOK
<1>4. hops' = results /\ Len(hops') = Len(hops) + 1 /\ Len(hops) \in Nat
  BY <1>1, <1>2, <1>3 DEF Last
<1>5. OverspentLast(hops') /\ ~ Finished'
  BY <1>1, <1>4 DEF BudgetFollows, Finished
<1> QED BY <1>1, <1>4, <1>5, LimitsAreLimits DEF BudgetFollows

\* Discovery begins on a page only while it has an attempt left besides its acquisition.
LEMMA ExamineBudget == ASSUME IInv, BudgetFollows, Examine PROVE BudgetFollows'
<1> DEFINE hop == Last(hops)
<1>1. /\ pc = "examine" /\ results = hops /\ discovery = finds /\ hops # <<>> /\ hops \in Seq(Hops)
      /\ finds \in Seq(Finds) /\ UNCHANGED <<status, hops, finds, results>>
  BY DEF Examine, durable, IInv, FetchTypeOK, ResultsFollow, VisitedFollow, Working
<1>2. hop \in Hops
  BY <1>1, LastHop
<1>3. \/ pc' \in {"finish", "decide"}
      \/ /\ pc' = "save" /\ ~ DiscoveryExhausted(hop.final, hops, finds)
         /\ \E find \in Finds : find.source = hop.final /\ discovery' = Append(finds, find)
  <2>1. CASE /\ hop.source \notin {"none", "file"} /\ Follow
             /\ ~DiscoveryExhausted(hop.final, hops, finds)
    <3>1. PICK links \in {"failed", hop.links}, spent \in 1..Second :
            LET find == [source |-> hop.final, links |-> links, runtime |-> spent]
                new == discovery = <<>> \/ Last(discovery) # find
            IN /\ evidence' = find
               /\ discovery' = IF new THEN Append(discovery, find) ELSE discovery
               /\ pc' = IF new THEN "save" ELSE "decide"
      BY <1>1, <2>1 DEF Examine
    <3> DEFINE find == [source |-> hop.final, links |-> links, runtime |-> spent]
    <3>2. find \in Finds /\ find.source = hop.final
      BY <1>2 DEF Finds, Hops, Links
    <3>3. pc' = "decide" \/ (pc' = "save" /\ discovery' = Append(finds, find))
      BY <1>1, <3>1
    <3> HIDE DEF find
    <3> QED BY <2>1, <3>2, <3>3
  <2>2. CASE \/ hop.source \in {"none", "file"} \/ ~Follow
             \/ DiscoveryExhausted(hop.final, hops, finds)
    BY <1>1, <2>2 DEF Examine, Halt
  <2> QED BY <2>1, <2>2
<1> HIDE DEF hop
<1>4. CASE pc' = "save"
  <2>1. PICK find \in Finds : find.source = hop.final /\ discovery' = Append(finds, find)
    BY <1>3, <1>4
  <2>2. ~ (AttemptsOn(hop.final, hop, finds) >= MaxAttempts)
    BY <1>3, <1>4 DEF DiscoveryExhausted, hop
  <2>3. \A url \in Urls : Cardinality(FindsOn(url, discovery')) < MaxAttempts
    <3> SUFFICES ASSUME NEW url \in Urls PROVE Cardinality(FindsOn(url, discovery')) < MaxAttempts
      OBVIOUS
    <3>1. /\ Cardinality(FindsOn(url, finds)) \in Nat
          /\ Cardinality(FindsOn(url, discovery'))
               = Cardinality(FindsOn(url, finds)) + (IF hop.final = url THEN 1 ELSE 0)
      BY <1>1, <2>1, FindsAppend
    <3>2. Cardinality(FindsOn(url, finds)) < MaxAttempts
      BY DEF BudgetFollows, AttemptsLimited
    <3>3. hop.attempts \in Nat \ {0}
      BY <1>2, LimitsAreLimits DEF Hops
    <3>4. hop.final = url => hop.attempts + Cardinality(FindsOn(url, finds)) < MaxAttempts
      BY <2>2, <3>1, <3>3, LimitsAreLimits DEF AttemptsOn
    <3> QED BY <3>1, <3>2, <3>3, <3>4, LimitsAreLimits
  <2>4. ~ (Runtime(hops, finds) >= MaxRuntime)
    BY <1>3, <1>4 DEF DiscoveryExhausted
  <2> QED BY <1>1, <1>4, <2>3, <2>4 DEF BudgetFollows, AttemptsLimited, Finished
<1> QED BY <1>1, <1>3, <1>4, BudgetStays

LEMMA SaveBudget == ASSUME IInv, BudgetFollows, Save PROVE BudgetFollows'
<1>1. /\ pc = "save" /\ pc' = "decide" /\ finds' = Append(finds, Last(discovery))
      /\ UNCHANGED <<status, hops>>
  BY DEF Save
<1>2. PICK find \in Finds : discovery = Append(finds, find)
  BY <1>1 DEF IInv, ResultsFollow
<1>3. finds' = discovery
  BY <1>1, <1>2 DEF Last, IInv, FetchTypeOK
<1> QED BY <1>1, <1>3 DEF BudgetFollows, Finished

\* Only a page that was not visited is gone on to, and only with a hop left.
LEMMA DecideBudget == ASSUME IInv, BudgetFollows, Decide PROVE BudgetFollows'
<1> DEFINE seen == visited \cup {current}
<1>1. /\ pc = "decide" /\ results = hops /\ evidence \in Finds /\ hops \in Seq(Hops)
      /\ UNCHANGED <<status, hops, finds>>
  BY DEF Decide, durable, IInv, FetchTypeOK, ResultsFollow, VisitedFollow, Working
<1>2. \/ pc' = "finish"
      \/ pc' = "loop" /\ Verdict(evidence, seen, hops) = None
  BY <1>1 DEF Decide, Halt
<1> HIDE DEF seen
<1>3. CASE pc' = "loop"
  <2>1. Len(hops) <= MaxHops
    BY <1>1, <1>2, <1>3, VerdictLeavesAHop
  <2> QED BY <1>1, <1>3, <2>1 DEF BudgetFollows, Finished
<1> QED BY <1>1, <1>2, <1>3, BudgetStays

\* A fetch that overspent ends as a failure: its last hop has no source.
LEMMA FinishBudget == ASSUME IInv, BudgetFollows, Finish PROVE BudgetFollows'
<1>1. /\ pc = "finish" /\ pc' = "idle" /\ results = hops
      /\ UNCHANGED <<hops, finds>> /\ status' = FinalStatus
  BY DEF Finish, IInv, ResultsFollow, Working
<1>2. Requests(hops) > MaxRequests => status' = "failed"
  BY <1>1 DEF BudgetFollows, OverspentLast, FinalStatus, StatusOf
<1>3. pc' \notin {"checkpoint", "save", "acquire", "loop"}
  BY <1>1
<1> QED BY <1>1, <1>2, <1>3 DEF BudgetFollows

LEMMA BudgetKeeps == ASSUME IInv, BudgetFollows, [Next]_fetchVars PROVE BudgetFollows'
<1>1. CASE Claim
  BY <1>1, BudgetStays DEF Claim
<1>2. CASE Finish
  BY <1>2, FinishBudget
<1>3. CASE Raise \/ Fail
  <2>1. /\ UNCHANGED <<hops, finds>> /\ pc' \in {"idle", "fail", "lost"}
        /\ status' \in {status, "failed"}
    BY <1>3 DEF Raise, Fail, durable
  <2> QED BY <2>1, BudgetStays
<1>4. CASE Restart
  BY <1>4, BudgetStays DEF Restart
<1>5. CASE UNCHANGED <<status, hops, finds, locals>>
  BY <1>5 DEF locals, BudgetFollows, Finished
<1>6. ASSUME NEW c \in Clients, Ask(c) \/ Cancel(c) PROVE BudgetFollows'
  BY <1>5, <1>6 DEF Ask, Cancel, durable
<1> QED
  BY <1>1, <1>2, <1>3, <1>4, <1>5, <1>6, ResumeBudget, TopBudget, AcquireBudget, CheckpointBudget,
     ExamineBudget, SaveBudget, DecideBudget
  DEF Next, Thread, fetchVars, durable

\* All runs of a fetch share its hops and, on each page, its attempts; when tools have
\* reported more requests than it had, its last hop has no source, and it ends as a failure.
THEOREM BudgetHolds == Spec => []RunsShareTheBudget
<1>1. IInv /\ BudgetFollows /\ [Next]_fetchVars => (IInv /\ BudgetFollows)'
  BY Keeps, BudgetKeeps
<1>2. BudgetFollows => RunsShareTheBudget
  BY DEF BudgetFollows, AttemptsLimited, OverspentLast, RunsShareTheBudget
<1> QED BY <1>1, <1>2, Begins, BudgetBegins, PTL DEF Spec

LEMMA RuntimeIsATime ==
  ASSUME NEW rs \in Seq(Hops), NEW ds \in Seq(Finds)
  PROVE  Runtime(rs, ds) \in Nat
<1> DEFINE ofHops == [i \in DOMAIN rs |-> rs[i].runtime]
           ofFinds == [i \in DOMAIN ds |-> ds[i].runtime]
<1>1. DOMAIN rs = 1..Len(rs) /\ \A i \in 1..Len(rs) : rs[i] \in Hops
  OBVIOUS
<1>2. DOMAIN ds = 1..Len(ds) /\ \A i \in 1..Len(ds) : ds[i] \in Finds
  OBVIOUS
<1>3. ofHops \in Seq(Nat)
  BY <1>1 DEF Hops
<1>4. ofFinds \in Seq(Nat)
  BY <1>2 DEF Finds
<1>5. Runtime(rs, ds) = Total(ofHops) + Total(ofFinds)
  BY DEF Runtime
<1> HIDE DEF ofHops, ofFinds
<1>6. Total(ofHops) \in Nat /\ Total(ofFinds) \in Nat
  <2>1. \A amounts \in Seq(Nat) : Total(amounts) \in Nat
    <3>1. 0 \in Nat
      OBVIOUS
    <3> QED BY <3>1, TotalAppend
  <2> QED BY <2>1, <1>3, <1>4
<1> QED BY <1>5, <1>6

\* No run, however often the fetch was resumed and whatever was overspent, makes a hop or a
\* discovery durable that what was durable before it left no request or time for.
THEOREM BeginningsHold == Spec => NothingBeginsUnaffordable
<1>1. IInv /\ BudgetFollows /\ [Next]_fetchVars => (IInv /\ BudgetFollows)'
  BY Keeps, BudgetKeeps
<1>2. ASSUME IInv, BudgetFollows, [Next]_fetchVars
      PROVE  /\ hops' # hops => /\ Requests(hops) < MaxRequests
                               /\ Runtime(hops, finds) + Second <= MaxRuntime
             /\ finds' # finds => Runtime(hops, finds) < MaxRuntime
  <2>1. /\ hops' # hops => pc = "checkpoint"
        /\ finds' # finds => pc = "save"
    BY <1>2
    DEF Next, Thread, fetchVars, durable, Claim, Resume, Top, Acquire, Checkpoint, Examine, Save,
        Decide, Finish, Fail, Raise, Restart, Ask, Cancel
  <2>2. /\ pc = "checkpoint" => ~ Exhausted(hops, finds)
        /\ pc = "save" => ~ (Runtime(hops, finds) >= MaxRuntime)
    BY <1>2 DEF BudgetFollows
  <2>3. Requests(hops) \in Nat /\ Runtime(hops, finds) \in Nat
    <3>1. hops \in Seq(Hops) /\ finds \in Seq(Finds) /\ results \in Seq(Hops)
      BY <1>2 DEF IInv, FetchTypeOK
    <3>2. PICK amounts \in Seq(Nat) : Requests(hops) = Total(amounts)
      <4> DEFINE amounts == [i \in DOMAIN hops |-> hops[i].requests]
      <4>1. DOMAIN hops = 1..Len(hops) /\ \A i \in 1..Len(hops) : hops[i] \in Hops
        BY <3>1
      <4>2. amounts \in Seq(Nat)
        BY <4>1 DEF Hops
      <4> QED BY <4>2 DEF Requests
    <3> QED BY <3>1, <3>2, TotalAppend, RuntimeIsATime
  <2> QED
    BY <2>1, <2>2, <2>3, LimitsAreLimits DEF Exhausted, NoTimeLeft, Second
<1>3. IInv /\ BudgetFollows /\ [Next]_fetchVars
        => [ /\ hops' # hops => /\ Requests(hops) < MaxRequests
                               /\ Runtime(hops, finds) + Second <= MaxRuntime
             /\ finds' # finds => Runtime(hops, finds) < MaxRuntime ]_fetchVars
  BY <1>2
<1> QED BY <1>1, <1>3, Begins, BudgetBegins, PTL DEF Spec, NothingBeginsUnaffordable
====
