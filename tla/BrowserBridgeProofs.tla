------------------------- MODULE BrowserBridgeProofs -------------------------
(***************************************************************************)
(* Proofs about AccessGateway and BrowserBridge, for any URLs, policy,     *)
(* robots files and budgets.                                               *)
(*                                                                         *)
(* What has been requested is governed because of what is known of the     *)
(* read under way: its target is permitted, and once its origin has been   *)
(* judged the request is for the target itself and is not forbidden        *)
(* (ReadIsGoverned).  A later verdict does not reach back, because only an *)
(* origin that had none gets one.                                          *)
(***************************************************************************)
EXTENDS BrowserBridge, TLAPS

\* A read on its way is for a permitted target; it looks for the robots file of an origin
\* only while that has no verdict, and asks for a target only with one.
ReadIsGoverned ==
  /\ read.at \notin {"idle", "failed"} => read.target \in Permitted
  /\ read.at = "authorize" => ForRobots
  /\ read.at \in {"resolve", "send", "response", "body"} /\ ~ForRobots =>
       read.url = read.target /\ read.target \notin forbidden
  /\ read.at \in {"response", "body"} /\ ~ForRobots => read.target \in asked
  /\ read.at = "ok" => read.target \in asked

GatewayInv ==
  /\ GatewayTypeOK
  /\ sends = requests
  /\ WithinBudget
  /\ Governed
  /\ ReadIsGoverned

-----------------------------------------------------------------------------
(* The gateway *)

\* A gateway begins without a read and with its whole budget.
LEMMA GatewayBegins == GatewayInit => GatewayInv
<1> SUFFICES ASSUME GatewayInit PROVE GatewayInv
  OBVIOUS
<1>1. NoRead \in Reads /\ read = NoRead
  BY OriginsAssumption DEF GatewayInit, NoRead, Reads, Stages
<1>2. GatewayTypeOK
  BY <1>1 DEF GatewayInit, GatewayTypeOK, Clock
<1>3. sends = requests /\ WithinBudget /\ Governed
  BY BudgetsAssumption DEF GatewayInit, WithinBudget, Governed
<1>4. ReadIsGoverned
  BY <1>1 DEF ReadIsGoverned, NoRead
<1> QED BY <1>2, <1>3, <1>4 DEF GatewayInv

\* Where nothing is requested and no verdict is given, only the read has to be looked at.
LEMMA ReadDecides ==
  ASSUME GatewayInv, read' \in Reads, ReadIsGoverned', clock' \in Clock, closed' \in BOOLEAN,
         UNCHANGED <<usage, robots, past>>
  PROVE  GatewayInv'
  BY DEF GatewayInv, GatewayTypeOK, WithinBudget, Governed, usage, robots, past

LEMMA OpenKeeps == ASSUME GatewayInv, NEW u \in Urls, Open(u) PROVE GatewayInv'
<1>1. read' \in Reads
  BY DEF Open, GatewayInv, GatewayTypeOK, Reads, Stages
<1>2. read'.at \in {"failed", "robots"} /\ (read'.at = "robots" => read'.target \in Permitted)
  BY DEF Open, GatewayInv, GatewayTypeOK, Reads
<1>3. ReadIsGoverned'
  BY <1>2 DEF ReadIsGoverned
<1> QED BY <1>1, <1>3, ReadDecides DEF Open, rest, GatewayInv, GatewayTypeOK

LEMMA RedirectKeeps == ASSUME GatewayInv, NEW u \in Urls, Redirect(u) PROVE GatewayInv'
<1>1. read' \in Reads
  <2>1. read \in Reads
    BY DEF GatewayInv, GatewayTypeOK
  <2>2. read.hops \cup {read.target} \in SUBSET Urls
    BY <2>1 DEF Reads
  <2>3. \/ read' = [read EXCEPT !.at = "failed"]
        \/ read' = [read EXCEPT !.at = "authorize", !.url = u]
        \/ read' = [read EXCEPT !.at = "robots", !.target = u, !.url = u,
                               !.hops = read.hops \cup {read.target}]
    BY DEF Redirect, Fail, GoTo
  <2> QED BY <2>1, <2>2, <2>3 DEF Reads, Stages
<1>2. read.at = "response" /\ read.target \in Permitted
  BY DEF Redirect, GatewayInv, ReadIsGoverned
<1>3. \/ read'.at = "failed"
      \/ read'.at = "robots" /\ read'.target \in Permitted
      \/ read'.at = "authorize" /\ ForRobots /\ read'.target = read.target
  BY DEF Redirect, Fail, GoTo, GatewayInv, GatewayTypeOK, Reads
<1>4. ReadIsGoverned'
  BY <1>2, <1>3 DEF ReadIsGoverned, Redirect, robots, ForRobots, OriginRead
<1> QED BY <1>1, <1>4, ReadDecides DEF Redirect, rest, GatewayInv, GatewayTypeOK

LEMMA ApplyKeeps == GatewayInv /\ ApplyRobots => GatewayInv'
<1> SUFFICES ASSUME GatewayInv, ApplyRobots PROVE GatewayInv'
  OBVIOUS
<1>1. read \in Reads /\ OriginRead \in Origins /\ RobotsFile[OriginRead] \in Urls
  BY OriginsAssumption DEF GatewayInv, GatewayTypeOK, Reads, OriginRead
<1>2. read' \in Reads
  BY <1>1 DEF ApplyRobots, Fail, GoTo, Reads, Stages
<1>3. read.target \in Permitted
  BY DEF ApplyRobots, GatewayInv, ReadIsGoverned
<1>4. /\ read'.target = read.target
      /\ \/ read'.at = "failed"
         \/ read'.at = "authorize" /\ ForRobots
         \/ /\ read'.at = "resolve" /\ read'.url = read.target
            /\ read.target \notin forbidden
  BY <1>1 DEF ApplyRobots, Fail, GoTo, Reads
<1>5. ReadIsGoverned'
  BY <1>3, <1>4 DEF ReadIsGoverned, ApplyRobots, robots, ForRobots, OriginRead
<1> QED BY <1>2, <1>5, ReadDecides DEF ApplyRobots, rest, GatewayInv, GatewayTypeOK

LEMMA AuthorizeKeeps == GatewayInv /\ AuthorizeRobots => GatewayInv'
<1> SUFFICES ASSUME GatewayInv, AuthorizeRobots PROVE GatewayInv'
  OBVIOUS
<1>1. read \in Reads
  BY DEF GatewayInv, GatewayTypeOK
<1>2. read' \in Reads
  <2>1. read.seen \cup {read.url} \in SUBSET Urls
    BY <1>1 DEF Reads
  <2>2. \/ read' = [read EXCEPT !.at = "failed"]
        \/ read' = [read EXCEPT !.at = "resolve", !.seen = read.seen \cup {read.url}]
    BY DEF AuthorizeRobots, Fail, GoTo
  <2> QED BY <1>1, <2>1, <2>2 DEF Reads, Stages
<1>3. read.target \in Permitted /\ ForRobots
  BY DEF AuthorizeRobots, GatewayInv, ReadIsGoverned
<1>4. read'.target = read.target /\ read'.at \in {"failed", "resolve"}
  BY <1>1 DEF AuthorizeRobots, Fail, GoTo, Reads
<1>5. ReadIsGoverned'
  BY <1>3, <1>4 DEF ReadIsGoverned, AuthorizeRobots, robots, ForRobots, OriginRead
<1> QED BY <1>2, <1>5, ReadDecides DEF AuthorizeRobots, rest, GatewayInv, GatewayTypeOK

\* A read that is refused, delivered, or goes on while time passes or the gateway closes.
LEMMA MovesKeep ==
  ASSUME GatewayInv, Reject \/ Tick \/ Deliver \/ CloseGateway
  PROVE  GatewayInv'
<1> USE OriginsAssumption
        DEF GatewayInv, GatewayTypeOK, WithinBudget, Governed, ReadIsGoverned, Reads,
            Stages, Clock, usage, rest, past, robots, ForRobots, OriginRead, GoTo, Fail
<1>1. CASE Reject
  BY <1>1 DEF Reject
<1>2. CASE Tick
  BY <1>2 DEF Tick
<1>3. CASE Deliver
  BY <1>3 DEF Deliver, NoRead
<1>4. CASE CloseGateway
  BY <1>4 DEF CloseGateway
<1> QED BY <1>1, <1>2, <1>3, <1>4

\* A verdict forbids only URLs of an origin that had none, and so none that was requested.
LEMMA VerdictKeeps ==
  ASSUME GatewayInv, ForRobots, read.at \notin {"idle", "failed"},
         NEW urls \in SUBSET {u \in Urls : Origin[u] = OriginRead}, Verdict(urls),
         UNCHANGED <<closed, clock, asked>>,
         requests' \in Nat, bytes' \in Nat, sends' = requests',
         requests' <= MaxRequests, bytes' <= MaxBytes
  PROVE  GatewayInv'
<1>1. read \in Reads /\ OriginRead \in Origins
  BY OriginsAssumption DEF GatewayInv, GatewayTypeOK, Reads, OriginRead
<1>2. /\ read' \in Reads /\ read'.at = "robots"
      /\ read'.target = read.target /\ read.target \in Permitted
  BY <1>1 DEF Verdict, Reads, Stages, GatewayInv, ReadIsGoverned
<1>3. ReadIsGoverned'
  BY <1>2 DEF ReadIsGoverned
<1>4. GatewayTypeOK'
  BY <1>1, <1>2 DEF GatewayInv, GatewayTypeOK, Verdict
<1>5. \A u \in asked : u \notin urls
  BY DEF GatewayInv, Governed, ForRobots
<1>6. Governed'
  BY <1>5 DEF GatewayInv, Governed, Verdict
<1> QED BY <1>3, <1>4, <1>6 DEF GatewayInv, WithinBudget

LEMMA ResolveKeeps == GatewayInv /\ Resolve => GatewayInv'
<1> SUFFICES ASSUME GatewayInv, Resolve PROVE GatewayInv'
  OBVIOUS
<1>1. CASE ForRobots /\ Verdict({})
  BY <1>1, VerdictKeeps
  DEF Resolve, usage, rest, past, GatewayInv, GatewayTypeOK, WithinBudget
<1>2. CASE (Fail \/ GoTo("send")) /\ UNCHANGED robots
  BY <1>2 DEF Resolve, usage, rest, past, robots, GatewayInv, GatewayTypeOK, WithinBudget,
    Governed, ReadIsGoverned, Reads, Stages, ForRobots, OriginRead, GoTo, Fail
<1> QED BY <1>1, <1>2 DEF Resolve

\* Each request is counted before it is sent, and only sent within the budget.
LEMMA SendKeeps == GatewayInv /\ Send => GatewayInv'
<1> SUFFICES ASSUME GatewayInv, Send PROVE GatewayInv'
  OBVIOUS
<1>1. CASE Reserve /\ ForRobots /\ Verdict({})
  <2>1. requests' \in Nat /\ sends' = requests' /\ requests' <= MaxRequests
    BY <1>1, BudgetsAssumption
    DEF Reserve, MayAsk, GatewayInv, GatewayTypeOK, WithinBudget
  <2>2. UNCHANGED <<closed, clock, asked, bytes>>
    BY <1>1 DEF Reserve, Send, rest
  <2>3. read.at = "send"
    BY DEF Send
  <2> QED BY <1>1, <2>1, <2>2, <2>3, VerdictKeeps
       DEF GatewayInv, GatewayTypeOK, WithinBudget
<1>2. CASE Reserve /\ (GoTo("response") \/ Fail) /\ UNCHANGED robots
  <2>1. requests' \in Nat /\ sends' = requests' /\ sends' \in Nat /\ sends' <= MaxRequests
    BY <1>2, BudgetsAssumption
    DEF Reserve, MayAsk, GatewayInv, GatewayTypeOK, WithinBudget
  <2>2. read.at = "send" /\ UNCHANGED <<bytes, rest>>
    BY DEF Send
  <2>3. ~ForRobots => read.url = read.target /\ read.target \notin forbidden /\ read.target \in Permitted
    BY <2>2 DEF GatewayInv, ReadIsGoverned
  <2>4. /\ read' \in Reads /\ read'.target = read.target /\ read'.url = read.url
        /\ read'.at \in {"response", "failed"}
    BY <1>2 DEF GoTo, Fail, GatewayInv, GatewayTypeOK, Reads, Stages
  <2>5. asked' \subseteq Urls /\ Governed'
    BY <1>2, <2>3 DEF Reserve, robots, GatewayInv, GatewayTypeOK, Governed, ForRobots,
      OriginRead, Reads
  <2>6. ReadIsGoverned'
    BY <1>2, <2>2, <2>3, <2>4 DEF Reserve, robots, GatewayInv, ReadIsGoverned, ForRobots, OriginRead
  <2> QED BY <1>2, <2>1, <2>2, <2>4, <2>5, <2>6
       DEF GatewayInv, GatewayTypeOK, WithinBudget, rest, robots
<1>3. CASE Fail /\ UNCHANGED <<requests, past, robots>>
  BY <1>3 DEF Send, rest, past, robots, GatewayInv, GatewayTypeOK, WithinBudget,
    Governed, ReadIsGoverned, Reads, Stages, GoTo, Fail
<1> QED BY <1>1, <1>2, <1>3 DEF Send

LEMMA AnswerKeeps == GatewayInv /\ Answer => GatewayInv'
<1> SUFFICES ASSUME GatewayInv, Answer PROVE GatewayInv'
  OBVIOUS
<1>1. CASE ForRobots /\ \E urls \in {{}, {u \in Urls : Origin[u] = OriginRead}} : Verdict(urls)
  BY <1>1, VerdictKeeps
  DEF Answer, usage, rest, past, GatewayInv, GatewayTypeOK, WithinBudget
<1>2. CASE (GoTo("body") \/ Fail) /\ UNCHANGED robots
  BY <1>2 DEF Answer, usage, rest, past, robots, GatewayInv, GatewayTypeOK, WithinBudget,
    Governed, ReadIsGoverned, Reads, Stages, ForRobots, OriginRead, GoTo, Fail
<1> QED BY <1>1, <1>2 DEF Answer

\* What arrives is counted and fits into what was left, also of a read that fails.
LEMMA BodyKeeps == ASSUME GatewayInv, NEW n \in 0 .. MaxBytes, Body(n) PROVE GatewayInv'
<1>1. bytes' \in Nat /\ bytes' <= MaxBytes
  BY BudgetsAssumption DEF Body, GatewayInv, GatewayTypeOK, WithinBudget
<1>2. CASE ForRobots /\ \E f \in Parsed : Verdict(f)
  BY <1>1, <1>2, VerdictKeeps
  DEF Body, Parsed, rest, past, GatewayInv, GatewayTypeOK, WithinBudget
<1>3. CASE ((~ForRobots /\ GoTo("ok")) \/ Fail) /\ UNCHANGED robots
  BY <1>1, <1>3 DEF Body, rest, past, robots, GatewayInv, GatewayTypeOK, WithinBudget,
    Governed, ReadIsGoverned, Reads, Stages, ForRobots, OriginRead, GoTo, Fail
<1> QED BY <1>2, <1>3 DEF Body, robots

LEMMA GatewayKeeps == GatewayInv /\ [GatewayNext]_gateway => GatewayInv'
<1> SUFFICES ASSUME GatewayInv, [GatewayNext]_gateway PROVE GatewayInv'
  OBVIOUS
<1>1. CASE UNCHANGED gateway
  BY <1>1 DEF gateway, GatewayInv, GatewayTypeOK, WithinBudget, Governed, ReadIsGoverned,
    ForRobots, OriginRead
<1> QED BY <1>1, MovesKeep, OpenKeeps, RedirectKeeps, ApplyKeeps, AuthorizeKeeps, ResolveKeeps, SendKeeps, AnswerKeeps, BodyKeeps
     DEF GatewayNext, ReadStep

-----------------------------------------------------------------------------
(* The bridge *)

\* An attempt that can still succeed has no read under way and has recorded what the
\* gateway used; a document is one the gateway asked for.
BridgeInv ==
  /\ adapter \in Adapters /\ want \in Wants
  /\ handler \in {"none", "posted", "cleared", "reading"}
  /\ document \in asked \cup {None}
  /\ handler # "reading" => read.at = "idle" /\ measured = <<requests, bytes>>
  /\ adapter \in Urls => handler = "none"
  /\ report # None => adapter # "running"
  /\ report # None /\ report.ok =>
       report.url \in asked /\ adapter \in Urls /\ report.usage = <<requests, bytes>>

IInv == GatewayInv /\ BridgeInv

LEMMA Begins == Init => IInv
<1> SUFFICES ASSUME Init PROVE IInv
  OBVIOUS
<1>1. GatewayInv
  BY GatewayBegins DEF Init
<1>2. NoWant \in Wants
  BY OriginsAssumption DEF NoWant, Wants
<1>3. BridgeInv
  BY <1>2, NoneAssumption DEF Init, GatewayInit, NoRead, BridgeInv, Adapters
<1> QED BY <1>1, <1>3 DEF IInv

\* Every step of the bridge is a step of its gateway, or leaves it alone.
LEMMA BridgeUsesGateway == BridgeInv /\ [Next]_vars => [GatewayNext]_gateway
<1> SUFFICES ASSUME BridgeInv, Next PROVE [GatewayNext]_gateway
  BY DEF vars
<1> USE DEF GatewayNext
<1>1. ASSUME NEW w \in Wants, Post(w) PROVE UNCHANGED gateway
  BY <1>1 DEF Post
<1>2. CASE StartRead
  <2>1. want.url \in Urls
    BY DEF BridgeInv, Wants
  <2> QED BY <1>2, <2>1 DEF StartRead
<1>3. ASSUME NEW u \in Urls, Render(u) PROVE UNCHANGED gateway
  BY <1>3 DEF Render
<1>4. CASE Serve \/ Watch \/ Stop \/ Report \/ Cancel
  BY <1>4 DEF Serve, Watch, Stop, Report, Cancel
<1>5. CASE Read \/ EndRead \/ Close \/ Time
  BY <1>5 DEF Read, EndRead, Close, Time
<1> QED BY <1>1, <1>2, <1>3, <1>4, <1>5 DEF Next

\* The gateway forgets nothing it asked for, and only a read under way asks or uses.
LEMMA AskedGrows == [GatewayNext]_gateway => asked \subseteq asked'
  BY DEF GatewayNext, ReadStep, gateway, past, Open, Redirect, ApplyRobots, AuthorizeRobots,
     Resolve, Send, Reserve, Reject, Answer, Body, Tick, Deliver, CloseGateway

LEMMA BridgeKeeps == IInv /\ [Next]_vars => BridgeInv'
<1> SUFFICES ASSUME IInv, [Next]_vars PROVE BridgeInv'
  OBVIOUS
<1>0. BridgeInv /\ asked \subseteq asked'
  BY BridgeUsesGateway, AskedGrows DEF IInv
<1>1. CASE UNCHANGED vars
  BY <1>0, <1>1 DEF vars, bridge, gateway, BridgeInv
<1>2. ASSUME NEW w \in Wants, Post(w) PROVE BridgeInv'
  BY <1>0, <1>2, NoneAssumption DEF Post, gateway, BridgeInv
<1>3. CASE Serve
  <2>1. NoWant \in Wants
    BY OriginsAssumption DEF NoWant, Wants
  <2>2. /\ UNCHANGED gateway /\ handler' \in {"none", "cleared"} /\ handler = "posted"
        /\ want' \in {want, NoWant}
    BY <1>3 DEF Serve
  <2> QED BY <1>0, <1>3, <2>1, <2>2, NoneAssumption DEF Serve, gateway, BridgeInv
<1>4. CASE StartRead
  BY <1>0, <1>4, NoneAssumption DEF StartRead, Open, usage, past, BridgeInv
<1>5. CASE Read
  BY <1>0, <1>5 DEF Read, bridge, BridgeInv
<1>6. CASE EndRead
  <2>1. NoWant \in Wants
    BY OriginsAssumption DEF NoWant, Wants
  <2>2. read' = NoRead /\ UNCHANGED <<usage, past>>
    BY <1>6 DEF EndRead, Deliver
  <2>3. document' \in asked' \cup {None}
    BY <1>0, <1>6, <2>2 DEF EndRead, past, BridgeInv, IInv, GatewayInv, ReadIsGoverned
  <2> QED BY <1>0, <1>6, <2>1, <2>2, <2>3 DEF EndRead, NoRead, usage, past, BridgeInv
<1>7. CASE Watch
  BY <1>0, <1>7, NoneAssumption DEF Watch, gateway, BridgeInv, Adapters
<1>8. CASE Stop
  BY <1>0, <1>8, NoneAssumption DEF Stop, gateway, BridgeInv, Adapters
<1>9. ASSUME NEW u \in Urls, Render(u) PROVE BridgeInv'
  BY <1>0, <1>9, NoneAssumption DEF Render, gateway, BridgeInv, Adapters
<1>10. CASE Report
  <2>1. report'.ok => adapter \in Urls /\ adapter \in asked
    <3>1. report'.ok = (~Failing /\ adapter = document)
      BY <1>10 DEF Report
    <3>2. asked \subseteq Urls
      BY DEF IInv, GatewayInv, GatewayTypeOK
    <3> QED BY <1>0, <1>10, <3>1, <3>2, NoneAssumption DEF Report, BridgeInv, Adapters
  <2> QED BY <1>0, <1>10, <2>1 DEF Report, gateway, BridgeInv
<1>11. CASE Close
  BY <1>0, <1>11 DEF Close, CloseGateway, usage, past, BridgeInv
<1>12. CASE Cancel
  BY <1>0, <1>12 DEF Cancel, gateway, BridgeInv
<1>13. CASE Time
  BY <1>0, <1>13 DEF Time, Tick, bridge, usage, past, BridgeInv
<1> QED
  BY <1>1, <1>2, <1>3, <1>4, <1>5, <1>6, <1>7, <1>8, <1>9, <1>10, <1>11, <1>12, <1>13 DEF Next

THEOREM InductiveHolds == Spec => []IInv
<1>1. IInv /\ [Next]_vars => IInv'
  BY BridgeKeeps, BridgeUsesGateway, GatewayKeeps DEF IInv
<1> QED BY Begins, <1>1, PTL DEF Spec

\* Whatever the page asks for, the remote side answers and the redirects lead to: no target
\* is requested that the policy does not permit or whose own origin's robots file has not
\* been judged, or forbids it.
THEOREM GovernedHolds == Spec => []Governed
<1>1. IInv => Governed
  BY DEF IInv, GatewayInv
<1> QED BY InductiveHolds, <1>1, PTL

\* However an attempt ends, its reads stayed within the budgets; and if it succeeded, its
\* page was requested by the parent and its usage is everything the gateway used for it.
THEOREM UsageHolds == Spec => []UsageIsBounded
<1>1. IInv => UsageIsBounded
  BY DEF IInv, GatewayInv, BridgeInv, UsageIsBounded, SuccessIsMeasured
<1> QED BY InductiveHolds, <1>1, PTL

\* Once the attempt has failed no handler passes its check, and only one that had passed it
\* may still begin a read.
THEOREM FailureHolds == Spec => FailureIsFinal
<1>1. BridgeInv /\ [Next]_vars =>
        [failed => /\ handler' = "cleared" => handler = "cleared"
                   /\ read.at = "idle" /\ read'.at # "idle" => handler = "cleared"]_vars
  <2> SUFFICES ASSUME BridgeInv, Next, failed
               PROVE  /\ handler' = "cleared" => handler = "cleared"
                      /\ read.at = "idle" /\ read'.at # "idle" => handler = "cleared"
    OBVIOUS
  <2>1. CASE UNCHANGED read /\ (handler' = handler \/ handler' # "cleared")
    BY <2>1
  <2>2. CASE StartRead
    BY <2>2 DEF StartRead
  <2>3. CASE Serve
    BY <2>3, <2>1 DEF Serve, Failing, gateway
  <2>4. ASSUME NEW w \in Wants, Post(w) PROVE UNCHANGED read /\ handler' # "cleared"
    BY <2>4 DEF Post, gateway
  <2>5. ASSUME NEW u \in Urls, Render(u) PROVE UNCHANGED <<read, handler>>
    BY <2>5 DEF Render, gateway
  <2>6. CASE Watch \/ Stop \/ Report \/ Cancel
    BY <2>6, <2>1 DEF Watch, Stop, Report, Cancel, gateway
  <2>7. CASE Close \/ Time
    BY <2>7, <2>1 DEF Close, CloseGateway, Time, Tick, bridge
  <2>8. CASE Read \/ EndRead
    <3>1. read.at # "idle"
      BY <2>8 DEF Read, EndRead, ReadStep, Redirect, ApplyRobots, AuthorizeRobots, Resolve, Send,
         Reject, Answer, Body, Deliver
    <3>2. handler' \in {handler, "none"}
      BY <2>8 DEF Read, EndRead, bridge
    <3> QED BY <3>1, <3>2
  <2> QED BY <2>1, <2>2, <2>3, <2>4, <2>5, <2>6, <2>7, <2>8 DEF Next
<1>2. Spec => []BridgeInv
  BY InductiveHolds, PTL DEF IInv
<1> QED BY <1>1, <1>2, PTL DEF Spec, FailureIsFinal
=============================================================================
