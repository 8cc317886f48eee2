--------------------------- MODULE AccessGateway ---------------------------
(***************************************************************************)
(* tool_registry/runners/in_process.py: GovernedAccessGateway, the one     *)
(* place target I/O happens.  One gateway serves one acquisition attempt:  *)
(* a single read for web_http, every read of a page for a browser.  A read *)
(* follows the redirects of its target itself, and for each hop first      *)
(* obtains the origin's robots file through the same resolve, send and     *)
(* body steps.  The remote side answers as it likes.                       *)
(***************************************************************************)
EXTENDS Naturals, FiniteSets

CONSTANTS
  Urls,          \* canonical URLs
  Start,         \* the URL the attempt is for
  Origins,       \* scheme and authority
  Origin,        \* the origin of each URL
  RobotsFile,    \* the URL of each origin's robots.txt
  Https,         \* the origins served over https
  Allowed,       \* scope.allowed_origins
  Permitted,     \* the URLs the compiled policy allows
  MaxRequests,   \* budgets.max_requests
  MaxBytes       \* budgets.max_bytes

ASSUME OriginsAssumption ==
  /\ Start \in Urls /\ Origin \in [Urls -> Origins]
  /\ RobotsFile \in [Origins -> Urls]
  /\ \A o \in Origins : Origin[RobotsFile[o]] = o
ASSUME PolicyAssumption ==
  /\ Https \subseteq Origins /\ Allowed \subseteq Origins
  /\ Permitted \subseteq {u \in Urls : Origin[u] \in Allowed}
ASSUME BudgetsAssumption == MaxRequests \in Nat /\ MaxBytes \in Nat

VARIABLES
  requests,      \* _usage.requests
  bytes,         \* _usage.bytes
  clock,         \* before, at or past the runtime deadline
  judged,        \* _robots: the origins whose robots file has been read
  forbidden,     \* _robots: the URLs those files forbid
  closed,        \* _closed
  read,          \* the read under way
  sends,         \* history: requests handed to the transport
  asked          \* history: target URLs among them

gateway == <<requests, bytes, clock, judged, forbidden, closed, read, sends,
             asked>>

Clock == {"before", "at", "past"}

Stages == {"idle", "robots", "authorize", "resolve", "send", "response",
           "body", "ok", "failed"}

\* target: the hop being read; url: the request under way, the hop itself or
\* a robots file; seen: _load_robots' own loop check; hops: the targets that
\* redirected
Reads == [at : Stages, target : Urls, url : Urls, seen : SUBSET Urls,
          hops : SUBSET Urls]

NoRead == [at |-> "idle", target |-> Start, url |-> Start, seen |-> {},
           hops |-> {}]

GatewayInit ==
  /\ requests = 0 /\ bytes = 0 /\ sends = 0 /\ asked = {}
  /\ clock = "before" /\ closed = FALSE
  /\ judged = {} /\ forbidden = {}
  /\ read = NoRead

OriginRead == Origin[read.target]

\* The request under way is for the robots file of the target's origin.
ForRobots == OriginRead \notin judged

\* _remaining_runtime rejects the deadline itself, _ensure_runtime only
\* what is past it.
HasRuntime == clock = "before"
InTime     == clock # "past"

\* _preflight_budget
MayAsk == HasRuntime /\ requests < MaxRequests /\ bytes < MaxBytes

GoTo(stage) == read' = [read EXCEPT !.at = stage]

\* _raise: the read ends; which code it carries is left out.
Fail == GoTo("failed")

usage  == <<requests, bytes>>
rest   == <<clock, closed>>
past   == <<sends, asked>>
robots == <<judged, forbidden>>

\* The verdict is cached and the target judged by it.
Verdict(urls) ==
  /\ judged' = judged \cup {OriginRead}
  /\ forbidden' = forbidden \cup urls
  /\ read' = [read EXCEPT !.at = "robots", !.url = read.target, !.seen = {}]

-----------------------------------------------------------------------------

\* read: refused once closed, and for a URL outside the policy.
Open(u) ==
  /\ read.at = "idle"
  /\ read' = [read EXCEPT !.target = u, !.url = u,
                          !.at = IF closed \/ u \notin Permitted
                                 THEN "failed" ELSE "robots"]
  /\ UNCHANGED <<usage, rest, robots, past>>

\* _apply_robots: load the file of a new origin, then apply its verdict.
ApplyRobots ==
  /\ read.at = "robots"
  /\ \/ /\ ForRobots
        /\ read' = [read EXCEPT !.at = "authorize",
                                !.url = RobotsFile[OriginRead]]
     \/ /\ ~ForRobots
        /\ read.target \in forbidden
        /\ Fail
     \/ /\ ~ForRobots
        /\ read.target \notin forbidden
        /\ read' = [read EXCEPT !.at = "resolve", !.url = read.target]
  /\ UNCHANGED <<usage, rest, robots, past>>

\* Each hop of _load_robots: no loop, the same origin, an allowed one.
AuthorizeRobots ==
  /\ read.at = "authorize"
  /\ IF read.url \notin read.seen /\ Origin[read.url] = OriginRead
          /\ OriginRead \in Allowed
     THEN read' = [read EXCEPT !.at = "resolve",
                               !.seen = @ \cup {read.url}]
     ELSE Fail
  /\ UNCHANGED <<usage, rest, robots, past>>

\* _resolve: public addresses within the deadline.  A robots file whose host
\* does not resolve forbids nothing.
Resolve ==
  /\ read.at = "resolve"
  /\ \/ Fail /\ UNCHANGED robots
     \/ MayAsk /\ ForRobots /\ Verdict({})
     \/ MayAsk /\ GoTo("send") /\ UNCHANGED robots
  /\ UNCHANGED <<usage, rest, past>>

\* _reserve_request: the budget is checked again and the request counted
\* before the transport sees it.
Reserve ==
  /\ MayAsk
  /\ requests' = requests + 1
  /\ sends' = sends + 1
  /\ asked' = IF ForRobots THEN asked ELSE asked \cup {read.url}

\* _send, with the deadline check after the resolver answered.  Whatever the
\* transport does, the request is counted; a robots file it could not fetch
\* forbids nothing, if the budget is not gone with this request.
Send ==
  /\ read.at = "send"
  /\ \/ /\ Reserve
        /\ \/ GoTo("response") /\ UNCHANGED robots
           \/ Fail /\ UNCHANGED robots
           \/ ForRobots /\ requests' < MaxRequests /\ Verdict({})
     \/ /\ ~MayAsk
        /\ Fail
        /\ UNCHANGED <<requests, past, robots>>
  /\ UNCHANGED <<bytes, rest>>

\* A response past the deadline, from the wrong peer, or malformed where a
\* robots file is not excused (framing, content length, redirect).
Reject ==
  /\ read.at = "response"
  /\ Fail
  /\ UNCHANGED <<usage, rest, robots, past>>

\* Mutant of Redirect: the hop passes on the verdict of the first target.
RedirectUnjudged(u) ==
  /\ read.at = "response" /\ InTime
  /\ IF u \in Permitted /\ ~ForRobots
     THEN read' = [read EXCEPT !.at = "resolve", !.url = u]
     ELSE Fail
  /\ UNCHANGED <<usage, rest, robots, past>>

\* _target_redirect, _robots_redirect: no downgrade; a target stays within
\* the policy and is judged again by its own origin's robots file, a robots
\* file stays within its origin.
Redirect(u) ==
  /\ read.at = "response" /\ InTime
  /\ LET downgrade == Origin[read.url] \in Https /\ Origin[u] \notin Https
     IN IF ForRobots
        THEN IF downgrade \/ Origin[u] # OriginRead
             THEN Fail
             ELSE read' = [read EXCEPT !.at = "authorize", !.url = u]
        ELSE IF downgrade \/ u \notin Permitted
             THEN Fail
             ELSE read' = [read EXCEPT !.at = "robots", !.target = u, !.url = u,
                                       !.hops = @ \cup {read.target}]
  /\ UNCHANGED <<usage, rest, robots, past>>

\* A robots file that is denied forbids its origin, one that is absent or
\* broken forbids nothing; a target needs a 2xx status and a content type
\* of the Request.
Answer ==
  /\ read.at = "response" /\ InTime
  /\ \/ ForRobots /\ Verdict({u \in Urls : Origin[u] = OriginRead})
     \/ ForRobots /\ Verdict({})
     \/ GoTo("body") /\ UNCHANGED robots
     \/ ~ForRobots /\ Fail /\ UNCHANGED robots
  /\ UNCHANGED <<usage, rest, past>>

\* _parse_robots: any rules about the URLs of the origin.
Parsed == SUBSET {u \in Urls : Origin[u] = OriginRead}

\* Mutant of Body: the bytes of earlier reads are forgotten.
BodyFresh(n) ==
  /\ read.at = "body" /\ HasRuntime
  /\ bytes' = bytes + n
  /\ IF ForRobots THEN Verdict({}) ELSE GoTo("ok") /\ UNCHANGED robots
  /\ UNCHANGED <<requests, rest, past>>

\* _read_body: at most the bytes that are left arrive, and what arrived is
\* counted even when the read then fails (a short or unframed body, a body
\* that leaves nothing, the deadline).  What arrived of a robots file is
\* parsed even when its connection broke.
Body(n) ==
  /\ read.at = "body"
  /\ n <= MaxBytes - bytes
  /\ \/ /\ ~HasRuntime
        /\ Fail /\ UNCHANGED <<bytes, robots>>
     \/ /\ HasRuntime
        /\ bytes' = bytes + n
        /\ \/ ForRobots /\ \E f \in Parsed : Verdict(f)
           \/ ~ForRobots /\ GoTo("ok") /\ UNCHANGED robots
           \/ Fail /\ UNCHANGED robots
  /\ UNCHANGED <<requests, rest, past>>

-----------------------------------------------------------------------------

\* The deadline comes and passes.
Tick ==
  /\ clock # "past"
  /\ clock' = IF clock = "before" THEN "at" ELSE "past"
  /\ UNCHANGED <<usage, robots, closed, read, past>>

\* The caller takes the result of a read.
Deliver ==
  /\ read.at \in {"ok", "failed"}
  /\ read' = NoRead
  /\ UNCHANGED <<usage, rest, robots, past>>

\* close: later reads are refused, the one under way goes on.
CloseGateway ==
  /\ ~closed /\ closed' = TRUE
  /\ UNCHANGED <<usage, clock, robots, read, past>>

\* One step of the read under way.
ReadStep ==
  \/ ApplyRobots \/ AuthorizeRobots
  \/ Resolve \/ Send
  \/ Reject \/ Answer
  \/ \E u \in Urls : Redirect(u)
  \/ \E n \in 0 .. MaxBytes : Body(n)

GatewayNext ==
  \/ ReadStep \/ Tick \/ Deliver \/ CloseGateway
  \/ \E u \in Urls : Open(u)

(***************************************************************************)
(* Properties.                                                             *)
(***************************************************************************)

GatewayTypeOK ==
  /\ requests \in Nat /\ bytes \in Nat /\ sends \in Nat
  /\ clock \in Clock /\ closed \in BOOLEAN
  /\ judged \subseteq Origins /\ forbidden \subseteq Urls
  /\ read \in Reads
  /\ asked \subseteq Urls

\* Whatever redirects a target went through and whatever other reads of the
\* page did before, no target was requested unless the Request's policy
\* permits its URL and the robots file of its own origin had been judged and
\* does not forbid it.
Governed ==
  \A u \in asked :
    u \in Permitted /\ Origin[u] \in judged /\ u \notin forbidden

\* All reads of a gateway together, robots files, redirects and failures
\* included, stay within the Request's budgets.
WithinBudget == sends <= MaxRequests /\ bytes <= MaxBytes

GatewaySpec == GatewayInit /\ [][GatewayNext]_gateway
=============================================================================
