--------------------------- MODULE BrowserBridge ---------------------------
(***************************************************************************)
(* tool_registry/runners/browser_network.py: one browser attempt.  The     *)
(* installed adapter (tools/browser) runs in a process of its own and asks *)
(* the parent for every navigation and resource through an authenticated   *)
(* loopback endpoint.  Handler threads of the parent serialize the reads   *)
(* against one gateway; the adapter's watcher thread polls the attempt's   *)
(* status.  When the process is gone IsolatedRuntime has the bridge        *)
(* replace the adapter's claims with what the parent measured, and the     *)
(* attempt is closed, whether or not a handler is still reading.           *)
(***************************************************************************)
EXTENDS AccessGateway

CONSTANT None

ASSUME NoneAssumption ==
  /\ None \notin Urls \cup {"running", "failed"}
  /\ Urls \cap {"running", "failed"} = {}

VARIABLES
  adapter,       \* the browser's process, and what it exits with
  handler,       \* the /read under way in the parent
  want,          \* what it asks for
  failed,        \* failure_code is set
  measured,      \* usage as of the last recorded read
  cache,         \* _redirect_cache: responses to replay
  document,      \* _document: the final URL of the last main document
  cancelled,     \* should_cancel()
  shut,          \* the bridge is closed
  report         \* the result IsolatedRuntime got, or None

bridge == <<adapter, handler, want, failed, measured, cache, document,
            cancelled, shut, report>>
vars   == <<gateway, bridge>>

\* An adapter exits with the URL it rendered, or failed.
Adapters == {"running", "failed"} \cup Urls

\* kind: a navigation of the page's main frame, of another frame, or a resource;
\* get: the method is GET
Wants == [url : Urls, kind : {"page", "frame", "resource"}, get : BOOLEAN]

NoWant == [url |-> Start, kind |-> "page", get |-> TRUE]

Init ==
  /\ GatewayInit
  /\ adapter = "running" /\ handler = "none"
  /\ want = NoWant
  /\ failed = FALSE /\ measured = <<0, 0>>
  /\ cache = {} /\ document = None
  /\ cancelled = FALSE /\ shut = FALSE /\ report = None

\* status: a failure is final, and cancellation, the deadline and closing
\* are failures.
Failing == failed \/ cancelled \/ ~HasRuntime \/ shut

-----------------------------------------------------------------------------

\* route_request (tools/browser): the page navigates or loads a resource.
Post(w) ==
  /\ adapter = "running" /\ handler = "none"
  /\ handler' = "posted" /\ want' = w
  /\ UNCHANGED <<gateway, adapter, failed, measured, cache, document,
                 cancelled, shut, report>>

\* Mutant of Serve: a failed attempt reads on.
ServeAnyway ==
  /\ handler = "posted"
  /\ handler' = "cleared"
  /\ UNCHANGED <<gateway, adapter, want, failed, cache, measured, document,
                 cancelled, shut, report>>

\* read takes the lock: a failed attempt, another method or a cached redirect
\* needs no I/O ...
Serve ==
  /\ handler = "posted"
  /\ LET go == ~Failing /\ want.get /\ want.url \notin cache
     IN /\ failed' = (Failing \/ ~want.get)
        /\ cache' = IF ~Failing /\ want.get THEN cache \ {want.url} ELSE cache
        /\ handler' = IF go THEN "cleared" ELSE "none"
        /\ want' = IF go THEN want ELSE NoWant
  /\ UNCHANGED <<gateway, adapter, measured, document, cancelled, shut, report>>

\* ... and the rest asks the gateway.  /status and normalize set the failure
\* without the lock, so the attempt may have failed in between.
StartRead ==
  /\ handler = "cleared"
  /\ Open(want.url)
  /\ handler' = "reading"
  /\ UNCHANGED <<adapter, want, failed, measured, cache, document, cancelled,
                 shut, report>>

\* The gateway works for the handler that holds the lock.
Read ==
  /\ handler = "reading" /\ ReadStep
  /\ UNCHANGED bridge

\* Mutant of EndRead: the lock is kept when the gateway raised.
EndReadKeeps ==
  /\ handler = "reading" /\ Deliver
  /\ handler' = IF read.at = "failed" THEN "reading" ELSE "none"
  /\ measured' = <<requests, bytes>>
  /\ UNCHANGED <<adapter, want, failed, cache, document, cancelled, shut,
                 report>>

\* read, after the gateway: the usage is recorded, a failure ends the
\* attempt, a navigation (a frame's too) to another type fails it too, and the
\* redirects the gateway followed are kept for the browser to replay.
EndRead ==
  /\ handler = "reading" /\ Deliver
  /\ handler' = "none" /\ want' = NoWant
  /\ measured' = <<requests, bytes>>
  /\ \/ /\ read.at = "failed"
        /\ failed' = TRUE
        /\ UNCHANGED <<cache, document>>
     \/ /\ read.at = "ok" /\ want.kind # "resource"
        /\ failed' = TRUE                          \* browser.html_required
        /\ UNCHANGED <<cache, document>>
     \/ /\ read.at = "ok"
        /\ document' = IF want.kind = "page" THEN read.target ELSE document
        /\ cache' = IF read.hops = {} THEN cache
                    ELSE (cache \cup read.hops \cup {read.target})
                         \ {want.url}
        /\ UNCHANGED failed
  /\ UNCHANGED <<adapter, cancelled, shut, report>>

\* The watcher polls /status and stops the adapter when the attempt has
\* failed.  /status waits for the lock to check its nonce but not afterwards:
\* the answer may be made while a handler reads.
Watch ==
  /\ adapter = "running" /\ Failing
  /\ failed' = TRUE /\ adapter' = "failed"
  /\ UNCHANGED <<gateway, handler, want, measured, cache, document,
                 cancelled, shut, report>>

\* The adapter's process ends without a page: its SDK fails, its watcher
\* gives up on an endpoint that does not answer, or the runner's timeout
\* (the manifest's max_runtime_seconds or the attempt's deadline) kills it.
Stop ==
  /\ adapter = "running"
  /\ adapter' = "failed"
  /\ UNCHANGED <<gateway, handler, want, failed, measured, cache, document,
                 cancelled, shut, report>>

\* _acquire: the page is idle, a last /status is ok, and the rendered page
\* is written; scripts may have moved the page to another URL.
Render(u) ==
  /\ adapter = "running" /\ handler = "none" /\ ~Failing
  /\ document # None
  /\ adapter' = u
  /\ UNCHANGED <<gateway, handler, want, failed, measured, cache, document,
                 cancelled, shut, report>>

\* normalize: the parent's evidence decides, and only its usage counts.
Report ==
  /\ adapter # "running" /\ report = None
  /\ failed' = Failing
  /\ report' = [ok |-> ~Failing /\ adapter = document,
                url |-> adapter, usage |-> measured]
  /\ UNCHANGED <<gateway, adapter, handler, want, measured, cache, document,
                 cancelled, shut>>

\* close: the server's daemon threads are not joined.
Close ==
  /\ report # None /\ ~shut
  /\ shut' = TRUE /\ CloseGateway
  /\ UNCHANGED <<adapter, handler, want, failed, measured, cache, document,
                 cancelled, report>>

Cancel ==
  /\ ~cancelled /\ cancelled' = TRUE
  /\ UNCHANGED <<gateway, adapter, handler, want, failed, measured, cache,
                 document, shut, report>>

Time == Tick /\ UNCHANGED bridge

Next ==
  \/ \E w \in Wants : Post(w)
  \/ Serve \/ StartRead \/ Read \/ EndRead
  \/ Watch \/ Stop \/ \E u \in Urls : Render(u)
  \/ Report \/ Close \/ Cancel \/ Time

\* The runner kills the process at the deadline, time passes, and the
\* parent's threads run.
Fairness ==
  /\ WF_vars(Time) /\ WF_vars(~HasRuntime /\ Stop)
  /\ WF_vars(Serve) /\ WF_vars(StartRead) /\ WF_vars(Read) /\ WF_vars(EndRead)
  /\ WF_vars(Report) /\ WF_vars(Close)

Spec == Init /\ [][Next]_vars /\ Fairness

(***************************************************************************)
(* Properties.                                                             *)
(***************************************************************************)

BridgeTypeOK ==
  /\ GatewayTypeOK
  /\ adapter \in Adapters
  /\ handler \in {"none", "posted", "cleared", "reading"}
  /\ want \in Wants
  /\ failed \in BOOLEAN /\ cancelled \in BOOLEAN /\ shut \in BOOLEAN
  /\ measured \in Nat \X Nat
  /\ cache \subseteq Urls /\ document \in Urls \cup {None}
  /\ handler # "reading" => read.at = "idle"

\* An attempt that succeeds was witnessed by the parent: the page it reports
\* was requested by the gateway, and the usage it reports is all the gateway
\* used for it.
SuccessIsMeasured ==
  report # None /\ report.ok =>
    report.url \in asked /\ report.usage = <<requests, bytes>>

\* What the reads of an attempt used stays within the Request, and a success tells it.
UsageIsBounded == WithinBudget /\ SuccessIsMeasured

\* browser_network.py, status: "never restart a failed attempt".  Once the
\* attempt has failed no handler passes the check of its status any more, and
\* no read of the gateway begins but that of a handler which had passed it.
FailureIsFinal ==
  [][failed =>
       /\ handler' = "cleared" => handler = "cleared"
       /\ read.at = "idle" /\ read'.at # "idle" => handler = "cleared"]_vars

\* Every attempt is closed, and no handler keeps the lock for ever.
AttemptEnds == <>[](shut /\ handler = "none")

=============================================================================
