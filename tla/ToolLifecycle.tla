--------------------------- MODULE ToolLifecycle ---------------------------
(***************************************************************************)
(* tool_registry/lifecycle.py: the versions of one external tool below a   *)
(* data root, shared by administrators' processes (tools/browser/          *)
(* install.py, or any caller of ToolLifecycle) and by the process that     *)
(* serves the tool.  There is no lock: every operation reads a state file, *)
(* works, and renames a new file over the old one, so an operation is cut  *)
(* where it reads and where it writes.                                     *)
(*                                                                         *)
(* The serving process lists the active version once, when                 *)
(* RuntimeService.open builds its registry, and its wrapper                *)
(* (browser_acquisition.py) reads the version's state again for each call. *)
(***************************************************************************)
EXTENDS Naturals, FiniteSets

CONSTANTS
  Versions,      \* the versions of the tool, ordered as numbers
  Admins,        \* processes that run lifecycle operations
  None,          \* no version
  MaxOps,        \* bound: operations begun in all
  MaxCrashes     \* bound: administrators' processes that die

ASSUME VersionsAssumption == Versions \subseteq Nat /\ None \notin Versions
ASSUME BoundsAssumption == MaxOps \in Nat /\ MaxCrashes \in Nat

VARIABLES
  installed,     \* version directories below the tool's directory
  state,         \* the state.json of each version
  active,        \* the version active.json names, or None
  litter,        \* a .state-* file is left in the tool's directory
  op,            \* where each administrator's operation stands
  ops,           \* operations begun so far
  crashes,       \* processes that died so far
  server,        \* the serving process: closed, listing or open
  catalog,       \* the version it registered, or None
  call,          \* its wrapper's current call
  proved,        \* history: versions that passed a qualification
  failing,       \* history: versions whose latest verdict was a failure
  off,           \* history: versions whose disable has returned
  lost           \* history: versions whose disable was overwritten

files   == <<installed, state, active, litter>>
serving == <<server, catalog, call>>
history == <<proved, failing, off, lost>>
vars    == <<files, op, ops, crashes, serving, history>>

State == [qualified : BOOLEAN, disabled : BOOLEAN, broken : BOOLEAN]

\* _initial_state
Fresh == [qualified |-> FALSE, disabled |-> FALSE, broken |-> FALSE]

\* The three bits activate and inspect look at.
Usable(s) == s.qualified /\ ~s.disabled /\ ~s.broken

Stages == {"idle", "staged", "preflight", "trial", "certify", "certified",
           "select", "running", "disabling", "disabled", "pointing",
           "renaming"}

Kinds == {"install", "qualify", "activate", "disable", "rollback"}

\* v: the version operated on; to: what active.json is to name; seen: the
\* state file as the operation read it.
Operations ==
  [at : Stages, kind : Kinds \cup {None}, v : Versions \cup {None},
   to : Versions \cup {None}, seen : State]

Calls == [at : {"none", "checked", "running"}, v : Versions \cup {None}, after : BOOLEAN]

Idle == [at |-> "idle", kind |-> None, v |-> None, to |-> None, seen |-> Fresh]

At(p, stage) == op[p].at = stage

\* inspect: active.json names v and v's state is usable.
Active(v) == active = v /\ v \in installed /\ Usable(state[v])

\* list_versions refuses the whole tool when its directory holds anything but
\* version directories, .install-* and active.json; so does the file
\* _atomic_json makes before it renames it over active.json.
Listable == ~litter /\ \A p \in Admins : ~At(p, "renaming")

-----------------------------------------------------------------------------

Init ==
  /\ installed = {}
  /\ state = [v \in Versions |-> Fresh]
  /\ active = None
  /\ litter = FALSE
  /\ op = [p \in Admins |-> Idle]
  /\ ops = 0
  /\ crashes = 0
  /\ server = "closed"
  /\ catalog = None
  /\ call = [at |-> "none", v |-> None, after |-> FALSE]
  /\ proved = {}
  /\ failing = {}
  /\ off = {}
  /\ lost = {}

Begin(p, kind, v, stage) ==
  /\ At(p, "idle")
  /\ ops < MaxOps
  /\ ops' = ops + 1
  /\ op' = [op EXCEPT ![p] = [at |-> stage, kind |-> kind, v |-> v, to |-> None,
                              seen |-> state[v]]]

Move(p, stage) == op' = [op EXCEPT ![p].at = stage]

Return(p) == op' = [op EXCEPT ![p] = Idle]

\* _write_state: the whole file, from what the operation read.
WriteState(p, new) ==
  LET v == op[p].v
  IN  /\ state' = [state EXCEPT ![v] = new]
      /\ lost' = IF state[v].disabled /\ ~new.disabled
                   THEN lost \cup {v} ELSE lost

\* install: the destination must not exist; a private staging directory is
\* filled before it is renamed.
Install(p, v) ==
  /\ v \notin installed
  /\ Begin(p, "install", v, "staged")
  /\ UNCHANGED <<files, crashes, serving, history>>

\* The rename succeeds for the first of two installs of one version.
Publish(p) ==
  /\ At(p, "staged")
  /\ IF op[p].v \in installed
       THEN Return(p) /\ UNCHANGED <<installed, state>>
       ELSE /\ installed' = installed \cup {op[p].v}
            /\ state' = [state EXCEPT ![op[p].v] = Fresh]
            /\ Move(p, "preflight")
  /\ UNCHANGED <<active, litter, ops, crashes, serving, history>>

\* The installer qualifies what it published: IsolatedRuntime.qualify first
\* reads the state and rejects a disabled or broken version.
Preflight(p) ==
  /\ At(p, "preflight")
  /\ IF state[op[p].v].disabled \/ state[op[p].v].broken
       THEN Return(p)
       ELSE Move(p, "trial")
  /\ UNCHANGED <<files, ops, crashes, serving, history>>

\* describe, health, probe, one acquisition and the proxy's observation: all
\* of them pass and a report is issued, or the installer ends.
Trial(p) ==
  /\ At(p, "trial")
  /\ \/ Move(p, "certify") /\ proved' = proved \cup {op[p].v}
     \/ Return(p) /\ UNCHANGED proved
  /\ UNCHANGED <<files, ops, crashes, serving, failing, off, lost>>

\* activate_qualified reads the state ...
Certify(p) ==
  /\ At(p, "certify")
  /\ IF state[op[p].v].disabled \/ state[op[p].v].broken
       THEN Return(p)
       ELSE op' = [op EXCEPT ![p].at = "certified", ![p].seen = state[op[p].v]]
  /\ UNCHANGED <<files, ops, crashes, serving, history>>

\* ... validates the report against the installed files, writes the state and
\* goes on as activate does.
WriteCertified(p) ==
  /\ At(p, "certified")
  /\ WriteState(p, [op[p].seen EXCEPT !.qualified = TRUE])
  /\ failing' = failing \ {op[p].v}
  /\ Move(p, "select")
  /\ UNCHANGED <<installed, active, litter, ops, crashes, serving, proved, off>>

\* qualify: the state is read before the tool runs its three trials ...
BeginQualify(p, v) ==
  /\ v \in installed
  /\ Begin(p, "qualify", v, "running")
  /\ UNCHANGED <<files, crashes, serving, history>>

\* Mutant of EndQualify: a failure leaves the qualified bit as it was read.
EndQualifyLeniently(p) ==
  /\ At(p, "running")
  /\ \E qualified, broken \in BOOLEAN :
       /\ ~(qualified /\ broken)
       /\ WriteState(p, [op[p].seen EXCEPT !.qualified = @ \/ qualified,
                                           !.broken = broken])
       /\ proved' = IF qualified THEN proved \cup {op[p].v} ELSE proved
       /\ failing' = IF qualified THEN failing \ {op[p].v} ELSE failing \cup {op[p].v}
  /\ Return(p)
  /\ UNCHANGED <<installed, active, litter, ops, crashes, serving, off>>

\* ... and written after them: passed, a broken contract, or a broken tool.
EndQualify(p) ==
  /\ At(p, "running")
  /\ \E qualified, broken \in BOOLEAN :
       /\ ~(qualified /\ broken)
       /\ WriteState(p, [op[p].seen EXCEPT !.qualified = qualified,
                                           !.broken = broken])
       /\ proved' = IF qualified THEN proved \cup {op[p].v} ELSE proved
       /\ failing' = IF qualified THEN failing \ {op[p].v} ELSE failing \cup {op[p].v}
  /\ Return(p)
  /\ UNCHANGED <<installed, active, litter, ops, crashes, serving, off>>

BeginActivate(p, v) ==
  /\ v \in installed
  /\ Begin(p, "activate", v, "select")
  /\ UNCHANGED <<files, crashes, serving, history>>

\* rollback: only from a usable active version to an older one.
BeginRollback(p, v) ==
  /\ v \in installed
  /\ active # None /\ Active(active) /\ v < active
  /\ Begin(p, "rollback", v, "select")
  /\ UNCHANGED <<files, crashes, serving, history>>

\* Mutant of Select: activates a version nothing has qualified.
SelectUnqualified(p) ==
  /\ At(p, "select")
  /\ ~state[op[p].v].disabled /\ ~state[op[p].v].broken
  /\ op' = [op EXCEPT ![p].at = "pointing", ![p].to = op[p].v]
  /\ UNCHANGED <<files, ops, crashes, serving, history>>

\* activate: refuses what is not usable when it reads the state.
Select(p) ==
  /\ At(p, "select")
  /\ IF Usable(state[op[p].v])
       THEN op' = [op EXCEPT ![p].at = "pointing", ![p].to = op[p].v]
       ELSE Return(p)
  /\ UNCHANGED <<files, ops, crashes, serving, history>>

BeginDisable(p, v) ==
  /\ v \in installed
  /\ Begin(p, "disable", v, "disabling")
  /\ UNCHANGED <<files, crashes, serving, history>>

\* Mutant of WriteDisabled: disable relies on clearing active.json alone.
LeaveEnabled(p) ==
  /\ At(p, "disabling")
  /\ Move(p, "disabled")
  /\ UNCHANGED <<files, ops, crashes, serving, history>>

WriteDisabled(p) ==
  /\ At(p, "disabling")
  /\ WriteState(p, [op[p].seen EXCEPT !.disabled = TRUE])
  /\ Move(p, "disabled")
  /\ UNCHANGED <<installed, active, litter, ops, crashes, serving, proved, failing, off>>

\* disable clears active.json when it names the version.
ClearActive(p) ==
  /\ At(p, "disabled")
  /\ IF active = op[p].v
       THEN Move(p, "pointing") /\ UNCHANGED off
       ELSE Return(p) /\ off' = off \cup {op[p].v}
  /\ UNCHANGED <<files, ops, crashes, serving, proved, failing, lost>>

\* _write_active: a temporary file beside active.json ...
MakeTemporary(p) ==
  /\ At(p, "pointing")
  /\ Move(p, "renaming")
  /\ UNCHANGED <<files, ops, crashes, serving, history>>

\* ... renamed over it.
Rename(p) ==
  /\ At(p, "renaming")
  /\ active' = op[p].to
  /\ off' = IF op[p].kind = "disable" THEN off \cup {op[p].v} ELSE off
  /\ Return(p)
  /\ UNCHANGED <<installed, state, litter, ops, crashes, serving, proved, failing, lost>>

\* Any step may raise (a file that cannot be read or written, a directory that
\* changes while it is read).  A temporary file is unlinked on the way out; when
\* that fails too, the failure is swallowed and the file stays.
Raise(p) ==
  /\ ~At(p, "idle")
  /\ litter' \in {litter, litter \/ At(p, "renaming")}
  /\ Return(p)
  /\ UNCHANGED <<installed, state, active, ops, crashes, serving, history>>

\* A process that dies while it renames leaves the temporary file behind.
Crash(p) ==
  /\ ~At(p, "idle")
  /\ crashes < MaxCrashes
  /\ crashes' = crashes + 1
  /\ litter' = (litter \/ At(p, "renaming"))
  /\ Return(p)
  /\ UNCHANGED <<installed, state, active, ops, serving, history>>

-----------------------------------------------------------------------------
(* The serving process. *)

\* active_versions lists the tool's directory and reads active.json; what it
\* cannot list makes RuntimeService.open raise.
OpenLists ==
  /\ server = "closed"
  /\ Listable
  /\ server' = "listing"
  /\ catalog' = active
  /\ UNCHANGED <<files, op, ops, crashes, call, history>>

\* It describes the version it read if that is still active.
OpenDescribes ==
  /\ server = "listing"
  /\ server' = "open"
  /\ catalog' = IF catalog # None /\ Active(catalog) THEN catalog ELSE None
  /\ UNCHANGED <<files, op, ops, crashes, call, history>>

Close ==
  /\ server = "open" /\ call.at = "none"
  /\ server' = "closed"
  /\ catalog' = None
  /\ UNCHANGED <<files, op, ops, crashes, call, history>>

\* BrowserAcquisitionTool.acquire: a version that is not active is refused.
Acquire ==
  /\ server = "open" /\ catalog # None /\ call.at = "none"
  /\ Active(catalog)
  /\ call' = [at |-> "checked", v |-> catalog, after |-> catalog \in off]
  /\ UNCHANGED <<files, op, ops, crashes, server, catalog, history>>

\* IsolatedRuntime reads the state once more, then runs the adapter.
Invoke ==
  /\ call.at = "checked"
  /\ call' = IF state[call.v].disabled \/ state[call.v].broken
               THEN [call EXCEPT !.at = "none"]
               ELSE [call EXCEPT !.at = "running"]
  /\ UNCHANGED <<files, op, ops, crashes, server, catalog, history>>

CallEnds ==
  /\ call.at = "running"
  /\ call' = [call EXCEPT !.at = "none"]
  /\ UNCHANGED <<files, op, ops, crashes, server, catalog, history>>

-----------------------------------------------------------------------------

Administer(p) ==
  \/ \E v \in Versions :
       \/ Install(p, v)
       \/ BeginQualify(p, v)
       \/ BeginActivate(p, v)
       \/ BeginRollback(p, v)
       \/ BeginDisable(p, v)
  \/ Publish(p) \/ Preflight(p) \/ Trial(p) \/ Certify(p) \/ WriteCertified(p)
  \/ EndQualify(p)
  \/ Select(p)
  \/ WriteDisabled(p) \/ ClearActive(p)
  \/ MakeTemporary(p) \/ Rename(p)
  \/ Raise(p)
  \/ Crash(p)

Serve ==
  \/ OpenLists \/ OpenDescribes \/ Close
  \/ Acquire \/ Invoke \/ CallEnds

Next == (\E p \in Admins : Administer(p)) \/ Serve

Spec == Init /\ [][Next]_vars

-----------------------------------------------------------------------------

\* The types of the variables.
LifecycleTypeOK ==
  /\ installed \subseteq Versions
  /\ state \in [Versions -> State]
  /\ active \in installed \cup {None}
  /\ litter \in BOOLEAN
  /\ op \in [Admins -> Operations]
  /\ ops \in 0 .. MaxOps
  /\ crashes \in 0 .. MaxCrashes
  /\ server \in {"closed", "listing", "open"}
  /\ catalog \in Versions \cup {None}
  /\ call \in Calls
  /\ proved \subseteq Versions /\ failing \subseteq Versions
  /\ off \subseteq Versions /\ lost \subseteq Versions

\* A version whose latest verdict was a failure is refused by whatever reads its
\* state to activate it, to roll back from it or to call it, until a qualification
\* passes.  A disable that had read the state before that verdict does write the
\* older qualified bit back over it (lifecycle.py:240-243), but never without
\* disabling the version, and nothing enables a version again except a verdict.
VerdictsStand == \A v \in failing : ~Usable(state[v])

\* What active.json names, and what a process serves, is an installed version
\* that has passed a qualification, whatever operations and crashes were
\* interleaved: activate reads the state and writes active.json in two steps,
\* and stale copies of the state are written back in between.  They do not bring
\* back a version that has failed since.
ServesOnlyQualified ==
  /\ LifecycleTypeOK
  /\ \A v \in {active, catalog} \ {None} : v \in installed \cap proved
  /\ VerdictsStand

\* A call that begins after a disable has returned does not reach the adapter
\* (lifecycle.py:242, tools/browser/README.md:72), unless a qualification that
\* had read the state before the disable wrote it back afterwards: no other
\* interleaving of the operations undoes a disable.
DisabledIsNotInvoked ==
  call.at = "running" /\ call.after => call.v \in lost

=============================================================================
