------------------------ MODULE ToolLifecycleProofs ------------------------
(***************************************************************************)
(* The invariants of ToolLifecycle, for any versions, any number of        *)
(* administrators' processes, operations and crashes.                      *)
(***************************************************************************)
EXTENDS ToolLifecycle, TLAPS

USE DEF files, serving, history

\* What an operation under way knows: its version is installed (except while
\* its install is only staged); what it read as qualified, what it certifies
\* and what it is about to activate was proved; once it has written a disable,
\* the bit is in the state file or was overwritten.
OpGood(o) ==
  /\ o.at # "idle" => o.v \in Versions
  /\ o.at \notin {"idle", "staged"} => o.v \in installed
  /\ o.at # "idle" /\ o.seen.qualified => o.v \in proved
  /\ o.at \in {"certify", "certified"} => o.v \in proved
  /\ o.at # "idle" /\ o.to # None => o.to \in installed \cap proved
  /\ o.at \in {"disabling", "disabled"} => o.kind = "disable"
  /\ o.kind = "disable" => o.at \in {"idle", "disabling", "disabled", "pointing", "renaming"}
  /\ o.kind = "disable" /\ o.at \in {"disabled", "pointing", "renaming"}
       => state[o.v].disabled \/ o.v \in lost

FileTypes ==
  /\ installed \subseteq Versions
  /\ state \in [Versions -> State]
  /\ active \in (installed \cap proved) \cup {None}
  /\ litter \in BOOLEAN
  /\ ops \in 0 .. MaxOps
  /\ crashes \in 0 .. MaxCrashes
  /\ proved \subseteq Versions /\ off \subseteq installed /\ lost \subseteq Versions
  /\ failing \subseteq Versions

\* qualified is written by qualifications, and a disable that has returned is
\* in the state file unless it is among the lost ones.
FilesGood ==
  /\ FileTypes
  /\ \A v \in Versions : state[v].qualified => v \in proved
  /\ \A v \in off : state[v].disabled \/ v \in lost
  /\ VerdictsStand

\* A call that began after a disable got past it only where it was lost.
ServingGood ==
  /\ server \in {"closed", "listing", "open"}
  /\ catalog \in (installed \cap proved) \cup {None}
  /\ call \in Calls
  /\ call.at # "none" /\ call.after => call.v \in lost

IInv ==
  /\ FilesGood
  /\ ServingGood
  /\ op \in [Admins -> Operations]
  /\ \A p \in Admins : OpGood(op[p])

\* What no step takes back.
Grows ==
  /\ installed \subseteq installed' /\ proved \subseteq proved' /\ lost \subseteq lost'
  /\ \A v \in installed : state[v].disabled => state'[v].disabled \/ v \in lost'

LEMMA IdleTypes == Idle \in Operations /\ Idle.at = "idle" /\ Fresh \in State
<1>1. Fresh \in State BY DEF Fresh, State
<1>2. "idle" \in Stages /\ None \in Kinds \cup {None} /\ None \in Versions \cup {None}
  BY DEF Stages
<1>3. QED BY <1>1, <1>2 DEF Idle, Operations

LEMMA InitHolds == Init => IInv
<1> SUFFICES ASSUME Init PROVE IInv OBVIOUS
<1>1. FileTypes
  <2>1. state \in [Versions -> State] BY IdleTypes DEF Init
  <2>2. ops \in 0 .. MaxOps /\ crashes \in 0 .. MaxCrashes
    BY BoundsAssumption DEF Init
  <2>3. QED BY <2>1, <2>2 DEF Init, FileTypes
<1>4. FilesGood
  BY <1>1 DEF Init, FilesGood, Fresh, VerdictsStand
<1>2. ServingGood BY DEF Init, ServingGood, Calls
<1>3. QED BY <1>4, <1>2, IdleTypes DEF Init, IInv, OpGood

\* The other operations keep what they know while one takes a step.
LEMMA StepKeeps ==
  ASSUME IInv, NEW p \in Admins,
         op' = [op EXCEPT ![p] = op'[p]], op'[p] \in Operations, OpGood(op[p])',
         Grows, FilesGood', UNCHANGED serving
  PROVE  IInv'
<1>1. op' \in [Admins -> Operations] BY DEF IInv
<1>2. ASSUME NEW q \in Admins, q # p PROVE OpGood(op[q])'
  <2>1. op'[q] = op[q] /\ op[q] \in Operations BY <1>2 DEF IInv
  <2>2. OpGood(op[q]) BY DEF IInv
  <2>3. op[q].at \in {"disabled", "pointing", "renaming"} => op[q].v \in installed
    BY <2>2 DEF OpGood
  <2>4. QED BY <2>1, <2>2, <2>3 DEF OpGood, Grows
<1>3. ServingGood' BY DEF IInv, ServingGood, Grows
<1>4. QED BY <1>1, <1>2, <1>3 DEF IInv

\* A step that only moves one operation on, or begins or ends one.
LEMMA MoveKeeps ==
  ASSUME IInv, NEW p \in Admins,
         op' = [op EXCEPT ![p] = op'[p]], op'[p] \in Operations, OpGood(op[p])',
         UNCHANGED <<files, crashes, serving, history>>, ops' \in 0 .. MaxOps
  PROVE  IInv'
<1>1. Grows BY DEF Grows
<1>2. FilesGood' BY DEF IInv, FilesGood, FileTypes, VerdictsStand
<1>3. QED BY <1>1, <1>2, StepKeeps

LEMMA BeginKeeps ==
  ASSUME IInv, NEW p \in Admins, NEW v \in Versions, NEW kind \in Kinds,
         NEW stage \in {"staged", "running", "select", "disabling"},
         stage = "staged" \/ v \in installed, kind = "disable" <=> stage = "disabling",
         Begin(p, kind, v, stage),
         UNCHANGED <<files, crashes, serving, history>>
  PROVE  IInv'
<1> DEFINE o == [at |-> stage, kind |-> kind, v |-> v, to |-> None, seen |-> state[v]]
<1>1. op' = [op EXCEPT ![p] = o] BY DEF Begin
<1>2. op'[p] = o BY <1>1 DEF IInv
<1>3. o \in Operations
  <2>1. stage \in Stages /\ state[v] \in State BY DEF Stages, IInv, FilesGood, FileTypes
  <2>2. QED BY <2>1 DEF Operations
<1>4. OpGood(op[p])' BY <1>2 DEF OpGood, IInv, FilesGood
<1>5. ops' \in 0 .. MaxOps
  BY BoundsAssumption DEF Begin, IInv, FilesGood, FileTypes
<1>6. QED BY <1>1, <1>2, <1>3, <1>4, <1>5, MoveKeeps

LEMMA ReturnIsGood ==
  ASSUME IInv, NEW p \in Admins, Return(p)
  PROVE  op' = [op EXCEPT ![p] = op'[p]] /\ op'[p] \in Operations /\ OpGood(op[p])'
<1>1. op'[p] = Idle BY DEF Return, IInv
<1>2. QED BY <1>1, IdleTypes DEF Return, OpGood

LEMMA MoveIsTyped ==
  ASSUME IInv, NEW p \in Admins, NEW stage \in Stages, Move(p, stage)
  PROVE  /\ op' = [op EXCEPT ![p] = op'[p]]
         /\ op'[p] = [op[p] EXCEPT !.at = stage]
         /\ op'[p] \in Operations
<1>1. op[p] \in Operations BY DEF IInv
<1>2. QED BY <1>1 DEF Move, IInv, Operations

\* Writing a state file keeps FilesGood and Grows.
LEMMA WriteIsGood ==
  ASSUME IInv, NEW p \in Admins, op[p].v \in installed, NEW new \in State,
         WriteState(p, new), new.qualified => op[p].v \in proved',
         proved \subseteq proved', proved' \subseteq Versions,
         failing' \subseteq failing \cup {op[p].v}, op[p].v \in failing' => ~Usable(new),
         UNCHANGED <<installed, active, litter, ops, crashes, off>>
  PROVE  /\ FilesGood' /\ Grows
         /\ state'[op[p].v] = new
         /\ \A v \in Versions \ {op[p].v} : state'[v] = state[v]
<1>1. op[p].v \in Versions BY DEF IInv, FilesGood, FileTypes
<1>2. state'[op[p].v] = new /\ \A v \in Versions \ {op[p].v} : state'[v] = state[v]
  BY <1>1 DEF WriteState, IInv, FilesGood, FileTypes
<1>3. state' \in [Versions -> State] /\ lost \subseteq lost' /\ lost' \subseteq Versions
  BY <1>1 DEF WriteState, IInv, FilesGood, FileTypes
<1>4. state[op[p].v].disabled /\ ~new.disabled => op[p].v \in lost'
  BY DEF WriteState
<1>5. Grows BY <1>2, <1>3, <1>4 DEF Grows, IInv, FilesGood, FileTypes
<1>6. VerdictsStand'
  <2> SUFFICES ASSUME NEW v \in failing' PROVE ~Usable(state'[v])
    BY DEF VerdictsStand, Usable
  <2>1. CASE v = op[p].v BY <2>1, <1>2
  <2>2. CASE v # op[p].v
    <3>1. v \in failing /\ v \in Versions BY <2>2 DEF IInv, FilesGood, FileTypes
    <3>2. QED BY <3>1, <2>2, <1>2 DEF IInv, FilesGood, VerdictsStand
  <2>3. QED BY <2>1, <2>2
<1>7. FilesGood'
  BY <1>1, <1>2, <1>3, <1>4, <1>6 DEF IInv, FilesGood, FileTypes
<1>8. QED BY <1>2, <1>5, <1>7

-----------------------------------------------------------------------------
(* One lemma per kind of step. *)

LEMMA PublishKeeps ==
  ASSUME IInv, NEW p \in Admins, Publish(p) PROVE IInv'
<1>1. op[p] \in Operations /\ OpGood(op[p]) BY DEF IInv
<1>2. op[p].v \in Versions /\ op[p].at = "staged"
  BY <1>1 DEF Publish, At, OpGood
<1>3. CASE op[p].v \in installed
  BY <1>3, ReturnIsGood, MoveKeeps DEF Publish, IInv, FilesGood, FileTypes
<1>4. CASE op[p].v \notin installed
  <2>1. Move(p, "preflight") /\ installed' = installed \cup {op[p].v}
        /\ state' = [state EXCEPT ![op[p].v] = Fresh]
    BY <1>4 DEF Publish
  <2>2. Grows BY <1>2, <1>4, <2>1 DEF Grows, Publish, IInv, FilesGood, FileTypes
  <2>3. FilesGood'
    <3>1. FileTypes'
      BY <1>2, <2>1, IdleTypes DEF Publish, IInv, FilesGood, FileTypes
    <3>2. \A v \in Versions : state'[v] = IF v = op[p].v THEN Fresh ELSE state[v]
      BY <1>2, <2>1 DEF IInv, FilesGood, FileTypes
    <3>3. \A v \in Versions : state'[v].qualified => v \in proved'
      BY <3>2 DEF Fresh, Publish, IInv, FilesGood
    <3>4. \A v \in off' : state'[v].disabled \/ v \in lost'
      BY <1>4, <3>2 DEF Publish, IInv, FilesGood, FileTypes
    <3>5. VerdictsStand'
      BY <3>2 DEF VerdictsStand, Usable, Fresh, Publish, IInv, FilesGood, FileTypes
    <3>6. QED BY <3>1, <3>3, <3>4, <3>5 DEF FilesGood
  <2>4. /\ op' = [op EXCEPT ![p] = op'[p]]
        /\ op'[p] = [op[p] EXCEPT !.at = "preflight"] /\ op'[p] \in Operations
    BY <2>1, MoveIsTyped DEF Stages
  <2>5. OpGood(op[p])'
    BY <1>1, <1>2, <2>1, <2>4 DEF OpGood, Operations, Publish
  <2>6. QED BY <2>2, <2>3, <2>4, <2>5, StepKeeps DEF Publish
<1>5. QED BY <1>3, <1>4

LEMMA PreflightKeeps ==
  ASSUME IInv, NEW p \in Admins, Preflight(p) PROVE IInv'
<1>1. op[p] \in Operations /\ OpGood(op[p]) BY DEF IInv
<1>2. ops' \in 0 .. MaxOps BY DEF Preflight, IInv, FilesGood, FileTypes
<1>3. CASE Return(p) BY <1>2, <1>3, ReturnIsGood, MoveKeeps DEF Preflight
<1>4. CASE Move(p, "trial")
  <2>1. /\ op' = [op EXCEPT ![p] = op'[p]] /\ op'[p] \in Operations
        /\ op'[p] = [op[p] EXCEPT !.at = "trial"]
    BY <1>4, MoveIsTyped DEF Stages
  <2>2. OpGood(op[p])' BY <1>1, <2>1 DEF OpGood, Operations, Preflight, At
  <2>3. QED BY <1>2, <2>1, <2>2, MoveKeeps DEF Preflight
<1>5. QED BY <1>3, <1>4 DEF Preflight

LEMMA TrialKeeps ==
  ASSUME IInv, NEW p \in Admins, Trial(p) PROVE IInv'
<1>1. op[p] \in Operations /\ OpGood(op[p]) BY DEF IInv
<1>2. op[p].v \in Versions /\ op[p].v \in installed
  BY <1>1 DEF OpGood, Trial, At
<1>3. CASE Return(p) /\ UNCHANGED proved
  BY <1>3, ReturnIsGood, MoveKeeps DEF Trial, IInv, FilesGood, FileTypes
<1>4. CASE Move(p, "certify") /\ proved' = proved \cup {op[p].v}
  <2>1. /\ op' = [op EXCEPT ![p] = op'[p]] /\ op'[p] \in Operations
        /\ op'[p] = [op[p] EXCEPT !.at = "certify"]
    BY <1>4, MoveIsTyped DEF Stages
  <2>2. OpGood(op[p])' BY <1>1, <1>2, <1>4, <2>1 DEF OpGood, Operations, Trial, At
  <2>3. Grows BY <1>4 DEF Grows, Trial
  <2>4. FilesGood'
    BY <1>2, <1>4 DEF Trial, IInv, FilesGood, FileTypes, VerdictsStand
  <2>5. QED BY <2>1, <2>2, <2>3, <2>4, StepKeeps DEF Trial
<1>5. QED BY <1>3, <1>4 DEF Trial

LEMMA CertifyKeeps ==
  ASSUME IInv, NEW p \in Admins, Certify(p) PROVE IInv'
<1>1. op[p] \in Operations /\ OpGood(op[p]) BY DEF IInv
<1>2. ops' \in 0 .. MaxOps BY DEF Certify, IInv, FilesGood, FileTypes
<1>3. CASE Return(p) BY <1>2, <1>3, ReturnIsGood, MoveKeeps DEF Certify
<1>4. CASE op' = [op EXCEPT ![p].at = "certified", ![p].seen = state[op[p].v]]
  <2>1. op[p].v \in Versions /\ op[p].v \in proved /\ op[p].at = "certify"
    BY <1>1 DEF Certify, At, OpGood
  <2>2. /\ op' = [op EXCEPT ![p] = op'[p]]
        /\ op'[p] = [op[p] EXCEPT !.at = "certified", !.seen = state[op[p].v]]
    BY <1>4 DEF IInv
  <2>3. op'[p] \in Operations
    BY <1>1, <2>1, <2>2 DEF Operations, Stages, IInv, FilesGood, FileTypes
  <2>4. OpGood(op[p])' BY <1>1, <2>1, <2>2 DEF OpGood, Operations, Certify
  <2>5. QED BY <1>2, <2>2, <2>3, <2>4, MoveKeeps DEF Certify
<1>5. QED BY <1>3, <1>4 DEF Certify

LEMMA WriteCertifiedKeeps ==
  ASSUME IInv, NEW p \in Admins, WriteCertified(p) PROVE IInv'
<1>1. op[p] \in Operations /\ OpGood(op[p]) BY DEF IInv
<1>2. /\ op[p].v \in installed /\ op[p].v \in proved /\ op[p].v \in Versions
      /\ op[p].at = "certified"
  BY <1>1 DEF WriteCertified, At, OpGood
<1> DEFINE new == [op[p].seen EXCEPT !.qualified = TRUE]
<1>3. new \in State BY <1>1 DEF Operations, State
<1>4. WriteState(p, new) /\ Move(p, "select") BY DEF WriteCertified
<1>5. proved' = proved /\ proved \subseteq Versions
  BY DEF WriteCertified, IInv, FilesGood, FileTypes
<1> HIDE DEF new
<1>6. failing' = failing \ {op[p].v} BY DEF WriteCertified
<1>7. FilesGood' /\ Grows
  BY <1>2, <1>3, <1>4, <1>5, <1>6, WriteIsGood DEF WriteCertified
<1>8. /\ op' = [op EXCEPT ![p] = op'[p]] /\ op'[p] \in Operations
      /\ op'[p] = [op[p] EXCEPT !.at = "select"]
  BY <1>4, MoveIsTyped DEF Stages
<1>9. OpGood(op[p])' BY <1>1, <1>2, <1>5, <1>8 DEF OpGood, Operations, WriteCertified
<1>10. QED BY <1>7, <1>8, <1>9, StepKeeps DEF WriteCertified

LEMMA EndQualifyKeeps ==
  ASSUME IInv, NEW p \in Admins, EndQualify(p) PROVE IInv'
<1>1. op[p] \in Operations /\ OpGood(op[p]) BY DEF IInv
<1>2. op[p].v \in installed /\ op[p].v \in Versions
  BY <1>1 DEF EndQualify, At, OpGood
<1>3. PICK qualified \in BOOLEAN, broken \in BOOLEAN :
        /\ WriteState(p, [op[p].seen EXCEPT !.qualified = qualified, !.broken = broken])
        /\ proved' = IF qualified THEN proved \cup {op[p].v} ELSE proved
        /\ failing' = IF qualified THEN failing \ {op[p].v} ELSE failing \cup {op[p].v}
  BY DEF EndQualify
<1> DEFINE new == [op[p].seen EXCEPT !.qualified = qualified, !.broken = broken]
<1>4. new \in State /\ new.qualified = qualified BY <1>1 DEF Operations, State
<1>5. proved \subseteq proved' /\ proved' \subseteq Versions
      /\ (new.qualified => op[p].v \in proved')
  BY <1>2, <1>3, <1>4 DEF IInv, FilesGood, FileTypes
<1>6. WriteState(p, new) BY <1>3
<1> HIDE DEF new
<1>7. /\ failing' \subseteq failing \cup {op[p].v}
      /\ op[p].v \in failing' => ~Usable(new)
  BY <1>3, <1>4 DEF Usable
<1>8. FilesGood' /\ Grows
  BY <1>2, <1>4, <1>5, <1>6, <1>7, WriteIsGood DEF EndQualify
<1>9. QED BY <1>8, ReturnIsGood, StepKeeps DEF EndQualify

LEMMA WriteDisabledKeeps ==
  ASSUME IInv, NEW p \in Admins, WriteDisabled(p) PROVE IInv'
<1>1. op[p] \in Operations /\ OpGood(op[p]) BY DEF IInv
<1>2. /\ op[p].v \in installed /\ op[p].v \in Versions /\ op[p].at = "disabling"
      /\ (op[p].seen.qualified => op[p].v \in proved)
  BY <1>1 DEF WriteDisabled, At, OpGood
<1> DEFINE new == [op[p].seen EXCEPT !.disabled = TRUE]
<1>3. new \in State /\ new.disabled /\ new.qualified = op[p].seen.qualified
  BY <1>1 DEF Operations, State
<1>4. WriteState(p, new) /\ Move(p, "disabled") BY DEF WriteDisabled
<1>5. proved' = proved /\ proved \subseteq Versions
  BY DEF WriteDisabled, IInv, FilesGood, FileTypes
<1> HIDE DEF new
<1>6. failing' = failing /\ ~Usable(new) BY <1>3 DEF WriteDisabled, Usable
<1>7. FilesGood' /\ Grows /\ state'[op[p].v] = new
  BY <1>2, <1>3, <1>4, <1>5, <1>6, WriteIsGood DEF WriteDisabled
<1>8. /\ op' = [op EXCEPT ![p] = op'[p]] /\ op'[p] \in Operations
      /\ op'[p] = [op[p] EXCEPT !.at = "disabled"]
  BY <1>4, MoveIsTyped DEF Stages
<1>9. OpGood(op[p])'
  BY <1>1, <1>2, <1>3, <1>5, <1>7, <1>8 DEF OpGood, Operations, WriteDisabled
<1>10. QED BY <1>7, <1>8, <1>9, StepKeeps DEF WriteDisabled

LEMMA SelectKeeps ==
  ASSUME IInv, NEW p \in Admins, Select(p) PROVE IInv'
<1>1. op[p] \in Operations /\ OpGood(op[p]) BY DEF IInv
<1>2. ops' \in 0 .. MaxOps BY DEF Select, IInv, FilesGood, FileTypes
<1>3. CASE Return(p) BY <1>2, <1>3, ReturnIsGood, MoveKeeps DEF Select
<1>4. CASE ~Return(p)
  <2>1. /\ op[p].v \in Versions /\ op[p].v \in installed
        /\ Usable(state[op[p].v]) /\ op[p].at = "select"
        /\ op' = [op EXCEPT ![p].at = "pointing", ![p].to = op[p].v]
    BY <1>1, <1>4 DEF Select, At, OpGood
  <2>2. op[p].v \in proved BY <2>1 DEF Usable, IInv, FilesGood
  <2>3. /\ op' = [op EXCEPT ![p] = op'[p]]
        /\ op'[p] = [op[p] EXCEPT !.at = "pointing", !.to = op[p].v]
    BY <2>1 DEF IInv
  <2>7. "pointing" \in Stages /\ op[p].v \in Versions \cup {None} BY <2>1 DEF Stages
  <2>4. op'[p] \in Operations BY <1>1, <2>3, <2>7 DEF Operations
  <2>8. /\ op'[p].at = "pointing" /\ op'[p].to = op[p].v /\ op'[p].v = op[p].v
        /\ op'[p].kind = op[p].kind /\ op'[p].seen = op[p].seen
    BY <1>1, <2>3 DEF Operations
  <2>9. op[p].kind # "disable" BY <1>1, <2>1 DEF OpGood
  <2>5. OpGood(op[p])'
    BY <1>1, <2>1, <2>2, <2>8, <2>9 DEF OpGood, Select
  <2>6. QED BY <1>2, <2>3, <2>4, <2>5, MoveKeeps DEF Select
<1>5. QED BY <1>3, <1>4

LEMMA ClearActiveKeeps ==
  ASSUME IInv, NEW p \in Admins, ClearActive(p) PROVE IInv'
<1>1. op[p] \in Operations /\ OpGood(op[p]) BY DEF IInv
<1>2. CASE Move(p, "pointing") /\ UNCHANGED off
  <2>1. /\ op' = [op EXCEPT ![p] = op'[p]] /\ op'[p] \in Operations
        /\ op'[p] = [op[p] EXCEPT !.at = "pointing"]
    BY <1>2, MoveIsTyped DEF Stages
  <2>2. OpGood(op[p])' BY <1>1, <2>1 DEF OpGood, Operations, ClearActive, At
  <2>3. ops' \in 0 .. MaxOps BY DEF ClearActive, IInv, FilesGood, FileTypes
  <2>4. QED BY <1>2, <2>1, <2>2, <2>3, MoveKeeps DEF ClearActive
<1>3. CASE Return(p) /\ off' = off \cup {op[p].v} /\ op[p].kind = "disable"
  <2>1. op[p].v \in installed /\ (state[op[p].v].disabled \/ op[p].v \in lost)
    BY <1>1, <1>3 DEF OpGood, ClearActive, At
  <2>2. FilesGood'
    BY <1>3, <2>1 DEF ClearActive, IInv, FilesGood, FileTypes, VerdictsStand
  <2>3. Grows BY DEF Grows, ClearActive
  <2>4. QED BY <1>3, <2>2, <2>3, ReturnIsGood, StepKeeps DEF ClearActive
<1>4. op[p].kind = "disable"
  BY <1>1 DEF OpGood, ClearActive, At
<1>5. QED BY <1>2, <1>3, <1>4 DEF ClearActive

LEMMA MakeTemporaryKeeps ==
  ASSUME IInv, NEW p \in Admins, MakeTemporary(p) PROVE IInv'
<1>1. op[p] \in Operations /\ OpGood(op[p]) BY DEF IInv
<1>2. /\ op' = [op EXCEPT ![p] = op'[p]] /\ op'[p] \in Operations
      /\ op'[p] = [op[p] EXCEPT !.at = "renaming"]
  BY MoveIsTyped DEF MakeTemporary, Stages
<1>3. OpGood(op[p])' BY <1>1, <1>2 DEF OpGood, Operations, MakeTemporary, At
<1>4. ops' \in 0 .. MaxOps BY DEF MakeTemporary, IInv, FilesGood, FileTypes
<1>5. QED BY <1>2, <1>3, <1>4, MoveKeeps DEF MakeTemporary

LEMMA RenameKeeps ==
  ASSUME IInv, NEW p \in Admins, Rename(p) PROVE IInv'
<1>1. op[p] \in Operations /\ OpGood(op[p]) BY DEF IInv
<1>2. /\ op[p].at = "renaming" /\ op[p].v \in installed
      /\ op[p].to \in (installed \cap proved) \cup {None}
      /\ (op[p].kind = "disable" => state[op[p].v].disabled \/ op[p].v \in lost)
  BY <1>1 DEF Rename, At, OpGood
<1>3. FilesGood'
  BY <1>2 DEF Rename, IInv, FilesGood, FileTypes, VerdictsStand
<1>4. Grows BY DEF Grows, Rename
<1>5. QED BY <1>3, <1>4, ReturnIsGood, StepKeeps DEF Rename

LEMMA EndsKeep ==
  ASSUME IInv, NEW p \in Admins, Raise(p) \/ Crash(p) PROVE IInv'
<1>1. FilesGood'
  <2> USE DEF IInv, FilesGood, FileTypes, VerdictsStand
  <2>1. CASE Raise(p)
    <3>1. litter' \in BOOLEAN BY <2>1, Zenon DEF Raise, At
    <3>2. QED BY <2>1, <3>1 DEF Raise
  <2>2. CASE Crash(p)
    <3>1. crashes' \in 0 .. MaxCrashes
      BY <2>2, BoundsAssumption DEF Crash
    <3>2. litter' \in BOOLEAN BY <2>2, Zenon DEF Crash, At
    <3>3. QED BY <2>2, <3>1, <3>2 DEF Crash
  <2>3. QED BY <2>1, <2>2
<1>2. Grows BY DEF Grows, Raise, Crash
<1>3. QED BY <1>1, <1>2, ReturnIsGood, StepKeeps DEF Raise, Crash

LEMMA BeginsKeep ==
  ASSUME IInv, NEW p \in Admins, NEW v \in Versions,
         \/ Install(p, v) \/ BeginQualify(p, v) \/ BeginActivate(p, v)
         \/ BeginRollback(p, v) \/ BeginDisable(p, v)
  PROVE  IInv'
<1>1. \/ Begin(p, "install", v, "staged")
      \/ v \in installed /\ \E kind \in Kinds, stage \in {"running", "select", "disabling"} :
           Begin(p, kind, v, stage) /\ (kind = "disable" <=> stage = "disabling")
  BY DEF Install, BeginQualify, BeginActivate, BeginRollback, BeginDisable, Kinds
<1>2. UNCHANGED <<files, crashes, serving, history>>
  BY DEF Install, BeginQualify, BeginActivate, BeginRollback, BeginDisable
<1>3. QED BY <1>1, <1>2, BeginKeeps DEF Kinds

LEMMA ServeKeeps ==
  ASSUME IInv, Serve PROVE IInv'
<1> USE DEF OpenLists, OpenDescribes, Close, Acquire, Invoke, CallEnds
<1>1. UNCHANGED <<files, op, ops, crashes, history>> BY DEF Serve
<1>2. FilesGood' /\ op' \in [Admins -> Operations] /\ \A p \in Admins : OpGood(op[p])'
  BY <1>1 DEF IInv, FilesGood, FileTypes, VerdictsStand, OpGood
<1>3. ServingGood'
  <2> USE DEF IInv, ServingGood, FilesGood, FileTypes, Calls
  <2>1. CASE Acquire
    <3>1. catalog \in installed /\ catalog \in Versions /\ ~state[catalog].disabled
      BY <2>1 DEF Active, Usable
    <3>2. catalog \in off => catalog \in lost BY <3>1
    <3>3. call'.v = catalog /\ call'.after = (catalog \in off) /\ call'.at = "checked"
      BY <2>1
    <3>4. call' \in Calls BY <2>1, <3>1
    <3>5. QED BY <2>1, <3>2, <3>3, <3>4
  <2>2. CASE Invoke BY <2>2
  <2>3. CASE CallEnds BY <2>3
  <2>4. CASE OpenLists \/ OpenDescribes \/ Close BY <2>4
  <2>5. QED BY <2>1, <2>2, <2>3, <2>4 DEF Serve
<1>4. QED BY <1>2, <1>3 DEF IInv

LEMMA StutterKeeps == IInv /\ UNCHANGED vars => IInv'
  BY DEF IInv, vars, FilesGood, FileTypes, VerdictsStand, ServingGood, OpGood

-----------------------------------------------------------------------------

\* IInv is inductive.
THEOREM InductiveHolds == Spec => []IInv
<1>1. IInv /\ [Next]_vars => IInv'
  <2> SUFFICES ASSUME IInv, [Next]_vars PROVE IInv' OBVIOUS
  <2>1. ASSUME NEW p \in Admins, Administer(p) PROVE IInv'
    BY <2>1, BeginsKeep, PublishKeeps, PreflightKeeps, TrialKeeps, CertifyKeeps,
       WriteCertifiedKeeps, EndQualifyKeeps, SelectKeeps, WriteDisabledKeeps,
       ClearActiveKeeps, MakeTemporaryKeeps, RenameKeeps, EndsKeep
       DEF Administer
  <2>2. QED BY <2>1, ServeKeeps, StutterKeeps DEF Next
<1>2. QED BY InitHolds, <1>1, PTL DEF Spec

\* Only an installed version that passed a qualification is ever named by
\* active.json or served, and none whose latest verdict was a failure is usable, whatever
\* the processes interleave, whatever stale copies they write, and wherever they die.
THEOREM OnlyQualifiedIsServed == Spec => []ServesOnlyQualified
<1>1. IInv => ServesOnlyQualified
  BY DEF IInv, FilesGood, FileTypes, ServingGood, ServesOnlyQualified, LifecycleTypeOK
<1>2. QED BY <1>1, InductiveHolds, PTL

\* A call begun after a disable does not reach the adapter, unless a stale
\* qualification overwrote that disable.
THEOREM DisableHolds == Spec => []DisabledIsNotInvoked
<1>1. IInv => DisabledIsNotInvoked BY DEF IInv, ServingGood, DisabledIsNotInvoked
<1>2. QED BY <1>1, InductiveHolds, PTL

=============================================================================
