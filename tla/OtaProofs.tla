------------------------------ MODULE OtaProofs -----------------------------
(***************************************************************************)
(* Firmware updates, proved for any number of deployments, images, shadow  *)
(* keys, crashes and power failures.                                       *)
(*                                                                         *)
(* The backend: OnlyNewestLive, CommandIsLive and CommandKeptWhileLive, on *)
(* either database and whatever the device reports.  The two invariants    *)
(* are inductive together with one fact neither states: the table has no   *)
(* row at or beyond the id sequence, so that a row that is inserted is     *)
(* always the newest.                                                      *)
(*                                                                         *)
(* The device: AlwaysRecoverable, SuccessWasConfirmed and                  *)
(* ConfirmedNotUndone, whatever it is commanded.  The invariant says, for  *)
(* each stage of the client, which of its files agree (Written,            *)
(* ProvedBefore), what the journal may be believed on (JournalTruthful),   *)
(* and what the lock excludes (LockHeld).                                  *)
(*                                                                         *)
(* The two together: OutcomeTruthful, over a network that loses, repeats   *)
(* and reorders.                                                           *)
(*                                                                         *)
(* The images: ReportedIsStored and LinkServesItsImage, for any number of  *)
(* object stores and concurrent requests, on either database.  The first   *)
(* needs that a request never removes an object that a reported row names: *)
(* who compensates was never reported, and who deletes has removed the     *)
(* only row with that key.  The second needs that an id with a link is not *)
(* handed out again, for a different reason on each database.              *)
(***************************************************************************)
EXTENDS OtaSystem, FirmwareStore, TLAPS

(* The backend. *)

Statuses == Live \cup Terminal \cup {"absent"}

Row == [firmware : Firmwares \cup {0}, status : Statuses]

Typed == deployments \in [DeploymentIds -> Row] /\ nextId \in Nat \ {0}

\* Ids are handed out in order.
NothingBeyond == \A d \in DeploymentIds : d >= nextId => deployments[d].status = "absent"

OtaInv == Typed /\ NothingBeyond /\ OnlyNewestLive /\ CommandIsLive

-----------------------------------------------------------------------------
(* What the shadow's operations do to the command it carries. *)

\* A status that is under way is neither an end nor the absence of a row.
LEMMA LiveStatuses ==
    /\ Live = {"pending", "downloading", "verifying", "installing", "rebooting"}
    /\ "pending" \in Live
    /\ Live \cap Terminal = {}
    /\ "absent" \notin Live \cup Terminal
<1>1. Live = {"pending", "downloading", "verifying", "installing", "rebooting"}
  <2>1. 1..5 = {1, 2, 3, 4, 5}
    OBVIOUS
  <2>2. /\ Progress[1] = "pending" /\ Progress[2] = "downloading"
        /\ Progress[3] = "verifying" /\ Progress[4] = "installing"
        /\ Progress[5] = "rebooting"
    BY DEF Progress
  <2> QED
    BY <2>1, <2>2 DEF Live
<1> QED
  BY <1>1 DEF Terminal

\* A patch of the desired state that does not name "ota" keeps the command.
LEMMA OtherKeysKeepCommand ==
    ASSUME NEW s, NEW patch, NEW d, "ota" \notin DOMAIN patch
    PROVE  CommandsDeployment(PatchDesired(s, patch), d) <=> CommandsDeployment(s, d)
<1>1. PatchDesired(s, patch).desired = Merge(s.desired, patch)
  BY DEF PatchDesired
<1>2. "ota" \in DOMAIN Merge(s.desired, patch) <=> "ota" \in DOMAIN s.desired
  BY DEF Merge
<1>3. "ota" \in DOMAIN s.desired => Merge(s.desired, patch)["ota"] = s.desired["ota"]
  BY DEF Merge
<1> QED
  BY <1>1, <1>2, <1>3 DEF CommandsDeployment

\* A patch that sets "ota" commands exactly the deployment it names.
LEMMA CommandReplaces ==
    ASSUME NEW s, NEW n, NEW d
    PROVE  CommandsDeployment(PatchDesired(s, [k \in {"ota"} |-> <<"command", n>>]), d)
              <=> d = n
<1> DEFINE patch == [k \in {"ota"} |-> <<"command", n>>]
<1>1. PatchDesired(s, patch).desired = Merge(s.desired, patch)
  BY DEF PatchDesired
<1>2. DOMAIN patch = {"ota"} /\ patch["ota"] = <<"command", n>> /\ patch["ota"] # Null
  BY DEF Null
<1>3. "ota" \in DOMAIN Merge(s.desired, patch)
       /\ Merge(s.desired, patch)["ota"] = <<"command", n>>
  <2> HIDE DEF patch
  <2> QED
    BY <1>2 DEF Merge
<1> HIDE DEF patch
<1>4. CommandsDeployment(PatchDesired(s, patch), d) <=> d = n
  BY <1>1, <1>3 DEF CommandsDeployment
<1> QED
  BY <1>4 DEF patch

\* clear_ota_for_deployment removes the command of its deployment and no other.
LEMMA ClearRemoves ==
    ASSUME NEW s, NEW n, NEW d
    PROVE  CommandsDeployment(ClearOta(s, n), d) <=> CommandsDeployment(s, d) /\ d # n
<1> DEFINE patch == [k \in {"ota"} |-> Null]
<1>1. PatchDesired(s, patch).desired = Merge(s.desired, patch)
  BY DEF PatchDesired
<1>2. DOMAIN patch = {"ota"} /\ patch["ota"] = Null
  OBVIOUS
<1>3. "ota" \notin DOMAIN Merge(s.desired, patch)
  <2> HIDE DEF patch
  <2> QED
    BY <1>2 DEF Merge
<1>4. CASE CommandsDeployment(s, n)
  <2>1. ClearOta(s, n) = PatchDesired(s, patch)
    BY <1>4 DEF ClearOta
  <2>2. ~CommandsDeployment(ClearOta(s, n), d)
    <3> HIDE DEF patch
    <3> QED
      BY <2>1, <1>1, <1>3 DEF CommandsDeployment
  <2>3. CommandsDeployment(s, d) => d = n
    BY <1>4 DEF CommandsDeployment
  <2> QED
    BY <2>2, <2>3
<1>5. CASE ~CommandsDeployment(s, n)
  <2>1. ClearOta(s, n) = s
    BY <1>5 DEF ClearOta
  <2> QED
    BY <2>1, <1>5
<1> QED
  BY <1>4, <1>5

\* Reported state does not touch the command.
LEMMA ReportsKeepCommand ==
    ASSUME NEW s, NEW patch, NEW d
    PROVE  CommandsDeployment(PatchReported(s, patch), d) <=> CommandsDeployment(s, d)
BY DEF CommandsDeployment, PatchReported

\* A reset removes every command.
LEMMA ResetRemoves ==
    ASSUME NEW s, NEW d
    PROVE  ~CommandsDeployment(ResetShadow(s), d)
BY DEF CommandsDeployment, ResetShadow, EmptyObject

-----------------------------------------------------------------------------
\* The table is empty at first, and the shadow commands nothing.
LEMMA InitOta == ServerInit => OtaInv
<1> SUFFICES ASSUME ServerInit PROVE OtaInv
  OBVIOUS
<1> USE LiveStatuses
<1>1. Typed /\ NothingBeyond /\ OnlyNewestLive
  BY DEF ServerInit, Typed, NothingBeyond, OnlyNewestLive, IsLive, Exists, Row, Statuses
<1>2. CommandIsLive
  BY DEF ServerInit, CommandIsLive, CommandsDeployment, EmptyObject
<1> QED
  BY <1>1, <1>2 DEF OtaInv

\* A step that keeps the rows keeps the invariant if it adds no command.
LEMMA RowsKept ==
    ASSUME OtaInv, UNCHANGED <<cascades, deployments, nextId>>,
           \A d \in DeploymentIds :
              CommandsDeployment(shadow', d) => CommandsDeployment(shadow, d)
    PROVE  OtaInv'
<1>1. Typed' /\ NothingBeyond' /\ OnlyNewestLive'
  BY DEF OtaInv, Typed, NothingBeyond, OnlyNewestLive, IsLive, Exists
<1>2. CommandIsLive'
  BY DEF OtaInv, CommandIsLive, IsLive, Exists
<1> QED
  BY <1>1, <1>2 DEF OtaInv

\* trigger_ota supersedes what is under way and commands the row it inserts.
LEMMA TriggerKeeps ==
    ASSUME OtaInv, NEW f \in Firmwares, TriggerOta(f)
    PROVE  OtaInv'
<1> USE LiveStatuses
<1>1. nextId \in DeploymentIds /\ nextId' = nextId + 1 /\ cascades' = cascades
  BY DEF TriggerOta, OtaInv, Typed, DeploymentIds
<1>2. deployments'[nextId] = [firmware |-> f, status |-> "pending"]
  BY <1>1 DEF TriggerOta
<1>3. ASSUME NEW d \in DeploymentIds, d # nextId
      PROVE  /\ deployments'[d].status \notin Live
             /\ deployments'[d] \in Row
             /\ deployments[d].status = "absent" => deployments'[d] = deployments[d]
  <2>1. CASE Superseded(d)
    <3>1. deployments'[d] = [firmware |-> deployments[d].firmware, status |-> "failed"]
      BY <1>3, <2>1 DEF TriggerOta
    <3> QED
      BY <2>1, <3>1 DEF Superseded, IsLive, Exists, Row, Statuses, Terminal, OtaInv, Typed
  <2>2. CASE ~Superseded(d)
    <3>1. deployments'[d] = deployments[d]
      BY <1>3, <2>2 DEF TriggerOta
    <3> QED
      BY <2>2, <3>1 DEF Superseded, IsLive, Exists, OtaInv, Typed
  <2> QED
    BY <2>1, <2>2
<1>4. Typed'
  <2>1. \A d \in DeploymentIds : deployments'[d] \in Row
    BY <1>2, <1>3 DEF Row, Statuses
  <2>2. deployments' = [d \in DeploymentIds |-> deployments'[d]]
    BY DEF TriggerOta
  <2>3. deployments' \in [DeploymentIds -> Row]
    BY <2>1, <2>2
  <2> QED
    BY <1>1, <2>3 DEF Typed, OtaInv
<1>5. NothingBeyond'
  BY <1>1, <1>3 DEF NothingBeyond, OtaInv, Typed, DeploymentIds
<1>6. OnlyNewestLive'
  BY <1>1, <1>3 DEF OnlyNewestLive, IsLive, Exists, OtaInv, Typed
<1>7. CommandIsLive'
  <2>1. shadow' = PatchDesired(shadow, [k \in {"ota"} |-> <<"command", nextId>>])
    BY DEF TriggerOta
  <2>2. \A d : CommandsDeployment(shadow', d) <=> d = nextId
    BY <2>1, CommandReplaces
  <2> QED
    BY <1>1, <1>2, <2>2 DEF CommandIsLive, IsLive, Exists, OtaInv, Typed
<1> QED
  BY <1>4, <1>5, <1>6, <1>7 DEF OtaInv

\* apply_ota_status moves a row that is under way, and an end takes the
\* command of that row along.
LEMMA ReportKeeps ==
    ASSUME OtaInv, NEW u \in handlers, ReportOta(u)
    PROVE  OtaInv'
<1> USE LiveStatuses
<1>0. UNCHANGED <<cascades, nextId>>
  BY DEF ReportOta
<1>1. CASE ~Accepted(u)
  BY <1>0, <1>1, RowsKept DEF ReportOta
<1>2. CASE Accepted(u)
  <2>1. /\ u.dep \in DeploymentIds
        /\ deployments[u.dep].status \in Live
        /\ u.status \in Live \cup Terminal
    BY <1>2 DEF Accepted, Exists, TransitionAllowed, OtaInv, Typed, Row, Statuses
  <2>2. deployments' = [deployments EXCEPT ![u.dep].status = u.status]
    BY <1>2 DEF ReportOta
  <2>3. /\ deployments'[u.dep].status = u.status
        /\ \A d \in DeploymentIds : d # u.dep => deployments'[d] = deployments[d]
    BY <2>1, <2>2 DEF OtaInv, Typed, Row
  <2>4. Typed'
    BY <1>0, <2>1, <2>2 DEF OtaInv, Typed, Row, Statuses
  <2>5. u.dep = nextId - 1
    BY <2>1 DEF OtaInv, OnlyNewestLive, IsLive, Exists
  <2>6. NothingBeyond'
    BY <1>0, <2>1, <2>3, <2>5 DEF NothingBeyond, OtaInv, Typed, DeploymentIds
  <2>7. OnlyNewestLive'
    BY <1>0, <2>3, <2>5 DEF OnlyNewestLive, IsLive, Exists, OtaInv
  <2>8. CommandIsLive'
    <3>1. CASE u.status \in Terminal
      <4>1. shadow' = ClearOta(shadow, u.dep)
        BY <1>2, <3>1 DEF ReportOta
      <4>2. \A d : CommandsDeployment(shadow', d) => CommandsDeployment(shadow, d) /\ d # u.dep
        BY <4>1, ClearRemoves
      <4> QED
        BY <1>0, <2>3, <4>2 DEF CommandIsLive, IsLive, Exists, OtaInv
    <3>2. CASE u.status \notin Terminal
      <4>1. shadow' = shadow
        BY <1>2, <3>2 DEF ReportOta
      <4>2. \A d : CommandsDeployment(shadow', d) <=> CommandsDeployment(shadow, d)
        BY <4>1
      <4>3. \A d \in DeploymentIds : Exists(d) => Exists(d)'
        BY <2>1, <2>3, <3>2 DEF Exists
      <4>4. \A d \in DeploymentIds : IsLive(d) => IsLive(d)'
        BY <2>1, <2>3, <3>2 DEF IsLive, Exists
      <4>5. \A d \in DeploymentIds : Exists(d)' => Exists(d)
        BY <2>1, <2>3 DEF Exists
      <4> QED
        BY <1>0, <4>2, <4>3, <4>4, <4>5 DEF CommandIsLive, OtaInv
    <3> QED
      BY <3>1, <3>2
  <2> QED
    BY <2>4, <2>6, <2>7, <2>8 DEF OtaInv
<1> QED
  BY <1>1, <1>2

\* Deleting firmware only removes rows, and none where the database refuses.
LEMMA DeleteKeeps ==
    ASSUME OtaInv, NEW f \in Firmwares, DeleteFirmware(f)
    PROVE  OtaInv'
<1> USE LiveStatuses
<1> DEFINE ofFirmware == {d \in DeploymentIds : Exists(d) /\ deployments[d].firmware = f}
<1>1. UNCHANGED <<cascades, nextId, shadow>> /\ (cascades \/ ofFirmware = {})
  BY DEF DeleteFirmware
<1>2. deployments' = [d \in DeploymentIds |->
                IF d \in ofFirmware THEN [firmware |-> 0, status |-> "absent"]
                ELSE deployments[d]]
  BY DEF DeleteFirmware
<1> HIDE DEF ofFirmware
<1>3. \A d \in DeploymentIds :
         /\ deployments'[d].status = "absent" \/ deployments'[d] = deployments[d]
         /\ ~cascades => deployments'[d] = deployments[d]
  BY <1>1, <1>2
<1>4. Typed'
  BY <1>1, <1>2 DEF OtaInv, Typed, Row, Statuses
<1>5. NothingBeyond' /\ OnlyNewestLive'
  BY <1>1, <1>3 DEF OtaInv, NothingBeyond, OnlyNewestLive, IsLive, Exists
<1>6. \A d : CommandsDeployment(shadow', d) <=> CommandsDeployment(shadow, d)
  BY <1>1
<1>7. \A d \in DeploymentIds :
         /\ Exists(d)' => Exists(d) /\ (IsLive(d) => IsLive(d)')
         /\ ~cascades => (Exists(d) => Exists(d)')
  BY <1>3 DEF IsLive, Exists
<1>8. CommandIsLive'
  BY <1>1, <1>6, <1>7 DEF OtaInv, CommandIsLive
<1> QED
  BY <1>4, <1>5, <1>8 DEF OtaInv

\* The invariant is kept by every step of the backend.
LEMMA OtaStep == OtaInv /\ [ServerNext]_serverVars => OtaInv'
<1> SUFFICES ASSUME OtaInv, [ServerNext]_serverVars PROVE OtaInv'
  OBVIOUS
<1>1. ASSUME NEW f \in Firmwares, TriggerOta(f) PROVE OtaInv'
  BY <1>1, TriggerKeeps
<1>2. ASSUME NEW f \in Firmwares, DeleteFirmware(f) PROVE OtaInv'
  BY <1>2, DeleteKeeps
<1>3. ASSUME NEW patch \in OperatorPatches, UpdateDesired(patch) PROVE OtaInv'
  <2>1. shadow' = PatchDesired(shadow, patch) /\ "ota" \notin DOMAIN patch
    BY <1>3 DEF UpdateDesired
  <2>2. \A d : CommandsDeployment(shadow', d) <=> CommandsDeployment(shadow, d)
    BY <2>1, OtherKeysKeepCommand
  <2> QED
    BY <1>3, <2>2, RowsKept DEF UpdateDesired
<1>4. ASSUME NEW patch \in OperatorPatches, UpdateReported(patch) PROVE OtaInv'
  <2>1. \A d : CommandsDeployment(shadow', d) <=> CommandsDeployment(shadow, d)
    BY <1>4, ReportsKeepCommand DEF UpdateReported
  <2> QED
    BY <1>4, <2>1, RowsKept DEF UpdateReported
<1>5. CASE Reset
  <2>1. \A d : ~CommandsDeployment(shadow', d)
    BY <1>5, ResetRemoves DEF Reset
  <2> QED
    BY <1>5, <2>1, RowsKept DEF Reset
<1>6. CASE ShadowGet
  BY <1>6, RowsKept DEF ShadowGet
<1>7. ASSUME NEW r, ReportShadow(r) PROVE OtaInv'
  <2>1. \A d : CommandsDeployment(shadow', d) <=> CommandsDeployment(shadow, d)
    BY <1>7, ReportsKeepCommand DEF ReportShadow
  <2> QED
    BY <1>7, <2>1, RowsKept DEF ReportShadow
<1>8. ASSUME NEW u \in handlers, ReportOta(u) PROVE OtaInv'
  BY <1>8, ReportKeeps
<1>9. ASSUME NEW u \in handlers, ReportOtaLost(u) PROVE OtaInv'
  BY <1>9, RowsKept DEF ReportOtaLost
<1>10. CASE UNCHANGED serverVars
  BY <1>10, RowsKept DEF serverVars
<1> QED
  BY <1>1, <1>2, <1>3, <1>4, <1>5, <1>6, <1>7, <1>8, <1>9, <1>10 DEF ServerNext

\* The invariant holds in every reachable state.
LEMMA OtaInvariant == ServerSpec => []OtaInv
BY InitOta, OtaStep, PTL DEF ServerSpec

\* trigger_ota leaves one deployment under way, the newest, whatever order
\* reports, deletions and further triggers come in.
THEOREM OneDeploymentUnderWay == ServerSpec => []OnlyNewestLive
<1>1. OtaInv => OnlyNewestLive
  BY DEF OtaInv
<1> QED
  BY <1>1, OtaInvariant, PTL

\* The shadow never commands a deployment that has ended.
THEOREM NoStaleCommand == ServerSpec => []CommandIsLive
<1>1. OtaInv => CommandIsLive
  BY DEF OtaInv
<1> QED
  BY <1>1, OtaInvariant, PTL

\* No step takes the command of a running deployment away but the ones that
\* end, replace or reset it; merge_json and the reserved key see to it.
THEOREM CommandsAreKept == ServerSpec => CommandKeptWhileLive
<1> DEFINE Kept == \A d \in DeploymentIds :
        CommandsDeployment(shadow, d) /\ ~CommandsDeployment(shadow', d) =>
            \/ shadow' = ResetShadow(shadow)
            \/ CommandsDeployment(shadow', d + 1)
            \/ IsLive(d) /\ deployments'[d].status \in Terminal
<1>1. OtaInv /\ [ServerNext]_serverVars => [Kept]_serverVars
  <2> SUFFICES ASSUME OtaInv, ServerNext, NEW d \in DeploymentIds,
                      CommandsDeployment(shadow, d), ~CommandsDeployment(shadow', d)
               PROVE  \/ shadow' = ResetShadow(shadow)
                      \/ CommandsDeployment(shadow', d + 1)
                      \/ IsLive(d) /\ deployments'[d].status \in Terminal
    OBVIOUS
  <2>0. d = nextId - 1
    BY DEF OtaInv, CommandIsLive
  <2>1. ASSUME NEW f \in Firmwares, TriggerOta(f)
        PROVE  CommandsDeployment(shadow', d + 1)
    <3>1. shadow' = PatchDesired(shadow, [k \in {"ota"} |-> <<"command", nextId>>])
      BY <2>1 DEF TriggerOta
    <3>2. d + 1 = nextId
      BY <2>0 DEF OtaInv, Typed
    <3> QED
      BY <3>1, <3>2, CommandReplaces
  <2>2. ASSUME NEW f \in Firmwares, DeleteFirmware(f) PROVE FALSE
    BY <2>2 DEF DeleteFirmware
  <2>3. ASSUME NEW patch \in OperatorPatches, UpdateDesired(patch) PROVE FALSE
    BY <2>3, OtherKeysKeepCommand DEF UpdateDesired
  <2>4. ASSUME NEW patch \in OperatorPatches, UpdateReported(patch) PROVE FALSE
    BY <2>4, ReportsKeepCommand DEF UpdateReported
  <2>5. CASE Reset
    BY <2>5 DEF Reset
  <2>6. CASE ShadowGet
    BY <2>6 DEF ShadowGet
  <2>7. ASSUME NEW r, ReportShadow(r) PROVE FALSE
    BY <2>7, ReportsKeepCommand DEF ReportShadow
  <2>8. ASSUME NEW u \in handlers, ReportOta(u)
        PROVE  IsLive(d) /\ deployments'[d].status \in Terminal
    <3>1. Accepted(u) /\ u.status \in Terminal /\ shadow' = ClearOta(shadow, u.dep)
      BY <2>8 DEF ReportOta
    <3>2. d = u.dep
      BY <3>1, ClearRemoves
    <3>3. IsLive(d)
      BY <3>1, <3>2, LiveStatuses
         DEF Accepted, IsLive, Exists, TransitionAllowed, OtaInv, Typed, Row, Statuses
    <3>4. deployments'[d].status = u.status
      BY <2>8, <3>1, <3>2 DEF ReportOta, OtaInv, Typed, Row
    <3> QED
      BY <3>1, <3>3, <3>4
  <2>9. ASSUME NEW u \in handlers, ReportOtaLost(u) PROVE FALSE
    BY <2>9 DEF ReportOtaLost
  <2> QED
    BY <2>1, <2>2, <2>3, <2>4, <2>5, <2>6, <2>7, <2>8, <2>9 DEF ServerNext
<1> QED
  BY <1>1, OtaInvariant, PTL DEF ServerSpec, CommandKeptWhileLive

-----------------------------------------------------------------------------
(* The device. *)

\* The client and the journal are records with their fields.
Shaped ==
    /\ client = [stage |-> client.stage, image |-> client.image,
                 attempt |-> client.attempt, monitor |-> client.monitor]
    /\ journal = [phase |-> journal.phase, attempt |-> journal.attempt,
                  image |-> journal.image, previous |-> journal.previous]

\* One holder of the lock; a rollback under way has restored a healthy image
\* and not yet settled the journal.
LockHeld ==
    undoing # 0 =>
        ~ClientLocks /\ exe \in healthy /\ journal.phase \in Unsettled

\* A client that got past its check runs beside a healthy executable until it
\* replaces it, and one in its check knows when the executable is on trial.
ProvedBefore ==
    /\ client.stage \in {"idle", "downloading", "installing", "backed_up", "journalled", "watched"}
         => exe \in healthy
    /\ client.stage = "checking" /\ exe \notin healthy => journal.phase = "booting"
    /\ client.stage \in {"starting", "checking"} => exe \notin Broken

\* What install has written at each of its steps.
Written ==
    /\ client.stage = "backed_up" => backup = exe
    /\ client.stage \in {"journalled", "watched"} =>
          /\ journal.phase = "pending"
          /\ journal.image = ImageOf[client.attempt]
          /\ journal.previous = backup

\* What the journal says is so.
JournalTruthful ==
    /\ journal.phase # "none" => journal.image = ImageOf[journal.attempt]
    /\ journal.phase \in Unsettled /\ journal.previous = backup => backup \in healthy
    /\ journal.phase = "confirmed" => journal.attempt \in confirmed /\ journal.image \in healthy

HealthyStart == healthy \cap Broken = {}

DeviceInv ==
    /\ Shaped /\ LockHeld /\ ProvedBefore /\ Written /\ JournalTruthful /\ HealthyStart
    /\ AlwaysRecoverable /\ SuccessWasConfirmed

Files == <<exe, backup, journal, healthy, confirmed>>

\* At first the device runs its factory image and has no journal.
LEMMA InitDevice == DeviceInit => DeviceInv
BY NativeOtaAssumption
   DEF DeviceInit, DeviceInv, Shaped, LockHeld, ProvedBefore, Written, JournalTruthful,
       HealthyStart, AlwaysRecoverable, SuccessWasConfirmed, NoJournal, NoImage, Down,
       Unsettled, ClientLocks

\* A step that adds no report of success keeps what was said of the reports.
LEMMA ReportsKept ==
    ASSUME SuccessWasConfirmed, UNCHANGED <<healthy, confirmed>>,
           \A r \in reports' : r \in reports \/ r.status # "success"
    PROVE  SuccessWasConfirmed'
BY DEF SuccessWasConfirmed

\* A step that leaves the files alone and moves the client to a place with no
\* further obligation keeps the invariant.
LEMMA FilesKept ==
    ASSUME DeviceInv, UNCHANGED Files, undoing' \in {undoing, 0}, Shaped',
           \A r \in reports' : r \in reports \/ r.status # "success",
           client' = client \/ client'.stage \in {"failure", "exit0"}
    PROVE  DeviceInv'
<1> USE DEF DeviceInv, Files
<1>1. LockHeld'
  BY DEF LockHeld, ClientLocks
<1>2. ProvedBefore' /\ Written'
  BY DEF ProvedBefore, Written
<1>3. JournalTruthful' /\ HealthyStart' /\ AlwaysRecoverable'
  BY DEF JournalTruthful, HealthyStart, AlwaysRecoverable
<1>4. SuccessWasConfirmed'
  BY ReportsKept
<1> QED
  BY <1>1, <1>2, <1>3, <1>4

\* A crash, an exit, a power failure, or a watchdog with nothing to do.
LEMMA GoneKeeps ==
    ASSUME DeviceInv,
           \/ Exit \/ MonitorExits \/ Crash \/ PowerLoss
           \/ \E a \in Attempts : WatchdogStops(a)
    PROVE  DeviceInv'
<1>1. CASE Exit
  BY <1>1, FilesKept DEF Exit, Down, Files, DeviceInv, Shaped
<1>2. CASE MonitorExits
  BY <1>2, FilesKept DEF MonitorExits, Down, Files, DeviceInv, Shaped
<1>3. CASE Crash
  BY <1>3, FilesKept DEF Crash, Down, Files, DeviceInv, Shaped
<1>4. CASE PowerLoss
  BY <1>4, FilesKept DEF PowerLoss, Down, Files, DeviceInv, Shaped
<1>5. ASSUME NEW a \in Attempts, WatchdogStops(a) PROVE DeviceInv'
  BY <1>5, FilesKept DEF WatchdogStops, Files, DeviceInv, Shaped
<1> QED
  BY <1>1, <1>2, <1>3, <1>4, <1>5

\* The client moves on to the next stage without writing a file.
LEMMA MovesOn ==
    ASSUME DeviceInv, UNCHANGED Files, undoing' = undoing, Shaped',
           \A r \in reports' : r \in reports \/ r.status # "success",
           \/ client.stage \in {"idle", "downloading", "installing", "backed_up",
                                "journalled", "watched"}
              /\ client'.stage \in {"idle", "downloading", "installing"}
           \/ client.stage = "journalled" /\ client'.stage = "watched"
              /\ client'.attempt = client.attempt
           \/ client'.stage = "starting" /\ exe \notin Broken
    PROVE  DeviceInv'
<1> USE DEF DeviceInv, Files
<1>1. LockHeld'
  BY DEF LockHeld, ClientLocks
<1>2. ProvedBefore'
  BY DEF ProvedBefore
<1>3. Written'
  BY DEF Written
<1>4. JournalTruthful' /\ HealthyStart' /\ AlwaysRecoverable'
  BY DEF JournalTruthful, HealthyStart, AlwaysRecoverable
<1>5. SuccessWasConfirmed'
  BY ReportsKept
<1> QED
  BY <1>1, <1>2, <1>3, <1>4, <1>5

\* Starting, receiving a command whatever attempt it names, giving up,
\* verifying, and starting the watchdog.
LEMMA ClientKeeps ==
    ASSUME DeviceInv,
           Start \/ GiveUp \/ Verify \/ InstallWatchdog \/ \E a : Command(a)
    PROVE  DeviceInv'
<1> USE MovesOn DEF Files, Shaped, DeviceInv
<1>1. CASE Start
  BY <1>1 DEF Start
<1>2. CASE GiveUp
  <2>1. client'.stage = "idle" /\ UNCHANGED Files /\ undoing' = undoing /\ Shaped'
    BY <1>2 DEF GiveUp
  <2> QED
    BY <1>2, <2>1 DEF GiveUp, Report
<1>3. CASE Verify
  BY <1>3 DEF Verify, At
<1>4. CASE InstallWatchdog
  BY <1>4 DEF InstallWatchdog, At
<1>5. ASSUME NEW a, Command(a) PROVE DeviceInv'
  <2>1. client'.stage = "downloading" /\ UNCHANGED Files /\ undoing' = undoing /\ Shaped'
    BY <1>5 DEF Command
  <2>2. \A r \in reports' : r \in reports \/ r.status # "success"
    <3>1. reports' = reports \cup {[attempt |-> a, status |-> "downloading"]}
      BY <1>5 DEF Command, Report
    <3> HIDE MovesOn DEF DeviceInv
    <3> QED
      BY <3>1
  <2>3. client.stage = "idle"
    BY <1>5 DEF Command
  <2> QED
    BY <2>1, <2>2, <2>3
<1> QED
  BY <1>1, <1>2, <1>3, <1>4, <1>5

\* boot marks a candidate, and every image on trial is one.
LEMMA BootKeeps ==
    ASSUME DeviceInv, Boot
    PROVE  DeviceInv'
<1> USE DEF DeviceInv, Unsettled
<1>0. /\ client.stage = "starting" /\ client'.stage = "checking"
      /\ UNCHANGED <<exe, backup, undoing, reports, healthy, confirmed>>
      /\ Shaped'
  BY DEF Boot, Shaped
<1>1. /\ \/ journal' = journal
         \/ journal.phase \in Unsettled /\ journal' = [journal EXCEPT !.phase = "booting"]
      /\ journal.phase \in Unsettled /\ journal.image = exe => journal'.phase = "booting"
  BY DEF Boot, Shaped
<1>2. /\ journal'.attempt = journal.attempt /\ journal'.image = journal.image
      /\ journal'.previous = journal.previous
      /\ journal'.phase = journal.phase
            \/ (journal.phase \in Unsettled /\ journal'.phase = "booting")
  BY <1>1 DEF Shaped
<1>3. LockHeld' /\ Written'
  BY <1>0, <1>2 DEF LockHeld, ClientLocks, Written
<1>4. ProvedBefore'
  BY <1>0, <1>1 DEF ProvedBefore, AlwaysRecoverable
<1>5. JournalTruthful'
  BY <1>0, <1>2 DEF JournalTruthful
<1>6. AlwaysRecoverable' /\ HealthyStart'
  BY <1>0, <1>2 DEF AlwaysRecoverable, HealthyStart
<1>7. SuccessWasConfirmed'
  BY <1>0, ReportsKept
<1> QED
  BY <1>0, <1>3, <1>4, <1>5, <1>6, <1>7

\* confirm settles the attempt of the image it found running, and reports the
\* outcome of a settled one.
LEMMA ConfirmKeeps ==
    ASSUME DeviceInv, Confirm
    PROVE  DeviceInv'
<1> USE DEF DeviceInv, Unsettled
<1>0. /\ client.stage = "checking" /\ client'.stage = "idle"
      /\ UNCHANGED <<exe, backup, undoing>>
      /\ Shaped'
      /\ exe \notin Broken
  BY DEF Confirm, At, Shaped, ProvedBefore
<1>1. CASE Confirms
  <2>1. /\ journal.phase = "booting" /\ journal'.phase = "confirmed" /\ journal.image = exe
        /\ journal'.attempt = journal.attempt /\ journal'.image = exe
        /\ healthy' = healthy \cup {exe} /\ confirmed' = confirmed \cup {journal.attempt}
        /\ ImageOf[journal.attempt] = exe
        /\ undoing = 0
    BY <1>1 DEF Confirm, Confirms, Shaped, JournalTruthful, LockFree, NoJournal
  <2>2. SuccessWasConfirmed'
    <3>1. reports' = reports \cup {[attempt |-> journal.attempt, status |-> "success"]}
      BY <1>1 DEF Confirm, Outcome
    <3> QED
      BY <2>1, <3>1, <1>0 DEF SuccessWasConfirmed
  <2>3. LockHeld' /\ ProvedBefore' /\ Written'
    BY <1>0, <2>1 DEF LockHeld, ProvedBefore, Written
  <2>4. JournalTruthful' /\ HealthyStart' /\ AlwaysRecoverable'
    BY <1>0, <2>1 DEF JournalTruthful, HealthyStart, AlwaysRecoverable
  <2> QED
    BY <1>0, <2>2, <2>3, <2>4
<1>2. CASE ~Confirms
  <2>1. UNCHANGED <<journal, healthy, confirmed>>
    BY <1>2 DEF Confirm
  <2>2. exe \in healthy
    BY <1>0, <1>2 DEF ProvedBefore, AlwaysRecoverable, Confirms
  <2>3. SuccessWasConfirmed'
    <3>1. CASE journal.phase = "confirmed" /\ journal.image = exe
      <4>1. reports' = reports \cup {[attempt |-> journal.attempt, status |-> "success"]}
        BY <3>1 DEF Confirm, Outcome
      <4>2. ImageOf[journal.attempt] = exe /\ journal.attempt \in confirmed
        BY <3>1 DEF JournalTruthful
      <4> QED
        BY <1>0, <2>1, <2>2, <4>1, <4>2 DEF SuccessWasConfirmed
    <3>2. CASE ~(journal.phase = "confirmed" /\ journal.image = exe)
      <4>1. \A r \in Outcome : r.status = "failed"
        BY <1>2, <3>2 DEF Outcome
      <4>2. reports' = reports \cup Outcome
        BY DEF Confirm
      <4> HIDE DEF DeviceInv
      <4>3. \A r \in reports' : r \in reports \/ r.status # "success"
        BY <4>1, <4>2
      <4> QED
        BY <2>1, <4>3, ReportsKept DEF DeviceInv
    <3> QED
      BY <3>1, <3>2
  <2>4. LockHeld' /\ ProvedBefore' /\ Written'
    BY <1>0, <2>1, <2>2 DEF LockHeld, ProvedBefore, Written, ClientLocks
  <2>5. JournalTruthful' /\ HealthyStart' /\ AlwaysRecoverable'
    BY <1>0, <2>1 DEF JournalTruthful, HealthyStart, AlwaysRecoverable
  <2> QED
    BY <1>0, <2>3, <2>4, <2>5
<1> QED
  BY <1>1, <1>2

\* An image that survived is healthy whether or not the journal could be saved.
LEMMA ConfirmFailsKeeps ==
    ASSUME DeviceInv, ConfirmFails
    PROVE  DeviceInv'
<1> USE DEF DeviceInv, Unsettled
<1>0. /\ client.stage = "checking" /\ client'.stage = "idle"
      /\ UNCHANGED <<exe, backup, journal, undoing, reports, confirmed>>
      /\ Shaped'
      /\ healthy' = healthy \cup {exe} /\ exe \notin Broken /\ undoing = 0
  BY DEF ConfirmFails, At, Shaped, ProvedBefore, LockFree
<1>1. LockHeld' /\ ProvedBefore' /\ Written'
  BY <1>0 DEF LockHeld, ProvedBefore, Written
<1>2. JournalTruthful' /\ HealthyStart' /\ AlwaysRecoverable'
  BY <1>0 DEF JournalTruthful, HealthyStart, AlwaysRecoverable
<1>3. SuccessWasConfirmed'
  BY <1>0 DEF SuccessWasConfirmed
<1> QED
  BY <1>0, <1>1, <1>2, <1>3

\* install preserves the executable, which is healthy, ...
LEMMA BackupKeeps ==
    ASSUME DeviceInv, InstallBackup
    PROVE  DeviceInv'
<1> USE DEF DeviceInv
<1>0. /\ client.stage = "installing" /\ client'.stage = "backed_up" /\ backup' = exe
      /\ UNCHANGED <<exe, journal, undoing, reports, healthy, confirmed>>
      /\ Shaped' /\ undoing = 0 /\ exe \in healthy
  BY DEF InstallBackup, At, Shaped, LockFree, ProvedBefore
<1>1. LockHeld' /\ ProvedBefore' /\ Written'
  BY <1>0 DEF LockHeld, ProvedBefore, Written
<1>2. JournalTruthful' /\ HealthyStart' /\ AlwaysRecoverable'
  BY <1>0 DEF JournalTruthful, HealthyStart, AlwaysRecoverable
<1>3. SuccessWasConfirmed'
  BY <1>0, ReportsKept
<1> QED
  BY <1>0, <1>1, <1>2, <1>3

\* ... then writes down what it is about to do, ...
LEMMA JournalKeeps ==
    ASSUME DeviceInv, InstallJournal
    PROVE  DeviceInv'
<1> USE DEF DeviceInv, Unsettled
<1>0. /\ client.stage = "backed_up" /\ client'.stage = "journalled"
      /\ client'.attempt = client.attempt
      /\ journal' = [phase |-> "pending", attempt |-> client.attempt,
                     image |-> ImageOf[client.attempt], previous |-> exe]
      /\ UNCHANGED <<exe, backup, undoing, reports, healthy, confirmed>>
      /\ Shaped' /\ backup = exe /\ exe \in healthy
  BY DEF InstallJournal, At, Shaped, ProvedBefore, Written
<1>1. LockHeld' /\ ProvedBefore' /\ Written'
  BY <1>0 DEF LockHeld, ProvedBefore, Written, ClientLocks
<1>2. JournalTruthful' /\ HealthyStart' /\ AlwaysRecoverable'
  BY <1>0 DEF JournalTruthful, HealthyStart, AlwaysRecoverable
<1>3. SuccessWasConfirmed'
  BY <1>0, ReportsKept
<1> QED
  BY <1>0, <1>1, <1>2, <1>3

\* ... and only then replaces the executable.
LEMMA ImageKeeps ==
    ASSUME DeviceInv, InstallImage
    PROVE  DeviceInv'
<1> USE DEF DeviceInv, Unsettled
<1>0. /\ client.stage = "watched" /\ client'.stage = "rebooting"
      /\ exe' = ImageOf[client.attempt]
      /\ UNCHANGED <<backup, journal, undoing, healthy, confirmed>>
      /\ Shaped' /\ undoing = 0
      /\ \A r \in reports' : r \in reports \/ r.status # "success"
  BY DEF InstallImage, At, Report, Shaped, LockHeld, ClientLocks
<1>1. LockHeld' /\ ProvedBefore' /\ Written'
  BY <1>0 DEF LockHeld, ProvedBefore, Written
<1>2. JournalTruthful' /\ HealthyStart' /\ AlwaysRecoverable'
  BY <1>0 DEF JournalTruthful, HealthyStart, AlwaysRecoverable, Written
<1>3. SuccessWasConfirmed'
  BY <1>0, ReportsKept
<1> QED
  BY <1>0, <1>1, <1>2, <1>3

\* A rollback brings back a healthy image, whatever the client is doing.
LEMMA RestoreKeeps ==
    ASSUME DeviceInv, NEW a \in Attempts, WatchdogRestores(a)
    PROVE  DeviceInv'
<1> USE DEF DeviceInv
<1>0. /\ exe' = backup /\ backup \in healthy /\ journal.phase \in Unsettled
      /\ UNCHANGED <<backup, journal, client, reports, healthy, confirmed>>
      /\ Shaped' /\ ~ClientLocks
  BY DEF WatchdogRestores, MayUndo, LockFree, Shaped, JournalTruthful
<1>1. LockHeld' /\ ProvedBefore' /\ Written'
  BY <1>0 DEF LockHeld, ProvedBefore, Written, ClientLocks, HealthyStart
<1>2. JournalTruthful' /\ HealthyStart' /\ AlwaysRecoverable'
  BY <1>0 DEF JournalTruthful, HealthyStart, AlwaysRecoverable
<1>3. SuccessWasConfirmed'
  BY <1>0, ReportsKept
<1> QED
  BY <1>0, <1>1, <1>2, <1>3

\* Recording a rollback settles an attempt whose image is gone.
LEMMA RecordKeeps ==
    ASSUME DeviceInv, WatchdogRecords
    PROVE  DeviceInv'
<1> USE DEF DeviceInv, Unsettled
<1>0. /\ UNCHANGED <<exe, backup, client, reports, healthy, confirmed>>
      /\ undoing' = 0 /\ Shaped' /\ ~ClientLocks /\ exe \in healthy
      /\ journal.phase \in Unsettled /\ journal'.phase = "rolled_back"
      /\ journal'.image = journal.image /\ journal'.attempt = journal.attempt
  BY DEF WatchdogRecords, Shaped, LockHeld
<1>1. LockHeld' /\ ProvedBefore' /\ Written'
  BY <1>0 DEF LockHeld, ProvedBefore, Written, ClientLocks
<1>2. JournalTruthful' /\ HealthyStart' /\ AlwaysRecoverable'
  BY <1>0 DEF JournalTruthful, HealthyStart, AlwaysRecoverable
<1>3. SuccessWasConfirmed'
  BY <1>0, ReportsKept
<1> QED
  BY <1>0, <1>1, <1>2, <1>3

\* Every step of the device, and the arrival of any command, keeps the
\* invariant.
LEMMA DeviceStepKeeps ==
    ASSUME DeviceInv, DeviceStep \/ (\E a : Command(a)) \/ UNCHANGED deviceVars
    PROVE  DeviceInv'
<1>1. CASE Start \/ GiveUp \/ Verify \/ InstallWatchdog \/ \E a : Command(a)
  BY <1>1, ClientKeeps
<1>2. CASE \/ Exit \/ MonitorExits \/ Crash \/ PowerLoss
           \/ \E a \in Attempts : WatchdogStops(a)
  BY <1>2, GoneKeeps
<1>3. CASE Boot
  BY <1>3, BootKeeps
<1>4. CASE Confirm
  BY <1>4, ConfirmKeeps
<1>5. CASE ConfirmFails
  BY <1>5, ConfirmFailsKeeps
<1>6. CASE InstallBackup
  BY <1>6, BackupKeeps
<1>7. CASE InstallJournal
  BY <1>7, JournalKeeps
<1>8. CASE InstallImage
  BY <1>8, ImageKeeps
<1>9. ASSUME NEW a \in Attempts, WatchdogRestores(a) PROVE DeviceInv'
  BY <1>9, RestoreKeeps
<1>10. CASE WatchdogRecords
  BY <1>10, RecordKeeps
<1>11. CASE UNCHANGED deviceVars
  BY <1>11, FilesKept DEF deviceVars, Files, DeviceInv, Shaped
<1> QED
  BY <1>1, <1>2, <1>3, <1>4, <1>5, <1>6, <1>7, <1>8, <1>9, <1>10, <1>11
     DEF DeviceStep, ClientStep, WatchdogStep

\* The invariant holds in every reachable state of the device.
LEMMA DeviceInvariant == DeviceSpec => []DeviceInv
<1>1. DeviceInv /\ [DeviceNext]_deviceVars => DeviceInv'
  BY DeviceStepKeeps DEF DeviceNext
<1> QED
  BY <1>1, InitDevice, PTL DEF DeviceSpec

\* Wherever a crash or a power failure interrupts install, boot, confirm or a
\* rollback, an executable that never passed its check has its healthy
\* predecessor beside it and the journal knows.
THEOREM WayBack == DeviceSpec => []AlwaysRecoverable
<1>1. DeviceInv => AlwaysRecoverable
  BY DEF DeviceInv
<1> QED
  BY <1>1, DeviceInvariant, PTL

\* confirm reports success for no attempt but one it has seen run, and never for
\* an image that does not start.
THEOREM SuccessIsConfirmed == DeviceSpec => []SuccessWasConfirmed
<1>1. DeviceInv => SuccessWasConfirmed
  BY DEF DeviceInv
<1> QED
  BY <1>1, DeviceInvariant, PTL

\* The checks rollback makes under the lock keep the watchdog of any attempt away
\* from an image that has been confirmed.
THEOREM ConfirmedStays == DeviceSpec => ConfirmedNotUndone
<1>1. [DeviceNext]_deviceVars =>
        [journal.phase = "confirmed" /\ exe' # exe => client.stage = "watched"]_deviceVars
  <2> SUFFICES ASSUME DeviceNext, journal.phase = "confirmed", exe' # exe
               PROVE  client.stage = "watched"
    OBVIOUS
  <2>1. \A a \in Attempts : ~WatchdogRestores(a)
    BY DEF WatchdogRestores, MayUndo, Unsettled
  <2>2. CASE InstallImage
    BY <2>2 DEF InstallImage
  <2> QED
    BY <2>1, <2>2
       DEF DeviceNext, DeviceStep, ClientStep, WatchdogStep, Start, Boot, Confirm, Verify,
           InstallBackup, InstallJournal, InstallWatchdog, Exit, MonitorExits, ConfirmFails,
           GiveUp, WatchdogStops, WatchdogRecords, Crash, PowerLoss, Command
<1> QED
  BY <1>1, PTL DEF DeviceSpec, ConfirmedNotUndone

-----------------------------------------------------------------------------
(* The backend and the device together. *)

\* A claim of success is true: of what the device confirmed, and so for ever.
Happened(dep) == dep \in confirmed /\ ImageOf[dep] \in healthy

\* The claims of success on their way into the table.
ClaimsTrue == \A u \in handlers : u.status = "success" => Happened(u.dep)

SystemInv == OtaInv /\ DeviceInv /\ ClaimsTrue /\ OutcomeTruthful

\* What the device confirmed stays confirmed.
LEMMA HistoryGrows ==
    ASSUME DeviceStep \/ \E a : Command(a)
    PROVE  confirmed \subseteq confirmed' /\ healthy \subseteq healthy'
BY DEF DeviceStep, ClientStep, WatchdogStep, Start, Boot, Confirm, Verify, InstallBackup,
       InstallJournal, InstallWatchdog, InstallImage, Exit, MonitorExits, ConfirmFails,
       GiveUp, WatchdogStops, WatchdogRestores, WatchdogRecords, Crash, PowerLoss, Command

\* Nothing is claimed at first.
LEMMA InitSystem == SystemInit => SystemInv
<1> SUFFICES ASSUME SystemInit PROVE SystemInv
  OBVIOUS
<1>1. OtaInv /\ DeviceInv
  BY InitOta, InitDevice DEF SystemInit
<1>2. ClaimsTrue /\ OutcomeTruthful
  BY DEF SystemInit, ServerInit, ClaimsTrue, OutcomeTruthful
<1> QED
  BY <1>1, <1>2 DEF SystemInv

\* A step of the device makes no row and no claim false.
LEMMA DeviceSideKeeps ==
    ASSUME SystemInv, DeviceStep \/ (\E a : Command(a)), UNCHANGED serverVars
    PROVE  SystemInv'
<1>1. DeviceInv'
  BY DeviceStepKeeps DEF SystemInv
<1>2. OtaInv'
  BY RowsKept DEF serverVars, SystemInv
<1>3. ClaimsTrue' /\ OutcomeTruthful'
  BY HistoryGrows DEF serverVars, SystemInv, ClaimsTrue, OutcomeTruthful, Happened
<1> QED
  BY <1>1, <1>2, <1>3 DEF SystemInv

\* A report that arrives, late or again, claims what the device once confirmed.
LEMMA ReportArrivesKeeps ==
    ASSUME SystemInv, ReportArrives
    PROVE  SystemInv'
<1>1. PICK r \in reports : ReportShadow(ReportOf(r))
  BY DEF ReportArrives
<1>0. UNCHANGED deviceVars
  BY DEF ReportArrives
<1>2. DeviceInv'
  BY <1>0, DeviceStepKeeps DEF SystemInv
<1>3. OtaInv'
  <2>1. \A d : CommandsDeployment(shadow', d) <=> CommandsDeployment(shadow, d)
    BY <1>1, ReportsKeepCommand DEF ReportShadow
  <2> QED
    BY <1>1, <2>1, RowsKept DEF ReportShadow, SystemInv
<1>4. ClaimsTrue'
  <2>1. \A u \in handlers' : u \in handlers \/ u = ReportOf(r).ota
    BY <1>1 DEF ReportShadow
  <2>2. ReportOf(r).ota.dep = r.attempt /\ ReportOf(r).ota.status = r.status
    BY DEF ReportOf
  <2>3. r.status = "success" => Happened(r.attempt)
    BY DEF SystemInv, DeviceInv, SuccessWasConfirmed, Happened
  <2> QED
    BY <1>0, <2>1, <2>2, <2>3 DEF SystemInv, ClaimsTrue, Happened, deviceVars
<1>5. OutcomeTruthful'
  BY <1>0, <1>1 DEF SystemInv, OutcomeTruthful, ReportShadow, deviceVars
<1> QED
  BY <1>2, <1>3, <1>4, <1>5 DEF SystemInv

\* A row becomes a success only by a claim of success for that very row.
LEMMA BackendSideKeeps ==
    ASSUME SystemInv, BackendStep
    PROVE  SystemInv'
<1>0. UNCHANGED deviceVars
  BY DEF BackendStep
<1>1. DeviceInv'
  BY <1>0, DeviceStepKeeps DEF SystemInv
<1> USE DEF SystemInv, deviceVars
<1>2. CASE TriggerOta(ImageOf[nextId])
  <2>1. ImageOf[nextId] \in Firmwares
    BY <1>2, OtaServerAssumption DEF TriggerOta
  <2>2. OtaInv'
    BY <1>2, <2>1, TriggerKeeps
  <2>3. ASSUME NEW d \in DeploymentIds, deployments'[d].status = "success"
        PROVE  deployments[d].status = "success"
    BY <1>2, <2>3 DEF TriggerOta
  <2>4. ClaimsTrue' /\ OutcomeTruthful'
    BY <1>0, <1>2, <2>3 DEF TriggerOta, ClaimsTrue, OutcomeTruthful, Happened
  <2> QED
    BY <1>1, <2>2, <2>4
<1>3. CASE Reset \/ ShadowGet
  <2>1. OtaInv'
    BY <1>3, ResetRemoves, RowsKept DEF Reset, ShadowGet
  <2>2. ClaimsTrue' /\ OutcomeTruthful'
    BY <1>0, <1>3 DEF Reset, ShadowGet, ClaimsTrue, OutcomeTruthful, Happened
  <2> QED
    BY <1>1, <2>1, <2>2
<1>4. ASSUME NEW u \in handlers, ReportOtaLost(u) PROVE SystemInv'
  <2>1. OtaInv'
    BY <1>4, RowsKept DEF ReportOtaLost
  <2>2. ClaimsTrue' /\ OutcomeTruthful'
    BY <1>0, <1>4 DEF ReportOtaLost, ClaimsTrue, OutcomeTruthful, Happened
  <2> QED
    BY <1>1, <2>1, <2>2
<1>5. ASSUME NEW u \in handlers, ReportOta(u) PROVE SystemInv'
  <2>1. OtaInv'
    BY <1>5, ReportKeeps
  <2>2. ClaimsTrue'
    BY <1>0, <1>5 DEF ReportOta, ClaimsTrue, Happened
  <2>3. OutcomeTruthful'
    <3>1. CASE Accepted(u)
      <4>1. u.dep \in DeploymentIds
        BY <3>1 DEF Accepted, Exists
      <4>2. \A d \in DeploymentIds :
               deployments'[d].status = IF d = u.dep THEN u.status ELSE deployments[d].status
        BY <1>5, <3>1, <4>1 DEF ReportOta, OtaInv, Typed, Row
      <4>3. u.status = "success" => Happened(u.dep)
        BY DEF ClaimsTrue
      <4> QED
        BY <1>0, <4>2, <4>3 DEF OutcomeTruthful, Happened
    <3>2. CASE ~Accepted(u)
      BY <1>0, <1>5, <3>2 DEF ReportOta, OutcomeTruthful
    <3> QED
      BY <3>1, <3>2
  <2> QED
    BY <1>1, <2>1, <2>2, <2>3
<1> QED
  BY <1>2, <1>3, <1>4, <1>5 DEF BackendStep

\* Every step of the system keeps the invariant.
LEMMA SystemInvariant == SystemSpec => []SystemInv
<1>1. SystemInv /\ [SystemNext]_systemVars => SystemInv'
  <2> SUFFICES ASSUME SystemInv, [SystemNext]_systemVars PROVE SystemInv'
    OBVIOUS
  <2>1. CASE BackendStep
    BY <2>1, BackendSideKeeps
  <2>2. CASE ReportArrives
    BY <2>2, ReportArrivesKeeps
  <2>3. CASE CommandArrives
    BY <2>3, DeviceSideKeeps DEF CommandArrives
  <2>4. CASE DeviceStep /\ UNCHANGED serverVars
    BY <2>4, DeviceSideKeeps
  <2>5. CASE UNCHANGED systemVars
    <3>1. UNCHANGED serverVars /\ UNCHANGED deviceVars
      BY <2>5 DEF systemVars
    <3>2. DeviceInv'
      BY <3>1, DeviceStepKeeps DEF SystemInv
    <3>3. OtaInv'
      BY <3>1, RowsKept DEF serverVars, SystemInv
    <3>4. ClaimsTrue' /\ OutcomeTruthful'
      BY <3>1 DEF serverVars, deviceVars, SystemInv, ClaimsTrue, OutcomeTruthful, Happened
    <3> QED
      BY <3>2, <3>3, <3>4 DEF SystemInv
  <2> QED
    BY <2>1, <2>2, <2>3, <2>4, <2>5 DEF SystemNext
<1> QED
  BY <1>1, InitSystem, PTL DEF SystemSpec

\* apply_ota_status records success for an attempt only if the device's confirm
\* had seen that attempt's image run, over any network.
THEOREM OutcomesAreTrue == SystemSpec => []OutcomeTruthful
<1>1. SystemInv => OutcomeTruthful
  BY DEF SystemInv
<1> QED
  BY <1>1, SystemInvariant, PTL

\* Joined by such a network, backend and device keep the promises each of them
\* makes alone: one deployment under way, no stale command, and a way back.
THEOREM PartsKeepTheirPromises ==
    SystemSpec => [](OnlyNewestLive /\ CommandIsLive /\ AlwaysRecoverable /\ SuccessWasConfirmed)
<1>1. SystemInv => OnlyNewestLive /\ CommandIsLive /\ AlwaysRecoverable /\ SuccessWasConfirmed
  BY DEF SystemInv, OtaInv, DeviceInv
<1> QED
  BY <1>1, SystemInvariant, PTL

-----------------------------------------------------------------------------
(* The firmware images. *)

Stores == Backends \cup {"none"}
Steps == {"none", "stored", "unwanted", "deleted", "found", "served"}
Image == [key : Nat, backend : Stores]
Call == [step : Steps, id : Nat, key : Nat, backend : Stores]

StoreTyped ==
    /\ adapter \in {"turso", "postgres"}
    /\ backend \in Backends
    /\ keys \in Nat
    /\ images \in [Ids -> Image]
    /\ lastId \in Nat
    /\ deployed \subseteq Ids
    /\ links \subseteq [id : Ids, key : Nat]
    /\ call \in [Callers -> Call]
    /\ reported \subseteq Nat

\* Keys are allocated once.
KeysAllocated ==
    /\ \A i \in Ids : images[i].key <= keys
    /\ \A q \in Callers : call[q].key <= keys
    /\ \A k \in reported : k <= keys

\* Rows with the same key would share an object.
RowsApart == \A i, j \in Rows : images[i].key = images[j].key => i = j

\* An upload that has stored its object is alone with it.
StoredAlone ==
    \A q \in Callers : call[q].step = "stored" =>
        /\ call[q].key # 0
        /\ <<call[q].backend, call[q].key>> \in objects
        /\ call[q].key \notin reported
        /\ \A i \in Ids : images[i].key # call[q].key
        /\ \A p \in Callers \ {q} :
             call[p].step \in {"stored", "unwanted", "deleted"} => call[p].key # call[q].key

\* A compensation removes what was never reported.
UnwantedUnreported ==
    \A q \in Callers : call[q].step = "unwanted" => call[q].key \notin reported

\* A deletion removes what no row names any more.
DeletedUnnamed ==
    \A q \in Callers : call[q].step = "deleted" =>
        call[q].key # 0 /\ \A i \in Ids : images[i].key # call[q].key

\* No id is in use beyond the sequence.
WithinSequence == adapter = "postgres" => \A i \in Rows : i <= lastId

StoreInv ==
    /\ StoreTyped /\ KeysAllocated /\ RowsApart /\ StoredAlone
    /\ UnwantedUnreported /\ DeletedUnnamed /\ WithinSequence /\ ReportedIsStored

-----------------------------------------------------------------------------
\* An empty store is consistent.
LEMMA StoreInvInit == StoreInit => StoreInv
BY FirmwareStoreAssumption
   DEF StoreInit, StoreInv, StoreTyped, KeysAllocated, RowsApart, StoredAlone, UnwantedUnreported,
       DeletedUnnamed, WithinSequence, ReportedIsStored, Rows, NoRow, NoCall, Image, Call,
       Stores, Steps, Ids

\* A new id is not that of a row.
LEMMA NewIdIsFree ==
    ASSUME StoreInv, NEW i \in Ids, IsNewId(i)
    PROVE  i \notin Rows
BY DEF StoreInv, StoreTyped, WithinSequence, IsNewId, Rows, Ids

\* A step that leaves rows, objects and reports alone and at most moves a call
\* to a step that holds no object.
LEMMA IdleCallKeepsStoreInv ==
    ASSUME StoreInv, NEW q \in Callers, NEW c \in Call,
           c.step \in {"none", "found", "served"}, c.key <= keys,
           call' = [call EXCEPT ![q] = c],
           UNCHANGED <<adapter, backend, objects, keys, images, lastId, deployed, links, reported>>
    PROVE  StoreInv'
BY DEF StoreInv, StoreTyped, KeysAllocated, RowsApart, StoredAlone, UnwantedUnreported,
       DeletedUnnamed, WithinSequence, ReportedIsStored, Rows

\* The end of a call.
LEMMA NoCallTyped == NoCall \in Call /\ NoCall.step = "none" /\ NoCall.key = 0
BY DEF NoCall, Call, Steps, Stores

\* An upload that stores its object does so under a key nobody has used.
LEMMA PutKeepsStoreInv == ASSUME StoreInv, NEW q \in Callers, Put(q) PROVE StoreInv'
<1> DEFINE k == keys + 1
<1>1. PICK stored \in BOOLEAN, ok \in BOOLEAN :
        /\ ok => stored
        /\ objects' = objects \cup IF stored THEN {<<backend, k>>} ELSE {}
        /\ call' = [call EXCEPT ![q] =
                      IF ok THEN [step |-> "stored", id |-> 0, key |-> k, backend |-> backend]
                      ELSE NoCall]
  BY DEF Put
<1>2. /\ keys \in Nat /\ keys' = k /\ k \in Nat /\ k # 0
      /\ \A i \in Ids : images[i].key # k
      /\ \A p \in Callers : call[p].key # k
      /\ k \notin reported
  BY DEF Put, StoreInv, StoreTyped, KeysAllocated, Image, Call
<1>3. call' \in [Callers -> Call] /\ \A p \in Callers : call'[p].key <= keys'
  BY <1>1, <1>2, NoCallTyped DEF StoreInv, StoreTyped, KeysAllocated, Call, Steps, Stores
<1>4. StoreTyped' /\ KeysAllocated'
  BY <1>2, <1>3 DEF Put, StoreInv, StoreTyped, KeysAllocated, Image
<1>5. RowsApart' /\ WithinSequence' /\ ReportedIsStored'
  BY <1>1 DEF Put, StoreInv, RowsApart, WithinSequence, ReportedIsStored, Rows
<1>6. StoredAlone' /\ UnwantedUnreported' /\ DeletedUnnamed'
  <2>1. CASE ok
    BY <1>1, <1>2, <2>1
       DEF Put, StoreInv, StoreTyped, StoredAlone, UnwantedUnreported, DeletedUnnamed
  <2>2. CASE ~ok
    BY <1>1, <1>2, <2>2, NoCallTyped
       DEF Put, StoreInv, StoreTyped, StoredAlone, UnwantedUnreported, DeletedUnnamed
  <2>3. QED
    BY <2>1, <2>2
<1>7. QED
  BY <1>4, <1>5, <1>6 DEF StoreInv

\* The row that an upload inserts, reported or not.
LEMMA InsertKeepsStoreInv ==
    ASSUME StoreInv, NEW q \in Callers, call[q].step = "stored",
           NEW i \in Ids, IsNewId(i),
           images' = [images EXCEPT ![i] = [key |-> call[q].key, backend |-> call[q].backend]],
           lastId' = i,
           \/ /\ reported' = reported \cup {call[q].key}
              /\ call' = [call EXCEPT ![q] = NoCall]
           \/ /\ reported' = reported
              /\ call' = [call EXCEPT ![q].step = "unwanted"],
           UNCHANGED <<adapter, backend, objects, keys, deployed, links>>
    PROVE  StoreInv'
<1> DEFINE k == call[q].key
<1>1. /\ i \notin Rows /\ images[i].key = 0
      /\ k \in Nat /\ k # 0 /\ k <= keys /\ call[q].backend \in Stores
      /\ k \notin reported /\ <<call[q].backend, k>> \in objects
      /\ \A j \in Ids : images[j].key # k
  BY NewIdIsFree DEF StoreInv, StoreTyped, KeysAllocated, StoredAlone, Call, Rows
<1>2. /\ images' \in [Ids -> Image]
      /\ images'[i].key = k /\ images'[i].backend = call[q].backend
      /\ \A j \in Ids \ {i} : images'[j] = images[j]
  BY <1>1 DEF StoreInv, StoreTyped, Image
<1>3. /\ call' \in [Callers -> Call]
      /\ \A p \in Callers \ {q} : call'[p] = call[p]
      /\ call'[q].step \in {"none", "unwanted"} /\ call'[q].key \in {0, k}
      /\ call'[q].step = "unwanted" => call'[q].key = k /\ reported' = reported
      /\ reported' \subseteq reported \cup {k}
  BY <1>1, NoCallTyped DEF StoreInv, StoreTyped, Call, Steps
<1>4. StoreTyped' /\ KeysAllocated'
  BY <1>1, <1>2, <1>3 DEF StoreInv, StoreTyped, KeysAllocated, Ids
<1>5. Rows' = Rows \cup {i}
  BY <1>1, <1>2 DEF Rows
<1>6. RowsApart' /\ ReportedIsStored'
  BY <1>1, <1>2, <1>5 DEF StoreInv, RowsApart, ReportedIsStored, Rows
<1>7. WithinSequence'
  BY <1>5 DEF StoreInv, StoreTyped, WithinSequence, IsNewId, Rows, Ids
<1>8. StoredAlone'
  BY <1>1, <1>2, <1>3 DEF StoreInv, StoredAlone
<1>9. UnwantedUnreported' /\ DeletedUnnamed'
  BY <1>1, <1>2, <1>3 DEF StoreInv, StoredAlone, UnwantedUnreported, DeletedUnnamed
<1>10. QED
  BY <1>4, <1>6, <1>7, <1>8, <1>9 DEF StoreInv

\* create, whether its answer arrives or is lost.
LEMMA CreateKeepsStoreInv ==
    ASSUME StoreInv, NEW q \in Callers, CreateRow(q) \/ CreateFails(q) PROVE StoreInv'
<1>1. CASE CreateRow(q)
  BY <1>1, InsertKeepsStoreInv DEF CreateRow, Inserts, Ends
<1>2. CASE CreateFails(q) /\ Inserts(q)
  BY <1>2, InsertKeepsStoreInv DEF CreateFails, Inserts, Becomes
<1>3. CASE CreateFails(q) /\ UNCHANGED <<images, lastId>>
  <2>1. /\ call' \in [Callers -> Call]
        /\ \A p \in Callers \ {q} : call'[p] = call[p]
        /\ call'[q].step = "unwanted" /\ call'[q].key = call[q].key
    BY <1>3 DEF CreateFails, Becomes, StoreInv, StoreTyped, Call, Steps
  <2>2. StoreTyped' /\ KeysAllocated' /\ RowsApart' /\ WithinSequence' /\ ReportedIsStored'
    BY <1>3, <2>1 DEF CreateFails, StoreInv, StoreTyped, KeysAllocated, RowsApart, WithinSequence,
       ReportedIsStored, Rows
  <2>3. StoredAlone'
    BY <1>3, <2>1 DEF CreateFails, StoreInv, StoredAlone
  <2>4. UnwantedUnreported'
    BY <1>3, <2>1 DEF CreateFails, StoreInv, StoredAlone, UnwantedUnreported
  <2>5. DeletedUnnamed'
    BY <1>3, <2>1 DEF CreateFails, StoreInv, DeletedUnnamed
  <2>6. QED
    BY <2>2, <2>3, <2>4, <2>5 DEF StoreInv
<1>4. QED
  BY <1>1, <1>2, <1>3 DEF CreateFails

\* Removing an object that no row, or no reported row, names.
LEMMA RemovalKeepsStoreInv ==
    ASSUME StoreInv, NEW q \in Callers, Compensate(q) \/ DeleteObject(q) PROVE StoreInv'
<1>1. /\ Removal(q) /\ call[q].step \in {"unwanted", "deleted"}
      /\ call' = [call EXCEPT ![q] = NoCall]
  BY DEF Compensate, DeleteObject, Removal, Ends
<1>2. /\ call' \in [Callers -> Call]
      /\ \A p \in Callers \ {q} : call'[p] = call[p]
      /\ call'[q].step = "none" /\ call'[q].key = 0
  BY <1>1, NoCallTyped DEF StoreInv, StoreTyped
<1>3. StoreTyped' /\ KeysAllocated' /\ RowsApart' /\ WithinSequence'
  BY <1>1, <1>2 DEF Removal, StoreInv, StoreTyped, KeysAllocated, RowsApart, WithinSequence, Rows
<1>4. \A i \in Rows : images[i].key \in reported => images[i].key # call[q].key
  BY <1>1 DEF StoreInv, UnwantedUnreported, DeletedUnnamed, Rows
<1>5. ReportedIsStored'
  BY <1>1, <1>4 DEF Removal, StoreInv, ReportedIsStored, Rows
<1>6. StoredAlone' /\ UnwantedUnreported' /\ DeletedUnnamed'
  BY <1>1, <1>2 DEF Removal, StoreInv, StoredAlone, UnwantedUnreported, DeletedUnnamed
<1>7. QED
  BY <1>3, <1>5, <1>6 DEF StoreInv

\* delete takes the only row of its object.
LEMMA DeleteRowKeepsStoreInv ==
    ASSUME StoreInv, NEW q \in Callers, NEW i \in Ids, DeleteRow(q, i) PROVE StoreInv'
<1> DEFINE k == images[i].key
<1>1. i \in Rows /\ k \in Nat /\ k # 0 /\ k <= keys /\ NoRow \in Image /\ NoRow.key = 0
  BY DEF DeleteRow, StoreInv, StoreTyped, KeysAllocated, Rows, Image, NoRow, Stores
<1>2. /\ images' \in [Ids -> Image] /\ images'[i].key = 0
      /\ \A j \in Ids \ {i} : images'[j] = images[j]
  BY <1>1 DEF DeleteRow, StoreInv, StoreTyped
<1>3. /\ call' \in [Callers -> Call]
      /\ \A p \in Callers \ {q} : call'[p] = call[p]
      /\ \/ call'[q].step = "none" /\ call'[q].key = 0
         \/ call'[q].step = "deleted" /\ call'[q].key = k
  BY <1>1, NoCallTyped DEF DeleteRow, StoreInv, StoreTyped, Call, Steps, Stores, Ids
<1>4. StoreTyped' /\ KeysAllocated'
  BY <1>1, <1>2, <1>3 DEF DeleteRow, StoreInv, StoreTyped, KeysAllocated
<1>5. Rows' = Rows \ {i}
  BY <1>2 DEF Rows
<1>6. RowsApart' /\ WithinSequence' /\ ReportedIsStored'
  BY <1>2, <1>5 DEF DeleteRow, StoreInv, RowsApart, WithinSequence, ReportedIsStored, Rows
<1>7. \A j \in Ids : images'[j].key # k
  BY <1>1, <1>2 DEF StoreInv, RowsApart, Rows
<1>8. StoredAlone'
  BY <1>1, <1>2, <1>3 DEF DeleteRow, StoreInv, StoredAlone
<1>9. UnwantedUnreported' /\ DeletedUnnamed'
  BY <1>1, <1>2, <1>3, <1>7 DEF DeleteRow, StoreInv, UnwantedUnreported, DeletedUnnamed
<1>10. QED
  BY <1>4, <1>6, <1>8, <1>9 DEF StoreInv

\* Downloads and requests that die change no table.
LEMMA DownloadKeepsStoreInv ==
    ASSUME StoreInv, NEW q \in Callers,
           ReadObject(q) \/ Dies(q) \/ \E l \in links : ReadRow(q, l)
    PROVE  StoreInv'
<1>1. CASE Dies(q) \/ (ReadObject(q) /\ Ends(q))
  BY <1>1, IdleCallKeepsStoreInv, NoCallTyped DEF Dies, ReadObject, Ends, StoreInv, StoreTyped
<1>2. CASE ReadObject(q) /\ Becomes(q, "served")
  <2> DEFINE c == [call[q] EXCEPT !.step = "served"]
  <2>1. c \in Call /\ c.step = "served" /\ c.key = call[q].key
    BY DEF StoreInv, StoreTyped, Call, Steps
  <2>2. call' = [call EXCEPT ![q] = c]
    BY <1>2 DEF Becomes
  <2>3. QED
    BY <1>2, <2>1, <2>2, IdleCallKeepsStoreInv DEF ReadObject, StoreInv, KeysAllocated
<1>3. CASE \E l \in links : ReadRow(q, l)
  <2>1. PICK l \in links : ReadRow(q, l)
    BY <1>3
  <2> DEFINE c == [step |-> "found", id |-> l.id, key |-> images[l.id].key, backend |-> backend]
  <2>2. l.id \in Ids
    BY <2>1 DEF ReadRow, Rows
  <2>3. c \in Call /\ c.step = "found" /\ c.key <= keys
    BY <2>2 DEF StoreInv, StoreTyped, KeysAllocated, Call, Image, Steps, Stores, Ids
  <2>4. QED
    BY <2>1, <2>3, IdleCallKeepsStoreInv DEF ReadRow
<1>4. QED
  BY <1>1, <1>2, <1>3 DEF ReadObject

\* Every step of the store keeps the invariant.
LEMMA StoreInvInductive == StoreInv /\ [StoreNext]_storeVars => StoreInv'
<1> SUFFICES ASSUME StoreInv, [StoreNext]_storeVars PROVE StoreInv'
  OBVIOUS
<1>1. CASE \E q \in Callers : Put(q)
  BY <1>1, PutKeepsStoreInv
<1>2. CASE \E q \in Callers : CreateRow(q) \/ CreateFails(q)
  BY <1>2, CreateKeepsStoreInv
<1>3. CASE \E q \in Callers : Compensate(q) \/ DeleteObject(q)
  BY <1>3, RemovalKeepsStoreInv
<1>4. CASE \E q \in Callers, i \in Ids : DeleteRow(q, i)
  BY <1>4, DeleteRowKeepsStoreInv
<1>5. CASE \E q \in Callers : ReadObject(q) \/ Dies(q) \/ \E l \in links : ReadRow(q, l)
  BY <1>5, DownloadKeepsStoreInv
<1>6. CASE \E i \in Ids : Deploy(i)
  BY <1>6 DEF Deploy, StoreInv, StoreTyped, KeysAllocated, RowsApart, StoredAlone,
     UnwantedUnreported, DeletedUnnamed, WithinSequence, ReportedIsStored, Rows, Image
<1>7. CASE Restart
  BY <1>7, NoCallTyped DEF Restart, StoreInv, StoreTyped, KeysAllocated, RowsApart, StoredAlone,
     UnwantedUnreported, DeletedUnnamed, WithinSequence, ReportedIsStored, Rows
<1>8. CASE UNCHANGED storeVars
  BY <1>8 DEF storeVars, StoreInv, StoreTyped, KeysAllocated, RowsApart, StoredAlone,
     UnwantedUnreported, DeletedUnnamed, WithinSequence, ReportedIsStored, Rows
<1>9. QED
  BY <1>1, <1>2, <1>3, <1>4, <1>5, <1>6, <1>7, <1>8 DEF StoreNext

\* Whatever fails between the database and the object store, an image that was
\* reported as uploaded keeps its bytes while it is listed.
THEOREM ReportedStaysStored == StoreSpec => []ReportedIsStored
<1>1. StoreInv => ReportedIsStored
  BY DEF StoreInv
<1>2. QED
  BY <1>1, StoreInvInit, StoreInvInductive, PTL DEF StoreSpec

-----------------------------------------------------------------------------
\* A row that was deployed through Turso stays.
DeployedStay == adapter = "turso" => deployed \subseteq Rows /\ \A l \in links : l.id \in deployed

\* The ids of links are not beyond the sequence.
LinksWithinSequence == adapter = "postgres" => \A l \in links : l.id <= lastId

\* A link means the row with its id, if there is one, and all links with one
\* id mean the same image.
LinksAgree ==
    /\ \A l \in links : l.id \in Rows => images[l.id].key = l.key
    /\ \A l, m \in links : l.id = m.id => l.key = m.key

\* A download has read the image its link means.
DownloadsAgree ==
    \A q \in Callers : call[q].step \in {"found", "served"} =>
        /\ \E l \in links : l.id = call[q].id
        /\ \A l \in links : l.id = call[q].id => l.key = call[q].key

LinkInv == StoreInv /\ DeployedStay /\ LinksWithinSequence /\ LinksAgree /\ DownloadsAgree

\* No link has been handed out at first.
LEMMA LinkInvInit == StoreInit => LinkInv
BY StoreInvInit DEF LinkInv, StoreInit, DeployedStay, LinksWithinSequence, LinksAgree,
   DownloadsAgree, NoCall

\* A new id is not that of a link, on either database.
LEMMA NewIdHasNoLink ==
    ASSUME LinkInv, NEW i \in Ids, IsNewId(i), NEW l \in links
    PROVE  l.id # i
BY DEF LinkInv, StoreInv, StoreTyped, DeployedStay, LinksWithinSequence, IsNewId, Ids

\* A step that leaves rows and links alone and at most ends a download.
LEMMA QuietStepKeepsLinkInv ==
    ASSUME LinkInv, StoreInv',
           \A q \in Callers : \/ call'[q] = call[q]
                              \/ call'[q].step \notin {"found", "served"}
                              \/ /\ call[q].step = "found" /\ call'[q].id = call[q].id
                                 /\ call'[q].key = call[q].key,
           UNCHANGED <<adapter, images, lastId, deployed, links>>
    PROVE  LinkInv'
BY DEF LinkInv, DeployedStay, LinksWithinSequence, LinksAgree, DownloadsAgree, Rows

\* An insertion gives its id to no link that exists.
LEMMA InsertKeepsLinkInv ==
    ASSUME LinkInv, StoreInv', NEW q \in Callers, Inserts(q),
           \A p \in Callers : call'[p] = call[p] \/ call'[p].step \notin {"found", "served"},
           UNCHANGED <<adapter, deployed, links>>
    PROVE  LinkInv'
<1>1. PICK i \in Ids :
        /\ IsNewId(i) /\ lastId' = i
        /\ images' = [images EXCEPT ![i] = [key |-> call[q].key, backend |-> call[q].backend]]
  BY DEF Inserts
<1>2. \A j \in Ids \ {i} : images'[j] = images[j]
  BY <1>1 DEF LinkInv, StoreInv, StoreTyped
<1>3. i \notin Rows /\ \A l \in links : l.id # i /\ l.id \in Ids
  BY <1>1, NewIdIsFree, NewIdHasNoLink DEF LinkInv, StoreInv, StoreTyped
<1>4. DeployedStay'
  BY <1>2, <1>3 DEF LinkInv, DeployedStay, Rows
<1>5. LinksWithinSequence'
  BY <1>1, <1>3 DEF LinkInv, StoreInv, StoreTyped, LinksWithinSequence, IsNewId, Ids
<1>6. LinksAgree'
  BY <1>2, <1>3 DEF LinkInv, LinksAgree, Rows
<1>7. DownloadsAgree'
  BY DEF LinkInv, DownloadsAgree
<1>8. QED
  BY <1>4, <1>5, <1>6, <1>7 DEF LinkInv

\* A link to a deleted row leads nowhere.
LEMMA DeleteRowKeepsLinkInv ==
    ASSUME LinkInv, StoreInv', NEW q \in Callers, NEW i \in Ids, DeleteRow(q, i)
    PROVE  LinkInv'
<1>1. images'[i].key = 0 /\ \A j \in Ids \ {i} : images'[j] = images[j]
  BY DEF DeleteRow, NoRow, LinkInv, StoreInv, StoreTyped
<1>2. Rows' = Rows \ {i}
  BY <1>1 DEF Rows
<1>3. \A p \in Callers : call'[p] = call[p] \/ call'[p].step \notin {"found", "served"}
  BY DEF DeleteRow, NoCall, LinkInv, StoreInv, StoreTyped
<1>4. DeployedStay' /\ LinksWithinSequence'
  BY <1>2 DEF DeleteRow, LinkInv, DeployedStay, LinksWithinSequence
<1>5. LinksAgree'
  BY <1>1, <1>2 DEF DeleteRow, LinkInv, LinksAgree, Rows
<1>6. DownloadsAgree'
  BY <1>3 DEF DeleteRow, LinkInv, DownloadsAgree
<1>7. QED
  BY <1>4, <1>5, <1>6 DEF LinkInv

\* A deployment hands out the link of the row it names.
LEMMA DeployKeepsLinkInv ==
    ASSUME LinkInv, StoreInv', NEW i \in Ids, Deploy(i) PROVE LinkInv'
<1> DEFINE new == [id |-> i, key |-> images[i].key]
<1>1. i \in Rows /\ new.id = i /\ new.key = images[i].key /\ links' = links \cup {new}
  BY DEF Deploy
<1>2. \A l \in links : l.id = i => l.key = new.key
  BY <1>1 DEF LinkInv, LinksAgree
<1>3. DeployedStay' /\ LinksWithinSequence'
  BY <1>1 DEF Deploy, LinkInv, StoreInv, DeployedStay, LinksWithinSequence, WithinSequence, Rows
<1>4. LinksAgree'
  BY <1>1, <1>2 DEF Deploy, LinkInv, LinksAgree, Rows
<1>5. DownloadsAgree'
  BY <1>1, <1>2 DEF Deploy, LinkInv, DownloadsAgree
<1>6. QED
  BY <1>3, <1>4, <1>5 DEF LinkInv

\* A download reads the row its link was made for.
LEMMA ReadRowKeepsLinkInv ==
    ASSUME LinkInv, StoreInv', NEW q \in Callers, NEW l \in links, ReadRow(q, l)
    PROVE  LinkInv'
<1>1. /\ \A p \in Callers \ {q} : call'[p] = call[p]
      /\ call'[q].id = l.id /\ call'[q].key = l.key
  BY DEF ReadRow, LinkInv, StoreInv, StoreTyped, LinksAgree
<1>2. DownloadsAgree'
  BY <1>1 DEF ReadRow, LinkInv, LinksAgree, DownloadsAgree
<1>3. QED
  BY <1>2 DEF ReadRow, LinkInv, DeployedStay, LinksWithinSequence, LinksAgree, Rows

\* Every step keeps the links faithful.
LEMMA LinkInvInductive == LinkInv /\ [StoreNext]_storeVars => LinkInv'
<1> SUFFICES ASSUME LinkInv, [StoreNext]_storeVars PROVE LinkInv'
  OBVIOUS
<1>1. StoreInv' /\ call \in [Callers -> Call]
  BY StoreInvInductive DEF LinkInv, StoreInv, StoreTyped
<1>2. CASE \E q \in Callers : Put(q)
  BY <1>1, <1>2, QuietStepKeepsLinkInv DEF Put, NoCall
<1>3. ASSUME NEW q \in Callers, CreateRow(q) \/ CreateFails(q) PROVE LinkInv'
  <2>1. \A p \in Callers : call'[p] = call[p] \/ call'[p].step \notin {"found", "served"}
    BY <1>1, <1>3 DEF CreateRow, CreateFails, Ends, Becomes, NoCall, Call
  <2>2. QED
    BY <1>1, <1>3, <2>1, InsertKeepsLinkInv, QuietStepKeepsLinkInv DEF CreateRow, CreateFails
<1>4. CASE \E q \in Callers : Compensate(q) \/ DeleteObject(q) \/ Dies(q)
  BY <1>1, <1>4, QuietStepKeepsLinkInv DEF Compensate, DeleteObject, Removal, Dies, Ends, NoCall
<1>5. CASE \E q \in Callers : ReadObject(q)
  BY <1>1, <1>5, QuietStepKeepsLinkInv DEF ReadObject, Becomes, Ends, NoCall, Call
<1>6. CASE \E q \in Callers, i \in Ids : DeleteRow(q, i)
  BY <1>1, <1>6, DeleteRowKeepsLinkInv
<1>7. CASE \E q \in Callers : \E l \in links : ReadRow(q, l)
  BY <1>1, <1>7, ReadRowKeepsLinkInv
<1>8. CASE \E i \in Ids : Deploy(i)
  BY <1>1, <1>8, DeployKeepsLinkInv
<1>9. CASE Restart
  BY <1>1, <1>9, QuietStepKeepsLinkInv DEF Restart, NoCall
<1>10. CASE UNCHANGED storeVars
  BY <1>1, <1>10, QuietStepKeepsLinkInv DEF storeVars
<1>11. QED
  BY <1>2, <1>3, <1>4, <1>5, <1>6, <1>7, <1>8, <1>9, <1>10 DEF StoreNext

\* A device's link never serves another image than the one it was made for,
\* though ids are reused and rows deleted meanwhile.
THEOREM LinksAreFaithful == StoreSpec => []LinkServesItsImage
<1>1. LinkInv => LinkServesItsImage
  BY DEF LinkInv, DownloadsAgree, LinkServesItsImage
<1>2. QED
  BY <1>1, LinkInvInit, LinkInvInductive, PTL DEF StoreSpec

=============================================================================
