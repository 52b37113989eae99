----------------------------- MODULE NativeOta -----------------------------
(***************************************************************************)
(* Over-the-air updates on a native client: the executable, its backup and *)
(* the journal in the file system (clients/rust/sdk/native_ota.rs), the    *)
(* client process (clients/rust/runtime/lib.rs), the rollback watchdogs it *)
(* leaves behind, and the supervisor that restarts it.                     *)
(*                                                                         *)
(* A file is replaced atomically (write, sync, rename); between two such   *)
(* writes the process may die or the power may fail.  Digests are the      *)
(* images themselves.  The waits of 30 and 120 seconds are waits of any    *)
(* length.                                                                 *)
(***************************************************************************)
EXTENDS Naturals, FiniteSets

CONSTANTS
    Attempts,           \* deployment ids
    ImageOf,            \* the image each deployment installs
    Factory,            \* the image the device was provisioned with
    Broken,             \* images that do not start
    RestartOnSuccess,   \* the supervisor also restarts after exit code 0
    MaxCommands,        \* bound: OTA commands acted on
    MaxCrashes,         \* bound: process crashes
    MaxPowerLosses      \* bound: power failures

Images == {ImageOf[a] : a \in Attempts} \union {Factory}

ASSUME NativeOtaAssumption ==
    /\ Attempts \subseteq Nat \ {0}
    /\ DOMAIN ImageOf = Attempts
    /\ Factory \notin Broken
    /\ RestartOnSuccess \in BOOLEAN
    /\ MaxCommands \in Nat /\ MaxCrashes \in Nat /\ MaxPowerLosses \in Nat

VARIABLES
    exe,        \* the executable
    backup,     \* <exe>.ota-previous
    journal,    \* <exe>.ota-state
    client,     \* the client process
    watchdogs,  \* sleeping watchdog processes, counted by attempt
    undoing,    \* the attempt whose watchdog holds the lock and has restored
                \* the executable but not yet the journal, or 0
    reports,    \* OTA reports sent so far
    healthy,    \* history: images that passed their 30-second check
    confirmed,  \* history: attempts whose installation was confirmed
    commands, crashes, powerLosses      \* history: for the bounds

deviceVars == <<exe, backup, journal, client, watchdogs, undoing, reports,
                healthy, confirmed, commands, crashes, powerLosses>>

-----------------------------------------------------------------------------
NoImage == 0
NoJournal == [phase |-> "none", attempt |-> 0, image |-> NoImage, previous |-> NoImage]

Unsettled == {"pending", "booting"}

\* The client process: the image it runs, where it is, the attempt it is
\* installing, and the attempt its monitor thread watches.
Down(exit) == [stage |-> exit, image |-> NoImage, attempt |-> 0, monitor |-> 0]

Stages == {"starting", "checking", "idle", "downloading", "installing",
           "backed_up", "journalled", "watched", "rebooting"}

Running == client.stage \in Stages

\* Holding <exe>.ota-lock: a client inside install, or a watchdog inside rollback.
ClientLocks == client.stage \in {"backed_up", "journalled", "watched"}
LockFree == ~ClientLocks /\ undoing = 0

At(stage) == [client EXCEPT !.stage = stage]

Report(a, status) == reports' = reports \union {[attempt |-> a, status |-> status]}

-----------------------------------------------------------------------------
DeviceInit ==
    /\ exe = Factory
    /\ backup = NoImage
    /\ journal = NoJournal
    /\ client = Down("exit0")
    /\ watchdogs = [a \in Attempts |-> 0]
    /\ undoing = 0
    /\ reports = {}
    /\ healthy = {Factory}
    /\ confirmed = {}
    /\ commands = 0 /\ crashes = 0 /\ powerLosses = 0

\* The supervisor starts the executable; a broken image dies at once.  The
\* very first start is the operator's.
Start ==
    /\ \/ client.stage = "failure"
       \/ client.stage = "exit0" /\ (RestartOnSuccess \/ journal = NoJournal)
    /\ exe \notin Broken
    /\ client' = [stage |-> "starting", image |-> exe, attempt |-> 0, monitor |-> 0]
    /\ UNCHANGED <<exe, backup, journal, watchdogs, undoing, reports, healthy,
                   confirmed, commands, crashes, powerLosses>>

\* boot: under the lock, a candidate that has just started is marked, and a
\* thread is left to watch for its rollback.
Boot ==
    LET candidate == journal.phase \in Unsettled /\ journal.image = exe
    IN  /\ client.stage = "starting"
        /\ journal = NoJournal \/ LockFree
        /\ journal' = IF candidate THEN [journal EXCEPT !.phase = "booting"] ELSE journal
        /\ client' = [client EXCEPT !.stage = "checking",
                                    !.monitor = IF candidate THEN journal.attempt ELSE 0]
        /\ UNCHANGED <<exe, backup, watchdogs, undoing, reports, healthy,
                       confirmed, commands, crashes, powerLosses>>

\* Mutant: the candidate is confirmed without looking at the executable.
ConfirmsUnchecked == journal.phase = "booting"

\* confirm sees the candidate it is running still installed.
Confirms == journal.phase = "booting" /\ journal.image = exe

\* The outcome confirm reports: that of a settled attempt, again and again.
Outcome ==
    IF Confirms \/ (journal.phase = "confirmed" /\ journal.image = exe)
    THEN {[attempt |-> journal.attempt, status |-> "success"]}
    ELSE IF journal.phase = "rolled_back"
    THEN {[attempt |-> journal.attempt, status |-> "failed"]}
    ELSE {}

\* confirm, after the client survived its first 30 seconds when the journal
\* asks for that.
Confirm ==
    /\ client.stage = "checking"
    /\ journal = NoJournal \/ LockFree
    /\ journal' = IF Confirms THEN [journal EXCEPT !.phase = "confirmed"] ELSE journal
    /\ healthy' = IF Confirms THEN healthy \union {exe} ELSE healthy
    /\ confirmed' = IF Confirms THEN confirmed \union {journal.attempt} ELSE confirmed
    /\ reports' = reports \union Outcome
    /\ client' = At("idle")
    /\ UNCHANGED <<exe, backup, watchdogs, undoing, commands, crashes, powerLosses>>

\* confirm could not save the journal; the client goes on.
ConfirmFails ==
    /\ client.stage = "checking"
    /\ LockFree
    /\ Confirms
    /\ healthy' = healthy \union {exe}
    /\ client' = At("idle")
    /\ UNCHANGED <<exe, backup, journal, watchdogs, undoing, reports, confirmed,
                   commands, crashes, powerLosses>>

\* is_installed_attempt
IsInstalled(a) == journal.attempt = a /\ journal.image = exe

\* A delta with an OTA command for attempt a, received while no other update
\* runs; handle_ota starts to download.
Command(a) ==
    /\ client.stage = "idle"
    /\ commands < MaxCommands
    /\ commands' = commands + 1
    /\ ~IsInstalled(a)
    /\ client' = [client EXCEPT !.stage = "downloading", !.attempt = a]
    /\ Report(a, "downloading")
    /\ UNCHANGED <<exe, backup, journal, watchdogs, undoing, healthy, confirmed,
                   crashes, powerLosses>>

\* The download fails, the digest does not match, or a write of install fails
\* before its rename.
GiveUp ==
    /\ client.stage \in {"downloading", "installing", "backed_up", "journalled", "watched"}
    /\ Report(client.attempt, "failed")
    /\ client' = [client EXCEPT !.stage = "idle", !.attempt = 0]
    /\ UNCHANGED <<exe, backup, journal, watchdogs, undoing, healthy, confirmed,
                   commands, crashes, powerLosses>>

\* The image is there and its digest matches.
Verify ==
    /\ client.stage = "downloading"
    /\ reports' = reports \union {[attempt |-> client.attempt, status |-> "verifying"],
                                  [attempt |-> client.attempt, status |-> "installing"]}
    /\ client' = At("installing")
    /\ UNCHANGED <<exe, backup, journal, watchdogs, undoing, healthy, confirmed,
                   commands, crashes, powerLosses>>

\* Mutant: a backup that is already there is kept.
InstallKeepingBackup ==
    /\ client.stage = "installing"
    /\ LockFree
    /\ backup' = IF backup = NoImage THEN exe ELSE backup
    /\ client' = At("backed_up")
    /\ UNCHANGED <<exe, journal, watchdogs, undoing, reports, healthy, confirmed,
                   commands, crashes, powerLosses>>

\* install takes the lock and preserves the executable.
InstallBackup ==
    /\ client.stage = "installing"
    /\ LockFree
    /\ backup' = exe
    /\ client' = At("backed_up")
    /\ UNCHANGED <<exe, journal, watchdogs, undoing, reports, healthy, confirmed,
                   commands, crashes, powerLosses>>

InstallJournal ==
    /\ client.stage = "backed_up"
    /\ journal' = [phase |-> "pending", attempt |-> client.attempt,
                   image |-> ImageOf[client.attempt], previous |-> exe]
    /\ client' = At("journalled")
    /\ UNCHANGED <<exe, backup, watchdogs, undoing, reports, healthy, confirmed,
                   commands, crashes, powerLosses>>

\* Mutant: the image is replaced before anything watches it.
InstallUnwatched ==
    /\ client.stage = "journalled"
    /\ client' = At("watched")
    /\ UNCHANGED <<exe, backup, journal, watchdogs, undoing, reports, healthy,
                   confirmed, commands, crashes, powerLosses>>

\* The backup is started as the watchdog of this attempt.
InstallWatchdog ==
    /\ client.stage = "journalled"
    /\ watchdogs' = [watchdogs EXCEPT ![client.attempt] = @ + 1]
    /\ client' = At("watched")
    /\ UNCHANGED <<exe, backup, journal, undoing, reports, healthy, confirmed,
                   commands, crashes, powerLosses>>

InstallImage ==
    /\ client.stage = "watched"
    /\ exe' = ImageOf[client.attempt]
    /\ Report(client.attempt, "rebooting")
    /\ client' = At("rebooting")
    /\ UNCHANGED <<backup, journal, watchdogs, undoing, healthy, confirmed,
                   commands, crashes, powerLosses>>

\* std::process::exit(0)
Exit ==
    /\ client.stage = "rebooting"
    /\ client' = Down("exit0")
    /\ UNCHANGED <<exe, backup, journal, watchdogs, undoing, reports, healthy,
                   confirmed, commands, crashes, powerLosses>>

\* The monitor thread of a candidate sees its rollback in the journal.
MonitorExits ==
    /\ Running
    /\ client.monitor # 0
    /\ journal.attempt = client.monitor
    /\ journal.phase = "rolled_back"
    /\ client' = Down("failure")
    /\ UNCHANGED <<exe, backup, journal, watchdogs, undoing, reports, healthy,
                   confirmed, commands, crashes, powerLosses>>

\* Mutant: the phase is not looked at.
MayUndoSettled(a) == journal.attempt = a

\* The checks of rollback.
MayUndo(a) == journal.attempt = a /\ journal.phase \in Unsettled

\* A watchdog wakes and finds nothing to undo, or a backup that is not the
\* image the journal names.
WatchdogStops(a) ==
    /\ watchdogs[a] > 0
    /\ LockFree
    /\ ~MayUndo(a) \/ journal.previous # backup
    /\ watchdogs' = [watchdogs EXCEPT ![a] = @ - 1]
    /\ UNCHANGED <<exe, backup, journal, client, undoing, reports, healthy,
                   confirmed, commands, crashes, powerLosses>>

\* Mutant: the executable is left as it is.
WatchdogRestoresNothing(a) ==
    /\ watchdogs[a] > 0
    /\ LockFree
    /\ MayUndo(a)
    /\ undoing' = a
    /\ watchdogs' = [watchdogs EXCEPT ![a] = @ - 1]
    /\ UNCHANGED <<exe, backup, journal, client, reports, healthy, confirmed,
                   commands, crashes, powerLosses>>

\* rollback restores the executable ...
WatchdogRestores(a) ==
    /\ watchdogs[a] > 0
    /\ LockFree
    /\ MayUndo(a)
    /\ journal.previous = backup
    /\ exe' = backup
    /\ undoing' = a
    /\ watchdogs' = [watchdogs EXCEPT ![a] = @ - 1]
    /\ UNCHANGED <<backup, journal, client, reports, healthy, confirmed,
                   commands, crashes, powerLosses>>

\* ... and then says so in the journal.
WatchdogRecords ==
    /\ undoing # 0
    /\ journal' = [journal EXCEPT !.phase = "rolled_back"]
    /\ undoing' = 0
    /\ UNCHANGED <<exe, backup, client, watchdogs, reports, healthy, confirmed,
                   commands, crashes, powerLosses>>

\* The client process dies; its lock goes with it, its watchdogs stay.
Crash ==
    /\ Running
    /\ crashes < MaxCrashes
    /\ crashes' = crashes + 1
    /\ client' = Down("failure")
    /\ UNCHANGED <<exe, backup, journal, watchdogs, undoing, reports, healthy,
                   confirmed, commands, powerLosses>>

\* Every process is gone, and at power-up the supervisor starts the client.
PowerLoss ==
    /\ powerLosses < MaxPowerLosses
    /\ powerLosses' = powerLosses + 1
    /\ client' = Down("failure")
    /\ watchdogs' = [a \in Attempts |-> 0]
    /\ undoing' = 0
    /\ UNCHANGED <<exe, backup, journal, reports, healthy, confirmed, commands, crashes>>

ClientStep ==
    \/ Boot \/ Confirm \/ Verify
    \/ InstallBackup \/ InstallJournal \/ InstallWatchdog \/ InstallImage
    \/ Exit \/ MonitorExits

WatchdogStep ==
    \/ \E a \in Attempts : WatchdogStops(a) \/ WatchdogRestores(a)
    \/ WatchdogRecords

\* Everything but the arrival of a command.
DeviceStep ==
    \/ Start \/ ClientStep \/ ConfirmFails \/ GiveUp
    \/ WatchdogStep
    \/ Crash \/ PowerLoss

DeviceNext == DeviceStep \/ \E a \in Attempts : Command(a)

DeviceSpec == DeviceInit /\ [][DeviceNext]_deviceVars

\* The supervisor restarts what it is told to, a running client goes on, and a
\* watchdog wakes.
DeviceFairness ==
    /\ WF_deviceVars(Start)
    /\ WF_deviceVars(ClientStep)
    /\ WF_deviceVars(WatchdogStep)

DeviceLiveSpec == DeviceSpec /\ DeviceFairness

-----------------------------------------------------------------------------
(* Properties. *)

\* An installed candidate that has not passed its check.
OnTrial == journal.phase \in Unsettled /\ exe = journal.image /\ exe \notin healthy

\* Whenever the executable is an image that never proved itself, the journal
\* says so and the image it replaced is intact beside it and did prove itself:
\* no crash or power failure leaves a device without a way back.
AlwaysRecoverable ==
    exe \notin healthy =>
        /\ journal.phase \in Unsettled
        /\ journal.image = exe
        /\ journal.previous = backup
        /\ backup \in healthy

\* Success is reported only for an attempt whose image passed its check while
\* installed, and never for a broken image.
SuccessWasConfirmed ==
    \A r \in reports : r.status = "success" =>
        r.attempt \in confirmed /\ ImageOf[r.attempt] \in healthy \ Broken

\* A confirmed image is replaced only by an installation, never by the
\* watchdog of an earlier attempt.
ConfirmedNotUndone ==
    [][journal.phase = "confirmed" /\ exe' # exe => client.stage = "watched"]_deviceVars

\* While the power stays on, a candidate does not stay on trial: it is
\* confirmed or the previous image comes back, although the client and the
\* candidate may crash.  (A power failure takes the watchdog with it, and boot
\* starts none.)
TrialEnds == OnTrial ~> (~OnTrial \/ powerLosses > 0)

\* The client always comes back, unless a power failure in the middle of a
\* trial has left an image nobody will undo.
ComesBack == ~Running ~> (Running \/ (OnTrial /\ powerLosses > 0))

=============================================================================
