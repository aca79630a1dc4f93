--------------------------- MODULE MachineControl ---------------------------
(***************************************************************************)
(* The launcher, one machine's player process and the snapshot window.     *)
(*                                                                         *)
(*   launcher-core/src/machines.rs   play, reap: who has a player          *)
(*   launcher-core/src/snaps.rs      the window's model                    *)
(*   launcher-core/src/control.rs    the monitor: one command at a time    *)
(*   launcher/src                    the egui front end: frame by frame    *)
(*   launcher-qt                     the Qt front end: timers and handlers *)
(*                                                                         *)
(* The launcher is one thread; between two of its commands the player may  *)
(* exit, a job of QEMU may conclude, and somebody else (the guest itself,  *)
(* another monitor) may pause or resume the guest.  A command fails when   *)
(* there is no monitor, when QEMU refuses it, or by a fault: its reply is  *)
(* lost, and then it may or may not have been carried out.                 *)
(*                                                                         *)
(* A snapshot is not told from another; stale says that the list was not   *)
(* read since the window's last operation.  Closing the window also stands *)
(* for opening it for another machine.                                     *)
(***************************************************************************)
EXTENDS Integers

CONSTANTS
  FrontEnd,   \* "egui" or "qt"
  MaxJobs,    \* bound of the model: jobs started per opening of the window
  MaxPlays,   \* bound of the model: players spawned
  MaxFaults   \* bound of the model: commands that fail for no reason of QEMU's

ASSUME FrontEndAssumption == FrontEnd \in {"egui", "qt"}
ASSUME ControlBoundsAssumption ==
  MaxJobs \in Nat \ {0} /\ MaxPlays \in Nat /\ MaxFaults \in Nat

VARIABLES
  \* QEMU
  player,     \* the process: none, starting, up, or gone (exited, not reaped)
  run,        \* the guest's CPUs run
  elsewhere,  \* ... or somebody else has paused them
  jobs,       \* job id -> its state; a concluded job stays until dismissed
  \* the launcher
  child,      \* running holds the machine
  uiAt,         \* where the UI thread is
  call,       \* what the handler under way keeps in its locals
  \* Snapshots
  open, live, job, resume, nextJob, error, status,
  \* controlHistory
  plays, faults,
  stale,      \* the list was not read since the window's last operation
  failed,     \* the last operation of this window was a job that failed
  ranFor      \* job id -> the guest ran when a load stopped it for this job

machine == <<player, run, elsewhere, jobs>>
window  == <<open, live, job, resume, nextJob, error, status>>
controlHistory == <<plays, faults, stale, failed, ranFor>>
controlVars    == <<machine, child, uiAt, call, window, controlHistory>>

JobIds == 1..MaxJobs
NoJob  == 0
NoCall == [load |-> FALSE, ran |-> FALSE, id |-> NoJob, resume |-> FALSE, bad |-> FALSE]
Calls  == [load : BOOLEAN, ran : BOOLEAN, id : JobIds \cup {NoJob},
           resume : BOOLEAN, bad : BOOLEAN]

(* egui goes round reap, grid, show, poll, buttons; Qt sits in its event   *)
(* loop.  The others are the commands of start_job and of poll_now.        *)
Frame    == {"reap", "grid", "show", "poll", "buttons"}
Starting == {"node", "ask", "stop", "submit"}
Tidying  == {"dismiss", "resume", "reload"}
Resting  == IF FrontEnd = "egui" THEN Frame ELSE {"loop"}

At(place)   == uiAt \in {place, "loop"}
Goto(place) == uiAt' = IF FrontEnd = "egui" THEN place ELSE "loop"

ControlTypeOK ==
  /\ player \in {"none", "starting", "up", "gone"}
  /\ run \in BOOLEAN /\ elsewhere \in BOOLEAN
  /\ jobs \in [JobIds -> {"none", "running", "ok", "failed"}]
  /\ child \in BOOLEAN /\ uiAt \in Resting \cup Starting \cup Tidying /\ call \in Calls
  /\ open \in BOOLEAN /\ live \in BOOLEAN /\ job \in JobIds \cup {NoJob}
  /\ resume \in BOOLEAN /\ nextJob \in 0..MaxJobs
  /\ error \in BOOLEAN /\ status \in {"none", "doing", "done"}
  /\ plays \in 0..MaxPlays /\ faults \in 0..MaxFaults
  /\ stale \in BOOLEAN /\ failed \in BOOLEAN /\ ranFor \in [JobIds -> BOOLEAN]
  /\ uiAt \in Starting => nextJob \in JobIds
  /\ uiAt \in {"dismiss", "resume"} => call.id \in JobIds

ControlInit ==
  /\ player = "none" /\ run = FALSE /\ elsewhere = FALSE
  /\ jobs = [i \in JobIds |-> "none"]
  /\ child = FALSE /\ uiAt = IF FrontEnd = "egui" THEN "reap" ELSE "loop"
  /\ call = NoCall
  /\ open = FALSE /\ live = FALSE /\ job = NoJob /\ resume = FALSE
  /\ nextJob = 0 /\ error = FALSE /\ status = "none"
  /\ plays = 0 /\ faults = 0
  /\ stale = FALSE /\ failed = FALSE /\ ranFor = [i \in JobIds |-> FALSE]

---------------------------------------------------------------------------
(* The player and QEMU. *)

PlayerUp ==
  /\ player = "starting"
  /\ player' = "up" /\ run' = TRUE
  /\ UNCHANGED <<elsewhere, jobs, child, uiAt, call, window, controlHistory>>

(* Shut down, killed, or it never came up: its jobs are gone with it. *)
PlayerExits ==
  /\ player \in {"starting", "up"}
  /\ player' = "gone" /\ run' = FALSE /\ elsewhere' = FALSE
  /\ jobs' = [i \in JobIds |-> "none"]
  /\ UNCHANGED <<child, uiAt, call, window, controlHistory>>

JobConcludes(id, outcome) ==
  /\ jobs[id] = "running"
  /\ jobs' = [jobs EXCEPT ![id] = outcome]
  /\ stale' = (stale \/ (id = job /\ outcome = "ok"))
  /\ UNCHANGED <<player, run, elsewhere, child, uiAt, call, window, plays, faults,
                 failed, ranFor>>

PausedElsewhere ==
  /\ player = "up" /\ run
  /\ run' = FALSE /\ elsewhere' = TRUE
  /\ UNCHANGED <<player, jobs, child, uiAt, call, window, controlHistory>>

ResumedElsewhere ==
  /\ elsewhere
  /\ run' = TRUE /\ elsewhere' = FALSE
  /\ UNCHANGED <<player, jobs, child, uiAt, call, window, controlHistory>>

---------------------------------------------------------------------------
(* A command that could succeed, succeeds unless there is a fault. *)
Fails(possible) ==
  /\ possible => faults < MaxFaults
  /\ faults' = IF possible THEN faults + 1 ELSE faults

Succeeds(possible) == possible /\ faults' = faults

Monitor == player = "up"

(* The image is not QEMU's. *)
ImageFree == player \in {"none", "gone"}

(* reload: the list comes from the monitor or from qemu-img. *)
Listable(fromMonitor) == IF fromMonitor THEN Monitor ELSE ImageFree

(* refresh: the outcome is the window's message. *)
RefreshList(fromMonitor) ==
  /\ failed' = FALSE
  /\ \/ Succeeds(Listable(fromMonitor)) /\ error' = FALSE /\ stale' = FALSE
     \/ Fails(Listable(fromMonitor)) /\ error' = TRUE /\ stale' = TRUE

---------------------------------------------------------------------------
(* The grid. *)

(* reap: a player that has exited is collected. *)
ReapIf(ended) ==
  /\ At("reap") /\ Goto("grid")
  /\ child' = (child /\ ~ended)
  /\ player' = IF player = "gone" THEN "none" ELSE player
  /\ UNCHANGED <<run, elsewhere, jobs, call, window, controlHistory>>

(* A mutant: a player counts once its monitor answers. *)
ReapUnlessUp == ReapIf(player # "up")

Reap == ReapIf(player = "gone")

NothingClicked ==
  /\ uiAt = "grid" /\ uiAt' = "show"
  /\ UNCHANGED <<machine, child, call, window, controlHistory>>

(* play: offered for a machine that is not running. *)
Play ==
  /\ At("grid") /\ Goto("show")
  /\ ~child /\ plays < MaxPlays
  /\ child' = TRUE /\ player' = "starting" /\ plays' = plays + 1
  /\ UNCHANGED <<run, elsewhere, jobs, call, window, faults, stale, failed, ranFor>>

(* open_for_path, open_for: everything starts over. *)
OpenWindow ==
  /\ At("grid") /\ Goto("show")
  /\ open' = TRUE /\ live' = child
  /\ job' = NoJob /\ resume' = FALSE /\ nextJob' = 0 /\ status' = "none"
  /\ RefreshList(child)
  /\ UNCHANGED <<machine, child, call, plays, ranFor>>

---------------------------------------------------------------------------
(* The window, once a frame: set_running, poll_job, then the buttons. *)

WindowClosed ==
  /\ uiAt = "show" /\ ~open
  /\ uiAt' = "reap"
  /\ UNCHANGED <<machine, child, call, window, controlHistory>>

(* set_running, which only the egui front end calls. *)
SetRunningThen(relist) ==
  /\ uiAt = "show" /\ open
  /\ uiAt' = "poll" /\ live' = child
  /\ job' = IF live = child THEN job ELSE NoJob
  /\ IF relist THEN RefreshList(child) ELSE UNCHANGED <<error, faults, stale, failed>>
  /\ UNCHANGED <<machine, child, call, open, resume, nextJob, status, plays, ranFor>>

(* A mutant: the list is left as the other source gave it. *)
SetRunningKeepsList == SetRunningThen(FALSE)

SetRunning == SetRunningThen(live # child)

(* poll_job without a job, or less than POLL_INTERVAL after the last. *)
NotPolled ==
  /\ uiAt = "poll" /\ uiAt' = "buttons"
  /\ UNCHANGED <<machine, child, call, window, controlHistory>>

Polled == At("poll") /\ open /\ job # NoJob

PollUnanswered ==
  /\ Polled /\ Goto("buttons")
  /\ Fails(Monitor)
  /\ job' = NoJob /\ error' = TRUE
  /\ UNCHANGED <<machine, child, call, open, live, resume, nextJob, status, plays,
                 stale, failed, ranFor>>

(* The job is gone, with the player that had it. *)
PollGone ==
  /\ Polled /\ Goto("buttons")
  /\ Monitor /\ jobs[job] = "none"
  /\ job' = NoJob
  /\ RefreshList(live)
  /\ UNCHANGED <<machine, child, call, open, live, resume, nextJob, status, plays, ranFor>>

PollBusy ==
  /\ Polled /\ Goto("buttons")
  /\ Monitor /\ jobs[job] = "running"
  /\ UNCHANGED <<machine, child, call, window, controlHistory>>

(* Concluded: the job and whether to resume are taken from the window, and *)
(* the tidying begins.                                                     *)
PollConcludedWith(id, resumeNow) ==
  /\ Polled /\ uiAt' = "dismiss"
  /\ Monitor /\ jobs[job] \in {"ok", "failed"}
  /\ call' = [NoCall EXCEPT !.id = id, !.resume = resumeNow, !.bad = (jobs[job] = "failed")]
  /\ job' = NoJob /\ resume' = FALSE
  /\ failed' = (jobs[job] = "failed")
  /\ UNCHANGED <<machine, child, open, live, nextJob, error, status, plays, faults,
                 stale, ranFor>>

(* A mutant: whether to resume is read after it was cleared. *)
PollConcludedNoResume == PollConcludedWith(job, FALSE)

PollConcluded == PollConcludedWith(job, resume)

(* poll_now goes on: job-dismiss, *)
Dismiss ==
  /\ uiAt = "dismiss"
  /\ \/ /\ Succeeds(Monitor)
        /\ uiAt' = IF call.resume THEN "resume" ELSE "reload"
        /\ jobs' = [jobs EXCEPT ![call.id] = "none"]
        /\ UNCHANGED call
     \/ /\ Fails(Monitor)
        /\ uiAt' = "reload" /\ call' = [call EXCEPT !.bad = TRUE]
        /\ jobs' \in {jobs, [jobs EXCEPT ![call.id] = "none"]}
  /\ UNCHANGED <<player, run, elsewhere, child, window, plays, stale, failed, ranFor>>

(* cont, if the guest ran before, *)
Resume ==
  /\ uiAt = "resume" /\ uiAt' = "reload"
  /\ \/ Succeeds(Monitor) /\ run' = TRUE /\ UNCHANGED call
     \/ /\ Fails(Monitor)
        /\ run' \in {run, Monitor} /\ call' = [call EXCEPT !.bad = TRUE]
  /\ elsewhere' = (elsewhere /\ ~run')
  /\ UNCHANGED <<player, jobs, child, window, plays, stale, failed, ranFor>>

(* and the list is read again, which must not hide what went wrong. *)
ReloadThen(good, relisted) ==
  /\ uiAt = "reload" /\ Goto("buttons") /\ call' = NoCall
  /\ IF relisted THEN Succeeds(Listable(live)) ELSE Fails(Listable(live))
  /\ stale' = ~relisted
  /\ error' = ~(good /\ relisted)
  /\ status' = IF good /\ relisted THEN "done" ELSE "none"
  /\ UNCHANGED <<machine, child, open, live, job, resume, nextJob, plays, failed, ranFor>>

(* A mutant: the message is the list's. *)
ReloadForgives == \E relisted \in BOOLEAN : ReloadThen(TRUE, relisted)

Reload == \E relisted \in BOOLEAN : ReloadThen(~call.bad, relisted)

---------------------------------------------------------------------------
(* The buttons: none is offered while a job is in flight. *)
Offered == At("buttons") /\ open /\ job = NoJob

NoButton ==
  /\ uiAt = "buttons" /\ uiAt' = "reap"
  /\ UNCHANGED <<machine, child, call, window, controlHistory>>

CloseWindow ==
  /\ At("buttons") /\ open /\ Goto("reap")
  /\ open' = FALSE
  /\ UNCHANGED <<machine, child, call, live, job, resume, nextJob, error, status, controlHistory>>

(* run: qemu-img works on the image of a machine that is not running; if   *)
(* QEMU has it open, the image's lock may or may not be in the way.        *)
OfflineDone(relisted) ==
  /\ IF relisted THEN Succeeds(Listable(live)) ELSE Fails(Listable(live))
  /\ stale' = ~relisted /\ error' = ~relisted
  /\ status' = "done"

OfflineRefused ==
  /\ Fails(ImageFree)
  /\ status' = "none" /\ error' = TRUE /\ stale' = stale

Offline ==
  /\ Offered /\ ~live /\ Goto("reap")
  /\ OfflineRefused \/ \E relisted \in BOOLEAN : OfflineDone(relisted)
  /\ failed' = FALSE
  /\ UNCHANGED <<machine, child, call, open, live, job, resume, nextJob, plays, ranFor>>

(* take, drop_snapshot, revert with the machine up: start_job. *)
StartJob(restores) ==
  /\ Offered /\ live
  /\ nextJob < MaxJobs /\ nextJob' = nextJob + 1
  /\ uiAt' = "node" /\ call' = [NoCall EXCEPT !.load = restores]
  /\ UNCHANGED <<machine, child, open, live, job, resume, error, status, controlHistory>>

(* start_job's error: what was done so far stays done. *)
NotStarted ==
  /\ Goto("reap") /\ call' = NoCall
  /\ resume' = FALSE /\ status' = "none" /\ error' = TRUE

(* connect, disk_node *)
FindNode ==
  /\ uiAt = "node"
  /\ \/ /\ Succeeds(Monitor)
        /\ uiAt' = IF call.load THEN "ask" ELSE "submit"
        /\ UNCHANGED <<call, resume, status, error>>
     \/ Fails(Monitor) /\ NotStarted
  /\ UNCHANGED <<machine, child, open, live, job, nextJob, plays, stale, failed, ranFor>>

(* is_running *)
AskRunning ==
  /\ uiAt = "ask"
  /\ \/ /\ Succeeds(Monitor)
        /\ uiAt' = "stop" /\ call' = [call EXCEPT !.ran = run]
        /\ UNCHANGED <<resume, status, error>>
     \/ Fails(Monitor) /\ NotStarted
  /\ UNCHANGED <<machine, child, open, live, job, nextJob, plays, stale, failed, ranFor>>

(* set_running(false) *)
StopGuest ==
  /\ uiAt = "stop"
  /\ \/ /\ Succeeds(Monitor)
        /\ uiAt' = "submit" /\ run' = FALSE
        /\ UNCHANGED <<call, resume, status, error>>
     \/ Fails(Monitor) /\ NotStarted /\ run' \in {run, FALSE}
  /\ UNCHANGED <<player, elsewhere, jobs, child, open, live, job, nextJob, plays, stale,
                 failed, ranFor>>

(* start_snapshot_job: QEMU refuses an id it still has. *)
Accepted == Monitor /\ jobs[nextJob] = "none"
WithJob  == [jobs EXCEPT ![nextJob] = "running"]

SubmitThen(resumeLater) ==
  /\ uiAt = "submit"
  /\ \/ /\ Succeeds(Accepted) /\ jobs' = WithJob
        /\ job' = nextJob /\ resume' = resumeLater
        /\ error' = FALSE /\ status' = "doing"
        /\ failed' = FALSE /\ ranFor' = [ranFor EXCEPT ![nextJob] = call.ran]
        /\ Goto("reap") /\ call' = NoCall
     \/ /\ Fails(Accepted) /\ NotStarted
        /\ jobs' \in {jobs} \cup (IF Accepted THEN {WithJob} ELSE {})
        /\ UNCHANGED <<job, failed, ranFor>>
  /\ UNCHANGED <<player, run, elsewhere, child, open, live, nextJob, plays, stale>>

(* A mutant: whether to resume is not reset by a job that needs no stop. *)
SubmitKeepsResume == SubmitThen(resume \/ call.ran)

Submit == SubmitThen(call.ran)

---------------------------------------------------------------------------
Qemu ==
  \/ PlayerUp \/ PlayerExits
  \/ \E id \in JobIds : \E outcome \in {"ok", "failed"} : JobConcludes(id, outcome)
  \/ PausedElsewhere \/ ResumedElsewhere

Grid == Reap \/ NothingClicked \/ Play \/ OpenWindow

Poll ==
  \/ PollUnanswered \/ PollGone \/ PollBusy \/ PollConcluded
  \/ Dismiss \/ Resume \/ Reload

StartSteps == FindNode \/ AskRunning \/ StopGuest \/ Submit

Window ==
  \/ WindowClosed \/ SetRunning \/ NotPolled \/ Poll
  \/ NoButton \/ CloseWindow \/ Offline \/ StartSteps
  \/ \E restores \in BOOLEAN : StartJob(restores)

ControlNext == Qemu \/ Grid \/ Window

(* A frame goes on and another follows (egui repaints every 500 ms), a     *)
(* frame in POLL_INTERVAL polls, a job concludes, a player comes up.       *)
ControlFairness ==
  /\ WF_controlVars(Grid \/ Window)
  /\ SF_controlVars(PollUnanswered \/ PollGone \/ PollConcluded)
  /\ WF_controlVars(PlayerUp)
  /\ \A id \in JobIds :
       WF_controlVars(\E outcome \in {"ok", "failed"} : JobConcludes(id, outcome))

ControlSpec == ControlInit /\ [][ControlNext]_controlVars
FairControlSpec == ControlSpec /\ ControlFairness

---------------------------------------------------------------------------
InCommand == uiAt \in Starting \cup Tidying

(* snaps.rs 7-12: qemu-img never touches the image of a machine that has a *)
(* player, because it corrupts an image that QEMU has open.                *)
OfflineOnlyWhenStopped == [][Offline => ImageFree]_controlVars

(* snaps.rs 16-18: the window resumes the guest only for a load that had   *)
(* found it running, whatever became of the jobs and players before.       *)
ResumesOnlyWhatRan == [][Resume => ranFor[call.id]]_controlVars

(* snaps.rs 19-21: a job that failed stays reported: nothing but a new     *)
(* operation, or the machine's start or stop, takes the message away.      *)
FailureStays == failed /\ ~InCommand => error /\ status # "done"

(* snaps.rs 143-181, 295-307: when the window has ended an operation and   *)
(* shows no error, its list was read since, whatever way it ended.         *)
ListIsCurrent == open /\ ~InCommand /\ job = NoJob /\ ~error => ~stale

(* snaps.rs 246-308: a job in an open window is not waited for for ever,   *)
(* although it may vanish, fail, or outlive the player; and after a load   *)
(* the guest runs again, or there is an error to say why not, unless the   *)
(* window was closed or opened anew.                                       *)
JobEnds ==
  /\ (job # NoJob) ~> (job = NoJob \/ ~open)
  /\ (job # NoJob /\ resume) ~> (run \/ elsewhere \/ player # "up" \/ error \/ ~open \/ nextJob = 0)
===========================================================================
