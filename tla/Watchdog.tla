------------------------------ MODULE Watchdog ------------------------------
(***************************************************************************)
(* The shell scripts that run the two-node deployment: watchdog.sh, which   *)
(* cron starts every minute on the head node, and the operator's start.sh,  *)
(* stop.sh and watchdog.sh enable / disable.  The scripts share the marker  *)
(* .watchdog-disabled, the state file .watchdog-state ("failures            *)
(* last_restart") and the lock .watchdog.lock, and the containers of the    *)
(* two nodes; only watchdog.sh takes the lock.                              *)
(*                                                                         *)
(* Each script is a process that interleaves with the other at every        *)
(* command that touches shared state.  Times are ages in cron ticks,        *)
(* saturated at the limit they are compared with.                           *)
(***************************************************************************)
EXTENDS Naturals, FiniteSets

CONSTANTS
  FailuresBeforeRestart,
  Grace,         (* STARTUP_GRACE_SECONDS, in ticks                          *)
  Cooldown,      (* RESTART_COOLDOWN_SECONDS, in ticks                       *)
  BootTicks,     (* a boot with a fresh worker takes at most this long       *)
  CanHang,       (* the API may stop answering while the container runs      *)
  SshFails,      (* remote commands that may fail: subset of {"down", "up"}  *)
  Commands,      (* what the operator does: start, stop, enable, disable     *)
  MaxCommands,   (* bound of the model: operator commands                    *)
  MaxOutages     (* bound of the model: head crashes and hangs               *)

ASSUME WatchdogAssumption ==
  /\ {FailuresBeforeRestart, Grace, Cooldown, BootTicks} \subseteq Nat \ {0}
  /\ BootTicks <= Grace
  /\ {MaxCommands, MaxOutages} \subseteq Nat
  /\ CanHang \in BOOLEAN /\ SshFails \subseteq {"down", "up"}
  /\ Commands \subseteq {"start", "stop", "enable", "disable"}

VARIABLES
  pc,           (* process -> its next command; "wd" is a check, "op" the operator *)
  disabled,     (* .watchdog-disabled exists                                 *)
  failures,     (* .watchdog-state, first field                              *)
  sinceRestart, (* .watchdog-state, second field: age of last_restart        *)
  healthy,      (* the check's variable `health` is 200                      *)
  head,         (* down, booting, serving or hung                            *)
  sinceStart,   (* age of the head container                                 *)
  worker,       (* down, fresh (waits for a head), joined, stale (orphaned)  *)
  followers,    (* processes whose `docker logs -f | tee` still run          *)
  intent,       (* what the operator last completed: running or stopped      *)
  raced,        (* the stop began while a check was under way                *)
  sinceAuto,    (* true age of the last automatic restart                    *)
  commands, outages

files == <<disabled, failures, sinceRestart>>
nodes == <<head, sinceStart, worker, followers>>
ghost == <<intent, raced, sinceAuto>>
bounds == <<commands, outages>>
vars == <<pc, files, healthy, nodes, ghost, bounds>>

-----------------------------------------------------------------------------
Older(age, limit) == IF age < limit THEN age + 1 ELSE limit

(* start.sh runs with the check's descriptor 9 open and leaves it to the log   *)
(* follower it starts in the background, so the lock outlives the check.      *)
Locked == pc["wd"] # "idle" \/ "wd" \in followers

Goto(p, l) == pc' = [pc EXCEPT ![p] = l]

Init ==
  /\ pc = [p \in {"wd", "op"} |-> "idle"]
  /\ disabled = FALSE /\ failures = 0 /\ sinceRestart = Cooldown
  /\ healthy = FALSE
  /\ head = "serving" /\ sinceStart = Grace /\ worker = "joined" /\ followers = {"op"}
  /\ intent = "running" /\ raced = FALSE /\ sinceAuto = Cooldown
  /\ commands = 0 /\ outages = 0

-----------------------------------------------------------------------------
(* The containers                                                           *)

HeadGone == head' = "down" /\ followers' = {}
(* A worker whose head goes away does not join a later one.                  *)
Orphan == IF worker = "joined" \/ (worker = "fresh" /\ head = "booting")
            THEN "stale" ELSE worker

HeadExits ==
  /\ head \in {"serving", "booting"} /\ outages < MaxOutages
  /\ HeadGone /\ worker' = Orphan /\ outages' = outages + 1
  /\ UNCHANGED <<pc, files, healthy, sinceStart, ghost, commands>>

HeadHangs ==
  /\ CanHang /\ head = "serving" /\ outages < MaxOutages
  /\ head' = "hung" /\ worker' = Orphan /\ outages' = outages + 1
  /\ UNCHANGED <<pc, files, healthy, sinceStart, followers, ghost, commands>>

(* Rank 0 serves once a worker started for it has joined; it waits for one no     *)
(* longer than a boot may take.                                              *)
MayJoin == head = "booting" /\ worker = "fresh" /\ sinceStart <= BootTicks

BootCompletes ==
  /\ MayJoin
  /\ head' = "serving" /\ worker' = "joined"
  /\ UNCHANGED <<pc, files, healthy, sinceStart, followers, ghost, bounds>>

BootsInTime == MayJoin => sinceStart < BootTicks

-----------------------------------------------------------------------------
(* watchdog.sh check                                                        *)

(* A minute passes and cron starts a check, which ends at once when the lock is    *)
(* held (`flock -n 9 || exit 0`) or the marker is there.  The probe and the       *)
(* judgement of one check are seconds apart (curl --max-time 5), in the same      *)
(* tick.                                                                     *)
Tick ==
  /\ BootsInTime /\ pc["wd"] # "judge"
  /\ sinceRestart' = Older(sinceRestart, Cooldown)
  /\ sinceAuto' = Older(sinceAuto, Cooldown)
  /\ sinceStart' = Older(sinceStart, Grace)
  /\ IF Locked \/ disabled THEN UNCHANGED pc ELSE Goto("wd", "probe")
  /\ UNCHANGED <<disabled, failures, healthy, head, worker, followers, intent, raced, bounds>>

Probe ==
  /\ pc["wd"] = "probe"
  /\ healthy' = (head = "serving")
  /\ Goto("wd", "judge")
  /\ UNCHANGED <<files, nodes, ghost, bounds>>

NoGrace == FALSE
InGrace == head # "down" /\ sinceStart < Grace

ForgetsRestart == failures' = 0 /\ sinceRestart' = Cooldown
KeepsRestart == failures' = 0 /\ UNCHANGED sinceRestart

JudgeHealthy ==
  /\ pc["wd"] = "judge" /\ healthy
  /\ KeepsRestart
  /\ Goto("wd", "idle")
  /\ UNCHANGED <<disabled, healthy, nodes, ghost, bounds>>

JudgeInGrace ==
  /\ pc["wd"] = "judge" /\ ~healthy /\ InGrace
  /\ Goto("wd", "idle")
  /\ UNCHANGED <<files, healthy, nodes, ghost, bounds>>

NotCounted == failures
Failed == failures + 1
RestartDue == Failed >= FailuresBeforeRestart /\ sinceRestart >= Cooldown

JudgeFailed ==
  /\ pc["wd"] = "judge" /\ ~healthy /\ ~InGrace /\ ~RestartDue
  /\ failures' = IF Failed < FailuresBeforeRestart THEN Failed ELSE FailuresBeforeRestart
  /\ Goto("wd", "idle")
  /\ UNCHANGED <<disabled, sinceRestart, healthy, nodes, ghost, bounds>>

(* "coordinated restart beginning": the state file is reset first.           *)
BeginRestart ==
  /\ pc["wd"] = "judge" /\ ~healthy /\ ~InGrace /\ RestartDue
  /\ failures' = 0 /\ sinceRestart' = 0 /\ sinceAuto' = 0
  /\ Goto("wd", "downWorker")
  /\ UNCHANGED <<disabled, healthy, nodes, intent, raced, bounds>>

(* The head cannot serve without its worker.                                *)
HeadAlone == head' = IF head = "serving" THEN "hung" ELSE head

(* A failed `ssh ... down` is logged and ignored.                            *)
DownWorker ==
  /\ pc["wd"] = "downWorker"
  /\ \/ worker' = "down" /\ HeadAlone
     \/ "down" \in SshFails /\ UNCHANGED <<worker, head>>
  /\ Goto("wd", "downHead")
  /\ UNCHANGED <<files, healthy, sinceStart, followers, ghost, bounds>>

DownHead ==
  /\ pc["wd"] = "downHead"
  /\ HeadGone
  /\ worker' = Orphan
  /\ Goto("wd", "arm")
  /\ UNCHANGED <<files, healthy, sinceStart, ghost, bounds>>

-----------------------------------------------------------------------------
(* start.sh, run by the check or by the operator                            *)

RemoveMarker(p) ==
  /\ pc[p] = "arm"
  /\ disabled' = FALSE
  /\ Goto(p, "upWorker")
  /\ UNCHANGED <<failures, sinceRestart, healthy, nodes, ghost, bounds>>

(* `up -d` leaves a running container alone.                                *)
UpWorker(p) ==
  /\ pc[p] = "upWorker"
  /\ worker' = IF worker = "down" THEN "fresh" ELSE worker
  /\ Goto(p, "upHead")
  /\ UNCHANGED <<files, healthy, head, sinceStart, followers, ghost, bounds>>

(* The repository sync or the ssh fails: `set -e` ends the script.           *)
UpWorkerFails(p) ==
  /\ pc[p] = "upWorker" /\ "up" \in SshFails
  /\ Goto(p, "idle")
  /\ UNCHANGED <<files, healthy, nodes, ghost, bounds>>

UpHead(p) ==
  /\ pc[p] = "upHead"
  /\ head' = IF head = "down" THEN "booting" ELSE head
  /\ sinceStart' = IF head = "down" THEN 0 ELSE sinceStart
  /\ followers' = followers \union {p}
  /\ Goto(p, "wait")
  /\ UNCHANGED <<files, healthy, worker, ghost, bounds>>

(* wait_ready: the boot is complete, the container died, or it timed out.     *)
WaitReady(p) ==
  /\ pc[p] = "wait"
  /\ ~MayJoin
  /\ Goto(p, "idle")
  /\ UNCHANGED <<files, healthy, nodes, ghost, bounds>>

-----------------------------------------------------------------------------
(* The operator                                                             *)

FirstStep == [start |-> "arm", stop |-> "touch", enable |-> "enable", disable |-> "disable"]

Command(c) ==
  /\ pc["op"] = "idle" /\ commands < MaxCommands
  /\ commands' = commands + 1
  /\ intent' = IF c \in {"start", "stop"} THEN "running" ELSE intent
  /\ Goto("op", FirstStep[c])
  /\ UNCHANGED <<files, healthy, nodes, raced, sinceAuto, outages>>

(* stop.sh                                                                  *)
MarkerForgotten == UNCHANGED disabled
SetMarker == disabled' = TRUE

TouchMarker ==
  /\ pc["op"] = "touch"
  /\ SetMarker
  /\ raced' = (pc["wd"] # "idle")
  /\ Goto("op", "stopWorker")
  /\ UNCHANGED <<failures, sinceRestart, healthy, nodes, intent, sinceAuto, bounds>>

StopWorker ==
  /\ pc["op"] = "stopWorker"
  /\ worker' = "down" /\ HeadAlone
  /\ Goto("op", "stopHead")
  /\ UNCHANGED <<files, healthy, sinceStart, followers, ghost, bounds>>

StopWorkerFails ==
  /\ pc["op"] = "stopWorker" /\ "down" \in SshFails
  /\ Goto("op", "idle")
  /\ UNCHANGED <<files, healthy, nodes, ghost, bounds>>

StopHead ==
  /\ pc["op"] = "stopHead"
  /\ HeadGone /\ intent' = "stopped"
  /\ worker' = Orphan
  /\ Goto("op", "idle")
  /\ UNCHANGED <<files, healthy, sinceStart, raced, sinceAuto, bounds>>

(* watchdog.sh enable and disable give up silently when the lock is held.     *)
Enable ==
  /\ pc["op"] = "enable"
  /\ IF Locked THEN UNCHANGED <<files, intent, sinceAuto>>
     ELSE /\ disabled' = FALSE /\ failures' = 0
          /\ sinceRestart' = Cooldown /\ sinceAuto' = Cooldown
          /\ intent' = "running"
  /\ Goto("op", "idle")
  /\ UNCHANGED <<healthy, nodes, raced, bounds>>

Disable ==
  /\ pc["op"] = "disable"
  /\ disabled' = (disabled \/ ~Locked)
  /\ Goto("op", "idle")
  /\ UNCHANGED <<failures, sinceRestart, healthy, nodes, ghost, bounds>>

-----------------------------------------------------------------------------
StartScript(p) ==
  RemoveMarker(p) \/ UpWorker(p) \/ UpWorkerFails(p) \/ UpHead(p) \/ WaitReady(p)
Check ==
  \/ Probe \/ JudgeHealthy \/ JudgeInGrace \/ JudgeFailed \/ BeginRestart
  \/ DownWorker \/ DownHead \/ StartScript("wd")
Operator ==
  \/ \E c \in Commands : Command(c)
  \/ TouchMarker \/ StopWorker \/ StopWorkerFails \/ StopHead \/ Enable \/ Disable
  \/ StartScript("op")

Next == HeadExits \/ HeadHangs \/ BootCompletes \/ Tick \/ Check \/ Operator

Spec == Init /\ [][Next]_vars

(* cron keeps firing, a script that runs goes on, a boot completes, and a       *)
(* remote command that is retried for ever succeeds some time.                *)
FairSpec ==
  /\ Spec
  /\ WF_vars(Tick) /\ WF_vars(Check) /\ WF_vars(BootCompletes)
  /\ SF_vars(UpWorker("wd"))

-----------------------------------------------------------------------------
Labels == {"idle", "probe", "judge", "downWorker", "downHead", "arm", "upWorker", "upHead",
           "wait", "touch", "stopWorker", "stopHead", "enable", "disable"}

(* Every variable has its type, and the log follower lives only as long as the  *)
(* head container.                                                           *)
TypeOK ==
  /\ pc \in [{"wd", "op"} -> Labels]
  /\ {disabled, healthy, raced} \subseteq BOOLEAN
  /\ failures \in 0..FailuresBeforeRestart
  /\ {sinceRestart, sinceAuto} \subseteq 0..Cooldown /\ sinceStart \in 0..Grace
  /\ head \in {"down", "booting", "serving", "hung"}
  /\ worker \in {"down", "fresh", "joined", "stale"}
  /\ followers \subseteq {"wd", "op"} /\ (head = "down" => followers = {})
  /\ intent \in {"running", "stopped"}
  /\ commands \in 0..MaxCommands /\ outages \in 0..MaxOutages

(* "limits automatic restarts to one every 15 minutes": whatever healthy checks,  *)
(* operator starts and failed restarts come between, the state file remembers.    *)
RestartsAreSpaced ==
  [][pc["wd"] = "judge" /\ pc'["wd"] = "downWorker" => sinceAuto >= Cooldown]_vars

(* The watchdog never decides to take down a head that serves, though it probed  *)
(* before it judged and the head's boot may have completed in between.           *)
RestartsOnlyTheFailed ==
  [][pc["wd"] = "judge" /\ pc'["wd"] = "downWorker" => head # "serving"]_vars

(* "Prevent the health watchdog from undoing an intentional stop": a stop that     *)
(* did not begin while a check was under way is never undone, whatever failures   *)
(* the state file had counted before it.  (A stop during a check may be: the      *)
(* marker is tested once, and the start.sh that the check runs removes it.)       *)
QuietStopHolds == intent = "stopped" /\ ~raced /\ pc["op"] = "idle" => head = "down"

(* "Three failed one-minute checks trigger a coordinated worker/head shutdown  *)
(* followed by the normal worker-first start": once the operator leaves the     *)
(* deployment alone with its watchdog enabled, it ends up serving, whatever     *)
(* crashed, hung or failed over ssh before.  The one way out is the lock that    *)
(* a check left to its log follower: a head that hangs, or waits for a worker    *)
(* that will not join, then keeps every later check from starting.              *)
LeftAlone == pc["op"] = "idle" /\ ~disabled
StrandedByLock == "wd" \in followers /\ head # "serving" /\ ~MayJoin
RecoversFromOutage == <>[]LeftAlone => <>[](head = "serving") \/ <>[]StrandedByLock
=============================================================================
