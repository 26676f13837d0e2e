--------------------------- MODULE Watchdog_proofs ---------------------------
(***************************************************************************)
(* Proofs about Watchdog: how far apart automatic restarts are, what they    *)
(* take down, and that the watchdog does not undo a stop.                    *)
(***************************************************************************)
EXTENDS Watchdog, TLAPS

Processes == {"wd", "op"}

(* TypeOK, one variable at a time.                                            *)
Flags == disabled \in BOOLEAN /\ healthy \in BOOLEAN /\ raced \in BOOLEAN
Typed ==
  /\ pc \in [Processes -> Labels]
  /\ Flags
  /\ failures \in 0..FailuresBeforeRestart
  /\ sinceRestart \in 0..Cooldown /\ sinceAuto \in 0..Cooldown /\ sinceStart \in 0..Grace
  /\ head \in {"down", "booting", "serving", "hung"}
  /\ worker \in {"down", "fresh", "joined", "stale"}
  /\ followers \subseteq Processes /\ (head = "down" => followers = {})
  /\ intent \in {"running", "stopped"}
  /\ commands \in 0..MaxCommands /\ outages \in 0..MaxOutages

(* The state file is never behind the restarts it stands for.                 *)
FileRemembers == sinceRestart = sinceAuto

(* A head that serves although the probe did not see it completed its boot       *)
(* between the probe and the judgement, so it is as old as a boot may take.       *)
JustBooted ==
  pc["wd"] = "judge" /\ ~healthy /\ head = "serving" => sinceStart <= BootTicks

(* While a stop that raced with no check runs, and until the operator undoes     *)
(* it, the marker keeps every check from beginning, and the head stays down.      *)
NoCheck == disabled /\ pc["wd"] = "idle"
StopKept ==
  /\ pc["op"] \in {"stopWorker", "stopHead"} /\ ~raced => NoCheck
  /\ intent = "stopped" => /\ pc["op"] \in {"idle", "enable", "disable"}
                           /\ ~raced => NoCheck /\ head = "down"

(* The inductive invariant.                                                   *)
WatchdogInv == Typed /\ FileRemembers /\ JustBooted /\ StopKept

-----------------------------------------------------------------------------
(* A process moves and the other stays where it is.                           *)
LEMMA GotoFacts ==
  ASSUME pc \in [Processes -> Labels], NEW p \in Processes, NEW l \in Labels, Goto(p, l)
  PROVE  /\ pc' \in [Processes -> Labels] /\ pc'[p] = l
         /\ \A q \in Processes : q # p => pc'[q] = pc[q]
<1>1. QED
  BY DEF Goto

(* Ages saturate at their limit.                                              *)
LEMMA OlderFacts ==
  ASSUME NEW limit \in Nat, NEW age \in 0..limit
  PROVE  Older(age, limit) \in 0..limit
<1>1. QED
  BY DEF Older

(* The constants, one by one.                                                 *)
LEMMA ConstantFacts ==
  /\ FailuresBeforeRestart \in Nat \ {0} /\ Grace \in Nat \ {0}
  /\ Cooldown \in Nat \ {0} /\ BootTicks \in Nat \ {0}
  /\ BootTicks <= Grace /\ MaxCommands \in Nat /\ MaxOutages \in Nat
  /\ Commands \subseteq {"start", "stop", "enable", "disable"}
<1>1. QED
  BY WatchdogAssumption

(* Init establishes the invariant: nothing was restarted, and nothing stopped.  *)
LEMMA InitHolds == Init => WatchdogInv
<1> SUFFICES ASSUME Init PROVE WatchdogInv
  OBVIOUS
<1>1. pc \in [Processes -> Labels]
  BY DEF Init, Processes, Labels
<1>f. Flags
  BY DEF Init, Flags
<1>2. Typed
  BY <1>1, <1>f, ConstantFacts DEF Init, Typed, Processes
<1>3. pc["op"] = "idle" /\ pc["wd"] = "idle"
  BY DEF Init
<1>4. QED
  BY <1>2, <1>3 DEF Init, WatchdogInv, FileRemembers, JustBooted, StopKept

-----------------------------------------------------------------------------
(* Preservation, one lemma per conjunct and one step per action.               *)
LEMMA TypeStep == Typed /\ [Next]_vars => Typed'
<1> SUFFICES ASSUME Typed, [Next]_vars PROVE Typed'
  OBVIOUS
<1> USE ConstantFacts DEF Typed, Flags, files, nodes, ghost, bounds
<1>p. /\ pc \in [Processes -> Labels] /\ "wd" \in Processes /\ "op" \in Processes
      /\ \A l \in {"idle", "probe", "judge", "downWorker", "downHead", "arm", "upWorker",
                   "upHead", "wait", "touch", "stopWorker", "stopHead", "enable", "disable"} :
           l \in Labels
  BY DEF Processes, Labels
<1>1. CASE UNCHANGED vars
  BY <1>1 DEF vars
<1>2. CASE HeadExits
  BY <1>2 DEF HeadExits, HeadGone, Orphan
<1>3. CASE HeadHangs
  BY <1>3 DEF HeadHangs, Orphan
<1>4. CASE BootCompletes
  BY <1>4 DEF BootCompletes, MayJoin
<1>5. CASE Tick
  <2>1. pc' \in [Processes -> Labels]
    BY <1>5, <1>p, GotoFacts DEF Tick
  <2>2. QED
    BY <1>5, <2>1, OlderFacts DEF Tick
<1>6. CASE Probe
  <2>1. pc' \in [Processes -> Labels]
    BY <1>6, <1>p, GotoFacts DEF Probe
  <2>2. QED
    BY <1>6, <2>1 DEF Probe
<1>7. CASE JudgeHealthy \/ JudgeInGrace \/ JudgeFailed \/ BeginRestart
  <2>1. pc' \in [Processes -> Labels]
    BY <1>7, <1>p, GotoFacts DEF JudgeHealthy, JudgeInGrace, JudgeFailed, BeginRestart
  <2>2. QED
    BY <1>7, <2>1 DEF JudgeHealthy, KeepsRestart, JudgeInGrace, JudgeFailed, Failed,
                      BeginRestart
<1>8. CASE DownWorker \/ DownHead
  <2>1. pc' \in [Processes -> Labels]
    BY <1>8, <1>p, GotoFacts DEF DownWorker, DownHead
  <2>2. QED
    BY <1>8, <2>1 DEF DownWorker, DownHead, HeadAlone, HeadGone, Orphan
<1>9. CASE \E p \in Processes : StartScript(p)
  <2>1. PICK p \in Processes : StartScript(p)
    BY <1>9
  <2>2. pc' \in [Processes -> Labels]
    BY <2>1, <1>p, GotoFacts
       DEF StartScript, RemoveMarker, UpWorker, UpWorkerFails, UpHead, WaitReady
  <2>3. Flags'
    BY <2>1 DEF Flags, StartScript, RemoveMarker, UpWorker, UpWorkerFails, UpHead, WaitReady
  <2>4. QED
    BY <2>1, <2>2, <2>3
       DEF StartScript, RemoveMarker, UpWorker, UpWorkerFails, UpHead, WaitReady
<1>10. CASE \E c \in Commands : Command(c)
  <2>1. PICK c \in Commands : Command(c)
    BY <1>10
  <2>2. FirstStep[c] \in Labels
    BY <2>1, <1>p DEF FirstStep
  <2>3. pc' \in [Processes -> Labels]
    BY <2>1, <2>2, <1>p, GotoFacts DEF Command
  <2>4. QED
    BY <2>1, <2>3 DEF Command
<1>11. CASE TouchMarker \/ StopWorker \/ StopWorkerFails \/ StopHead
  <2>1. pc' \in [Processes -> Labels]
    BY <1>11, <1>p, GotoFacts DEF TouchMarker, StopWorker, StopWorkerFails, StopHead
  <2>2. QED
    BY <1>11, <2>1 DEF TouchMarker, SetMarker, StopWorker, StopWorkerFails, StopHead,
                       HeadAlone, HeadGone, Orphan
<1>12. CASE Enable \/ Disable
  <2>1. pc' \in [Processes -> Labels]
    BY <1>12, <1>p, GotoFacts DEF Enable, Disable
  <2>2. Flags'
    BY <1>12 DEF Flags, Enable, Disable
  <2>3. QED
    BY <1>12, <2>1, <2>2 DEF Enable, Disable
<1>13. QED
  BY <1>1, <1>2, <1>3, <1>4, <1>5, <1>6, <1>7, <1>8, <1>9, <1>10, <1>11, <1>12
     DEF Next, Check, Operator, Processes

(* Every action that touches last_restart in the state file touches both.        *)
LEMMA RemembersStep == FileRemembers /\ [Next]_vars => FileRemembers'
<1> SUFFICES ASSUME FileRemembers, [Next]_vars PROVE FileRemembers'
  OBVIOUS
<1> USE DEF FileRemembers, files, ghost
<1>1. CASE UNCHANGED vars
  BY <1>1 DEF vars
<1>2. CASE HeadExits \/ HeadHangs \/ BootCompletes
  BY <1>2 DEF HeadExits, HeadHangs, BootCompletes
<1>3. CASE Tick
  BY <1>3 DEF Tick
<1>4. CASE Check \/ StartScript("op")
  BY <1>4 DEF Check, Probe, JudgeHealthy, KeepsRestart, JudgeInGrace, JudgeFailed,
              BeginRestart, DownWorker, DownHead,
              StartScript, RemoveMarker, UpWorker, UpWorkerFails, UpHead, WaitReady
<1>5. CASE \E c \in Commands : Command(c)
  BY <1>5 DEF Command
<1>6. CASE TouchMarker \/ StopWorker \/ StopWorkerFails \/ StopHead \/ Enable \/ Disable
  BY <1>6 DEF TouchMarker, StopWorker, StopWorkerFails, StopHead, Enable, Disable
<1>7. QED
  BY <1>1, <1>2, <1>3, <1>4, <1>5, <1>6 DEF Next, Operator

(* Only the end of a boot makes a head serve, and no tick passes before the       *)
(* judgement.                                                                 *)
LEMMA BootedStep == Typed /\ JustBooted /\ [Next]_vars => JustBooted'
<1> SUFFICES ASSUME Typed, JustBooted, [Next]_vars,
                    pc'["wd"] = "judge", ~healthy', head' = "serving"
             PROVE  sinceStart' <= BootTicks
  BY DEF JustBooted
<1>p. /\ pc \in [Processes -> Labels] /\ "wd" \in Processes /\ "op" \in Processes
      /\ sinceStart \in Nat
  BY ConstantFacts DEF Processes, Typed
<1> USE DEF files, nodes, ghost, bounds, Goto
<1>1. CASE UNCHANGED vars
  BY <1>1 DEF vars, JustBooted
<1>2. CASE HeadExits \/ HeadHangs
  BY <1>2 DEF HeadExits, HeadHangs, HeadGone
<1>3. CASE BootCompletes
  BY <1>3 DEF BootCompletes, MayJoin
<1>4. CASE Tick
  BY <1>4, <1>p DEF Tick
<1>5. CASE Probe
  BY <1>5 DEF Probe
<1>6. CASE JudgeHealthy \/ JudgeInGrace \/ JudgeFailed \/ BeginRestart \/ DownWorker \/ DownHead
  BY <1>6, <1>p DEF JudgeHealthy, JudgeInGrace, JudgeFailed, BeginRestart, DownWorker, DownHead
<1>7. CASE StartScript("wd")
  BY <1>7, <1>p DEF StartScript, RemoveMarker, UpWorker, UpWorkerFails, UpHead, WaitReady
<1>8. CASE StartScript("op")
  BY <1>8, <1>p DEF JustBooted, StartScript, RemoveMarker, UpWorker, UpWorkerFails, UpHead,
                    WaitReady
<1>9. CASE \E c \in Commands : Command(c)
  BY <1>9, <1>p DEF JustBooted, Command
<1>10. CASE TouchMarker \/ StopWorker \/ StopWorkerFails \/ StopHead
  BY <1>10, <1>p DEF JustBooted, TouchMarker, StopWorker, HeadAlone, StopWorkerFails, StopHead,
                     HeadGone
<1>11. CASE Enable \/ Disable
  BY <1>11, <1>p DEF JustBooted, Enable, Disable
<1>12. QED
  BY <1>1, <1>2, <1>3, <1>4, <1>5, <1>6, <1>7, <1>8, <1>9, <1>10, <1>11
     DEF Next, Check, Operator

(* A stop sets the marker before anything else and no check is under way, so     *)
(* none can begin; whatever removes the marker is the operator's.               *)
LEMMA StopStep == Typed /\ StopKept /\ [Next]_vars => StopKept'
<1> SUFFICES ASSUME Typed, StopKept, [Next]_vars PROVE StopKept'
  OBVIOUS
<1>p. pc \in [Processes -> Labels] /\ "wd" \in Processes /\ "op" \in Processes
  BY DEF Processes, Typed
<1> USE DEF files, nodes, ghost, bounds, Goto, StopKept, NoCheck
<1>1. CASE UNCHANGED vars
  BY <1>1 DEF vars
<1>2. CASE HeadExits \/ HeadHangs \/ BootCompletes
  BY <1>2 DEF HeadExits, HeadHangs, HeadGone, BootCompletes, MayJoin
<1>3. CASE Tick
  BY <1>3, <1>p DEF Tick
<1>4. CASE Probe \/ JudgeHealthy \/ JudgeInGrace \/ JudgeFailed \/ BeginRestart
  BY <1>4, <1>p DEF Probe, JudgeHealthy, KeepsRestart, JudgeInGrace, JudgeFailed, BeginRestart
<1>5. CASE DownWorker \/ DownHead
  BY <1>5, <1>p DEF DownWorker, DownHead
<1>6. CASE StartScript("wd")
  BY <1>6, <1>p DEF StartScript, RemoveMarker, UpWorker, UpWorkerFails, UpHead, WaitReady
<1>7. CASE StartScript("op")
  BY <1>7, <1>p DEF StartScript, RemoveMarker, UpWorker, UpWorkerFails, UpHead, WaitReady
<1>8. CASE \E c \in Commands : Command(c)
  <2>1. PICK c \in Commands : Command(c)
    BY <1>8
  <2>2. FirstStep[c] \in {"arm", "touch", "enable", "disable"}
    BY ConstantFacts DEF FirstStep
  <2>3. c \notin {"start", "stop"} => FirstStep[c] \in {"enable", "disable"}
    BY ConstantFacts DEF FirstStep
  <2>4. QED
    BY <2>1, <2>2, <2>3, <1>p DEF Command
<1>9. CASE TouchMarker
  BY <1>9, <1>p DEF TouchMarker, SetMarker
<1>10. CASE StopWorker \/ StopWorkerFails \/ StopHead
  BY <1>10, <1>p DEF StopWorker, StopWorkerFails, StopHead, HeadGone
<1>11. CASE Enable \/ Disable
  BY <1>11, <1>p DEF Enable, Disable
<1>12. QED
  BY <1>1, <1>2, <1>3, <1>4, <1>5, <1>6, <1>7, <1>8, <1>9, <1>10, <1>11
     DEF Next, Check, Operator

-----------------------------------------------------------------------------
(* The inductive invariant holds of every execution of the scripts.             *)
THEOREM WatchdogInvariant == Spec => []WatchdogInv
<1>1. WatchdogInv /\ [Next]_vars => WatchdogInv'
  BY TypeStep, RemembersStep, BootedStep, StopStep DEF WatchdogInv
<1>2. QED
  BY <1>1, InitHolds, PTL DEF Spec

(* The scripts' state, and the follower that ends with its container, have their  *)
(* types.                                                                    *)
THEOREM TypeCorrect == Spec => []TypeOK
<1>1. WatchdogInv => TypeOK
  BY DEF WatchdogInv, Typed, Flags, TypeOK, Processes
<1>2. QED
  BY <1>1, WatchdogInvariant, PTL

(* A stop that did not begin during a check is never undone by the watchdog,      *)
(* whatever crashes, hangs, fails over ssh or was counted before.               *)
THEOREM QuietStopAlwaysHolds == Spec => []QuietStopHolds
<1>1. WatchdogInv => QuietStopHolds
  BY DEF WatchdogInv, StopKept, QuietStopHolds
<1>2. QED
  BY <1>1, WatchdogInvariant, PTL

(* Only a check that fails begins a restart.                                   *)
LEMMA RestartBegins ==
  ASSUME Typed, [Next]_vars, pc["wd"] = "judge", pc'["wd"] = "downWorker"
  PROVE  BeginRestart
<1>p. pc \in [Processes -> Labels] /\ "wd" \in Processes /\ "op" \in Processes
  BY DEF Processes, Typed
<1> USE <1>p DEF Goto
<1>1. ~(UNCHANGED vars) /\ ~HeadExits /\ ~HeadHangs /\ ~BootCompletes /\ ~Tick
  BY DEF vars, HeadExits, HeadHangs, BootCompletes, Tick
<1>2. /\ ~Probe /\ ~JudgeHealthy /\ ~JudgeInGrace /\ ~JudgeFailed
      /\ ~DownWorker /\ ~DownHead /\ ~StartScript("wd")
  BY DEF Probe, JudgeHealthy, JudgeInGrace, JudgeFailed, DownWorker, DownHead,
         StartScript, RemoveMarker, UpWorker, UpWorkerFails, UpHead, WaitReady
<1>3. ~Operator
  BY DEF Operator, Command, TouchMarker, StopWorker, StopWorkerFails, StopHead, Enable, Disable,
         StartScript, RemoveMarker, UpWorker, UpWorkerFails, UpHead, WaitReady
<1>4. QED
  BY <1>1, <1>2, <1>3 DEF Next, Check

(* Automatic restarts are a cooldown apart, for every cooldown, grace and number   *)
(* of failures: nothing that clears the failures clears the time of the restart.   *)
THEOREM RestartsAlwaysSpaced == Spec => RestartsAreSpaced
<1>1. WatchdogInv /\ [Next]_vars
        => [pc["wd"] = "judge" /\ pc'["wd"] = "downWorker" => sinceAuto >= Cooldown]_vars
  BY RestartBegins DEF WatchdogInv, FileRemembers, BeginRestart, RestartDue
<1>2. QED
  BY <1>1, WatchdogInvariant, PTL DEF Spec, RestartsAreSpaced

(* No check takes down a head that serves, if a boot ends before the grace does:   *)
(* a boot that took all of the grace could end between a probe and its judgement.  *)
THEOREM ServingHeadNeverRestarted ==
  ASSUME BootTicks < Grace
  PROVE  Spec => RestartsOnlyTheFailed
<1>1. WatchdogInv /\ [Next]_vars
        => [pc["wd"] = "judge" /\ pc'["wd"] = "downWorker" => head # "serving"]_vars
  <2> SUFFICES ASSUME WatchdogInv, [Next]_vars, pc["wd"] = "judge", pc'["wd"] = "downWorker",
                      head = "serving"
               PROVE  FALSE
    OBVIOUS
  <2>1. BeginRestart
    BY RestartBegins DEF WatchdogInv
  <2>2. ~healthy /\ sinceStart >= Grace
    BY <2>1, ConstantFacts DEF BeginRestart, InGrace, WatchdogInv, Typed
  <2>3. sinceStart <= BootTicks
    BY <2>2 DEF WatchdogInv, JustBooted
  <2>4. QED
    BY <2>2, <2>3, ConstantFacts DEF WatchdogInv, Typed
<1>2. QED
  BY <1>1, WatchdogInvariant, PTL DEF Spec, RestartsOnlyTheFailed
=============================================================================
