----------------------------- MODULE DesktopNode -----------------------------
(***************************************************************************)
(* The desktop app as controller of one local node (desktop/src/main.js,   *)
(* supervisor.js, backgroundNodeManager.js, cliManager.js), on a system    *)
(* where systemd manages the background node.  The app is one event loop:  *)
(* a call runs without interruption up to its next await, and what it      *)
(* awaits (a command, a child, a health check) happens in between, while   *)
(* other calls run.  A step is one such piece of a call, or one event of a *)
(* process.  Windows, logs and displayed state are left out.               *)
(***************************************************************************)
EXTENDS Naturals, Sequences, FiniteSets

CONSTANTS
    MaxAtOnce,    \* bound: calls in progress at once
    OverlapOnce,  \* bound: does a call begin beside another only once, after the last upgrade
    MaxStarts,    \* bound: supervisors created
    MaxCalls,     \* bound: calls begun
    MaxFaults,    \* bound: failed commands, dead processes, app crashes
    MaxVersion,   \* bound: bundled runtime versions
    MaxSessions   \* bound: launches of the app

DesktopAssumption ==
    /\ MaxAtOnce \in Nat /\ MaxStarts \in Nat /\ MaxCalls \in Nat /\ MaxFaults \in Nat
    /\ MaxVersion \in Nat \ {0} /\ MaxSessions \in Nat /\ OverlapOnce \in BOOLEAN
ASSUME DesktopAssumption

VARIABLES
    app,        \* is the app running, which version it bundles, its timer, is it quitting
    settings,   \* desktop-settings.json
    runtime,    \* the stable runtime's file and runtime.json: versions, 0 is absent
    shims,      \* are the CLI wrappers there
    unit,       \* the systemd user service: registered, and active
    osNode,     \* the process of the service
    current,    \* the global supervisor, 0 is none
    sup,        \* each supervisor: its status, and whether it holds a child
    init, node, \* the two processes each supervisor spawns
    calls,      \* calls in progress
    mine,       \* history: supervisors of this session
    late,       \* history: those that spawned their node after before-quit
    leftover,   \* history: what a removal that failed or was cut short left: the CLI in the
                \* settings ("cli"), the unit in place ("unit")
    overlapped, \* history: two calls were in progress at once
    excused,    \* history: why the service may be down: the user stopped it, a command
                \* failed, enabling was cut short, a leaving node was taken for one that stays
    begun, faults, sessions

files == <<settings, runtime, shims>>
service == <<unit, osNode>>
children == <<current, sup, init, node>>
history == <<mine, late, leftover, overlapped, excused>>
counts == <<begun, faults, sessions>>
vars == <<app, files, service, children, calls, history, counts>>

Slots == 1..MaxAtOnce
Supervisors == 1..MaxStarts
Live == {"starting", "serving"}

(* Something answers on the port: a terminated node does until it exits.   *)
Reachable == osNode = "serving" \/ \E i \in Supervisors : node[i] \in {"serving", "stopping"}

Serving == osNode = "serving" \/ \E i \in Supervisors : node[i] = "serving"
LooksServed == excused' = (excused \/ (Reachable /\ ~Serving))

Defaults == [background |-> FALSE, cli |-> FALSE]
NoCall == [op |-> "none", todo |-> <<>>, snap |-> Defaults, sup |-> 0]
Free == {c \in Slots : calls[c].op = "none"}
FreeSlot == IF Free = {} THEN 0 ELSE CHOOSE c \in Free : \A o \in Free : c <= o
Idle == Free = Slots

Init ==
    /\ app = [on |-> FALSE, bundled |-> 1, timer |-> "none", quitting |-> "no"]
    /\ settings = Defaults
    /\ runtime = [file |-> 0, metadata |-> 0]
    /\ shims = FALSE
    /\ unit = [registered |-> FALSE, active |-> FALSE]
    /\ osNode = "none"
    /\ current = 0
    /\ sup = [i \in Supervisors |-> [status |-> "stopped", child |-> FALSE]]
    /\ init = [i \in Supervisors |-> "none"]
    /\ node = [i \in Supervisors |-> "none"]
    /\ calls = [c \in Slots |-> NoCall]
    /\ mine = {} /\ late = {} /\ leftover = {}
    /\ overlapped = FALSE /\ excused = FALSE
    /\ begun = 0 /\ faults = 0 /\ sessions = 0

-----------------------------------------------------------------------------
(* Pieces of calls. *)

At(c, step) == calls[c].todo # <<>> /\ Head(calls[c].todo) = step
Rest(c) == Tail(calls[c].todo)

(* A call whose steps are used up has returned.                            *)
Continue(c, todo) ==
    calls' = [calls EXCEPT ![c] = IF todo = <<>> THEN NoCall ELSE [@ EXCEPT !.todo = todo]]
Return(c) == Continue(c, <<>>)

Hold(c, todo, snap) ==
    calls' = [calls EXCEPT ![c] = IF todo = <<>> THEN NoCall
                                  ELSE [@ EXCEPT !.todo = todo, !.snap = snap]]

Fault == faults < MaxFaults /\ faults' = faults + 1

(* copyOrUpdateRuntime without force: nothing to do when file and metadata *)
(* are those of the bundled version.                                       *)
UpToDate == runtime.file # 0 /\ runtime.metadata = app.bundled
Installed == [file |-> app.bundled, metadata |-> app.bundled]
CopyOrUpdate == runtime' = IF UpToDate THEN runtime ELSE Installed

(* createShims: an uninstall that was cut short is made up for.            *)
WriteShims == shims' = TRUE /\ leftover' = leftover \ {"cli"}

(* NodeSupervisor.stop on the global supervisor, unless the settings ask   *)
(* for a node that outlives the app: its child is sent SIGTERM.            *)
Terminate(n, i) == IF i # 0 /\ sup[i].child /\ n[i] \in Live THEN [n EXCEPT ![i] = "stopping"] ELSE n
StopTemporary ==
    IF settings.background THEN UNCHANGED <<sup, node>>
    ELSE /\ node' = Terminate(node, current)
         /\ sup' = IF current = 0 THEN sup
                   ELSE [sup EXCEPT ![current] = [status |-> "stopped", child |-> FALSE]]

(* Mutant: the service is not started again. *)
UpdateStepsOnly(inUse, restart) ==
    IF ~inUse \/ UpToDate THEN <<>>
    ELSE IF restart THEN <<"stopUnit", "copy", "runInit">> ELSE <<"copy", "runInit">>

(* The steps of a check: nothing is installed unless the stable runtime is *)
(* in use, and only a service is stopped and started again.                *)
UpdateSteps(inUse, restart) ==
    IF ~inUse \/ UpToDate THEN <<>>
    ELSE IF restart THEN <<"stopUnit", "copy", "runInit", "startUnit">>
    ELSE <<"copy", "runInit">>

-----------------------------------------------------------------------------
(* The app's calls.  Each has a first piece, named like the call.          *)

Unused ==
    {i \in Supervisors : /\ node[i] = "none" /\ init[i] = "none" /\ i # current
                         /\ \A c \in Slots : calls[c].sup # i}

UserCalls == {"start", "stop", "restart", "enable", "disable", "update", "remove",
              "repair", "uninstallCli", "cliStatus"}

Begin(c, op) ==
    /\ begun < MaxCalls
    /\ app.on /\ (op = "tick" => app.timer # "none")
    /\ c = FreeSlot
    /\ OverlapOnce => Idle \/ (~overlapped /\ app.bundled = MaxVersion)
    /\ Cardinality(Unused) >= Cardinality(Slots)
    /\ calls' = [calls EXCEPT ![c] = [NoCall EXCEPT !.op = op, !.todo = <<op>>]]
    /\ overlapped' = (overlapped \/ ~Idle)
    /\ begun' = begun + 1
    /\ UNCHANGED <<app, files, service, children, mine, late, leftover, excused, faults, sessions>>

(* bootstrap: install runtime and wrappers, see that a node runs, check    *)
(* for an update, set the timer.                                           *)
Bootstrap(c) ==
    /\ At(c, "bootstrap")
    /\ CopyOrUpdate /\ WriteShims
    /\ Hold(c, <<"saveCli", "reconcile", "update", "schedule">>, settings)
    /\ UNCHANGED <<app, settings, service, children, mine, late, overlapped, excused, counts>>

Reconcile(c) ==
    /\ At(c, "reconcile") /\ LooksServed
    /\ Continue(c, IF Reachable THEN Rest(c)
                   ELSE IF calls[c].snap.background THEN <<"askService">> \o Rest(c)
                   ELSE <<"health">> \o Rest(c))
    /\ UNCHANGED <<app, files, service, children, mine, late, leftover, overlapped, counts>>

Schedule(c) ==
    /\ At(c, "schedule")
    /\ app' = [app EXCEPT !.timer = "set"]
    /\ Continue(c, Rest(c))
    /\ UNCHANGED <<files, service, children, history, counts>>

(* Mutant: a start does not ask whether the supervised node is running. *)
StartAnyway(c) ==
    /\ At(c, "start")
    /\ Continue(c, IF settings.background THEN <<"askService">> ELSE <<"health">>)
    /\ UNCHANGED <<app, files, service, children, history, counts>>

Start(c) ==
    /\ At(c, "start")
    /\ Continue(c, IF settings.background THEN <<"askService">>
                   ELSE IF current = 0 \/ sup[current].status # "running" THEN <<"health">>
                   ELSE <<>>)
    /\ UNCHANGED <<app, files, service, children, history, counts>>

Stop(c) ==
    /\ At(c, "stop")
    /\ StopTemporary
    /\ Continue(c, IF settings.background THEN <<"stopUnit">> ELSE <<>>)
    /\ excused' = (excused \/ settings.background)
    /\ UNCHANGED <<app, files, service, current, init, mine, late, leftover, overlapped, counts>>

Restart(c) ==
    /\ At(c, "restart")
    /\ StopTemporary
    /\ Continue(c, IF settings.background THEN <<"stopUnit", "startUnit", "api">>
                   ELSE <<"health">>)
    /\ UNCHANGED <<app, files, service, current, init, history, counts>>

(* startTemporaryNode: unless a node answers, a new supervisor takes the   *)
(* place of the old one and spawns init.                                   *)
Spawn(c) ==
    /\ At(c, "health")
    /\ IF Reachable
       THEN Continue(c, Rest(c)) /\ UNCHANGED <<current, sup, init, mine>>
       ELSE \E i \in Unused :
              /\ \A o \in Unused : i <= o
              /\ current' = i
              /\ sup' = [sup EXCEPT ![i] = [status |-> "starting", child |-> FALSE]]
              /\ init' = [init EXCEPT ![i] = "running"]
              /\ mine' = mine \cup {i}
              /\ calls' = [calls EXCEPT ![c].todo = <<"init", "api">> \o Rest(c), ![c].sup = i]
    /\ UNCHANGED <<app, files, service, node, late, leftover, overlapped, excused, counts>>

(* init has exited: the node is spawned, or the call ends with an error.   *)
Supervise(c) ==
    /\ At(c, "init")
    /\ LET i == calls[c].sup IN
       /\ init[i] \in {"succeeded", "failed"}
       /\ init' = [init EXCEPT ![i] = "none"]
       /\ IF init[i] = "succeeded"
          THEN /\ node' = [node EXCEPT ![i] = "starting"]
               /\ sup' = [sup EXCEPT ![i] = [status |-> "running", child |-> TRUE]]
               /\ late' = IF app.quitting = "no" THEN late ELSE late \cup {i}
               /\ Continue(c, Rest(c))
          ELSE /\ sup' = [sup EXCEPT ![i].status = "error"]
               /\ Return(c) /\ UNCHANGED <<node, late>>
    /\ UNCHANGED <<app, files, service, current, mine, leftover, overlapped, excused, counts>>

AskService(c) ==
    /\ At(c, "askService") /\ LooksServed
    /\ Continue(c, IF Reachable THEN Rest(c) ELSE <<"startUnit", "api">> \o Rest(c))
    /\ UNCHANGED <<app, files, service, children, mine, late, leftover, overlapped, counts>>

(* waitForApi: until the API answers, or no longer.                        *)
Api(c) ==
    /\ At(c, "api")
    /\ IF Reachable THEN Continue(c, Rest(c)) ELSE Return(c)
    /\ UNCHANGED <<app, files, service, children, history, counts>>

(* The settings are those read at the start of the call, whatever was      *)
(* written since.  The wrappers are written again if they are in use.      *)
SaveUpdate(c, snap, rest) ==
    /\ settings' = snap
    /\ shims' = (shims \/ snap.cli)
    /\ Hold(c, IF snap.cli THEN <<"saveCli">> \o rest ELSE rest, snap)

Update(c) ==
    /\ At(c, "update")
    /\ LET todo == UpdateSteps(settings.background \/ settings.cli,
                       settings.background /\
                           (calls[c].op = "bootstrap" => calls[c].snap.background))
       IN IF todo = <<>> THEN SaveUpdate(c, settings, Rest(c))
          ELSE Hold(c, todo \o <<"saveUpdate">> \o Rest(c), settings) /\ UNCHANGED <<settings, shims>>
    /\ UNCHANGED <<app, runtime, service, children, history, counts>>

UpdateApplied(c) ==
    /\ At(c, "saveUpdate")
    /\ SaveUpdate(c, calls[c].snap, Rest(c))
    /\ UNCHANGED <<app, runtime, service, children, history, counts>>

(* The timer's check reads the settings again before it writes them.       *)
TickDone(c) ==
    /\ shims' = (shims \/ settings.cli)
    /\ Continue(c, IF settings.cli THEN <<"tickCli">> ELSE <<>>)

Tick(c) ==
    /\ At(c, "tick")
    /\ LET todo == UpdateSteps(settings.background \/ settings.cli, settings.background)
       IN IF todo = <<>> THEN TickDone(c)
          ELSE Continue(c, todo \o <<"tickDone">>) /\ UNCHANGED shims
    /\ UNCHANGED <<app, settings, runtime, service, children, history, counts>>

TickApplied(c) ==
    /\ At(c, "tickDone")
    /\ TickDone(c)
    /\ UNCHANGED <<app, settings, runtime, service, children, history, counts>>

SaveTickCli(c) ==
    /\ At(c, "tickCli")
    /\ settings' = [settings EXCEPT !.cli = TRUE]
    /\ Return(c)
    /\ UNCHANGED <<app, runtime, shims, service, children, history, counts>>

(* Enabling writes the settings first, disabling last.  A manager of its   *)
(* own takes the place of the one that holds the timer.                    *)
Enable(c) ==
    /\ At(c, "enable")
    /\ app' = [app EXCEPT !.timer = IF @ = "set" THEN "lost" ELSE @]
    /\ settings' = [settings EXCEPT !.background = TRUE]
    /\ CopyOrUpdate
    /\ Hold(c, <<"runInit", "register", "startUnit", "saveEnabled", "saveCli", "api">>, settings')
    /\ UNCHANGED <<shims, service, children, history, counts>>

SaveEnabled(c) ==
    /\ At(c, "saveEnabled")
    /\ settings' = calls[c].snap
    /\ WriteShims
    /\ Continue(c, Rest(c))
    /\ UNCHANGED <<app, runtime, service, children, mine, late, overlapped, excused, counts>>

(* Mutant: disabling writes the settings first. *)
DisableFirst(c) ==
    /\ At(c, "disable")
    /\ Continue(c, <<"saveDisabled", "stopUnit", "unregister">>)
    /\ UNCHANGED <<app, files, service, children, history, counts>>

Disable(c) ==
    /\ At(c, "disable")
    /\ Continue(c, <<"stopUnit", "unregister", "saveDisabled">>)
    /\ UNCHANGED <<app, files, service, children, history, counts>>

SaveDisabled(c) ==
    /\ At(c, "saveDisabled")
    /\ settings' = [settings EXCEPT !.background = FALSE]
    /\ Continue(c, Rest(c))
    /\ UNCHANGED <<app, runtime, shims, service, children, history, counts>>

Remove(c) ==
    /\ At(c, "remove")
    /\ StopTemporary
    /\ Continue(c, IF settings.background THEN <<"stopUnit", "unregister", "saveDisabled", "wipe">>
                   ELSE <<"wipe">>)
    /\ UNCHANGED <<app, files, service, current, init, history, counts>>

(* The data directory holds settings, runtime and metadata.                *)
Wipe(c) ==
    /\ At(c, "wipe")
    /\ settings' = Defaults
    /\ runtime' = [file |-> 0, metadata |-> 0]
    /\ Return(c)
    /\ UNCHANGED <<app, shims, service, children, history, counts>>

Repair(c) ==
    /\ At(c, "repair")
    /\ CopyOrUpdate /\ WriteShims
    /\ Hold(c, <<"saveCli">>, settings)
    /\ UNCHANGED <<app, settings, service, children, mine, late, overlapped, excused, counts>>

SaveCli(c) ==
    /\ At(c, "saveCli")
    /\ settings' = [calls[c].snap EXCEPT !.cli = TRUE]
    /\ Hold(c, Rest(c), settings')
    /\ UNCHANGED <<app, runtime, shims, service, children, history, counts>>

(* The wrappers go before the settings are saved; no other call comes in   *)
(* between, but a removal or a write that fails does, or the app's death.  *)
UninstallCli(c) ==
    /\ At(c, "uninstallCli")
    /\ \/ /\ shims' = FALSE /\ settings' = [settings EXCEPT !.cli = FALSE]
          /\ UNCHANGED <<leftover, faults>>
       \/ /\ Fault /\ shims' \in {FALSE, shims} /\ UNCHANGED settings
          /\ leftover' = leftover \cup {"cli"}
    /\ Return(c)
    /\ UNCHANGED <<app, runtime, service, children, mine, late, overlapped, excused, begun, sessions>>

CliStatus(c) ==
    /\ At(c, "cliStatus")
    /\ Hold(c, <<"saveStatus">>, settings)
    /\ UNCHANGED <<app, files, service, children, history, counts>>

SaveStatus(c) ==
    /\ At(c, "saveStatus")
    /\ settings' = [calls[c].snap EXCEPT !.cli = shims]
    /\ Return(c)
    /\ UNCHANGED <<app, runtime, shims, service, children, history, counts>>

(* An update installs the bundled runtime, whatever is there.              *)
Copy(c) ==
    /\ At(c, "copy")
    /\ runtime' = Installed
    /\ Continue(c, Rest(c))
    /\ UNCHANGED <<app, settings, shims, service, children, history, counts>>

-----------------------------------------------------------------------------
(* Commands the app waits for.  One that fails ends its call, except where *)
(* errors are ignored.                                                     *)

RunInit(c) ==
    /\ At(c, "runInit")
    /\ \/ runtime.file # 0 /\ Continue(c, Rest(c)) /\ UNCHANGED <<excused, faults>>
       \/ runtime.file = 0 /\ Return(c) /\ excused' = TRUE /\ UNCHANGED faults
       \/ Fault /\ Return(c) /\ excused' = TRUE
    /\ UNCHANGED <<app, files, service, children, mine, late, leftover, overlapped, begun, sessions>>

(* enableStartAtLogin: the unit's file is written before it is enabled.    *)
Register(c) ==
    /\ At(c, "register")
    /\ unit' = [unit EXCEPT !.registered = TRUE]
    /\ \/ Continue(c, Rest(c)) /\ UNCHANGED <<excused, faults>>
       \/ Fault /\ Return(c) /\ excused' = TRUE
    /\ UNCHANGED <<app, files, osNode, children, mine, late, leftover, overlapped, begun, sessions>>

StartUnit(c) ==
    /\ At(c, "startUnit")
    /\ \/ /\ unit.registered
          /\ unit' = [unit EXCEPT !.active = TRUE] /\ excused' = FALSE
          /\ Continue(c, Rest(c)) /\ UNCHANGED faults
       \/ /\ ~unit.registered
          /\ Return(c) /\ excused' = TRUE /\ UNCHANGED <<unit, faults>>
       \/ Fault /\ Return(c) /\ excused' = TRUE /\ UNCHANGED unit
    /\ UNCHANGED <<app, files, osNode, children, mine, late, leftover, overlapped, begun, sessions>>

StopUnit(c) ==
    /\ At(c, "stopUnit")
    /\ \/ unit' = [unit EXCEPT !.active = FALSE] /\ osNode' = "none" /\ UNCHANGED <<excused, faults>>
       \/ Fault /\ excused' = TRUE /\ UNCHANGED <<unit, osNode>>
    /\ Continue(c, Rest(c))
    /\ UNCHANGED <<app, files, children, mine, late, leftover, overlapped, begun, sessions>>

(* disableStartAtLogin: stop, disable, remove the unit's file, each error  *)
(* ignored.                                                                *)
Unregister(c) ==
    /\ At(c, "unregister")
    /\ \/ /\ unit' = [registered |-> FALSE, active |-> FALSE] /\ osNode' = "none"
          /\ leftover' = leftover \ {"unit"} /\ UNCHANGED <<excused, faults>>
       \/ /\ Fault /\ excused' = TRUE
          /\ \E kept \in {FALSE, unit.registered}, runs \in {FALSE, unit.active} :
                /\ unit' = [registered |-> kept, active |-> runs]
                /\ osNode' = IF runs THEN osNode ELSE "none"
                /\ leftover' = IF kept THEN leftover \cup {"unit"} ELSE leftover \ {"unit"}
    /\ Continue(c, Rest(c))
    /\ UNCHANGED <<app, files, children, mine, late, overlapped, begun, sessions>>

-----------------------------------------------------------------------------
(* Processes. *)

InitExits(i) ==
    /\ init[i] = "running"
    /\ \/ init' = [init EXCEPT ![i] = "succeeded"] /\ UNCHANGED faults
       \/ Fault /\ init' = [init EXCEPT ![i] = "failed"]
    /\ UNCHANGED <<app, files, service, current, sup, node, calls, history, begun, sessions>>

ChildExits(i, status) ==
    /\ node' = [node EXCEPT ![i] = "none"]
    /\ sup' = IF sup[i].child THEN [sup EXCEPT ![i].status = status] ELSE sup

BackgroundMode == settings.background
ControlBackground == [unit EXCEPT !.active = @ \/ (BackgroundMode /\ unit.registered)]

(* node start: in background mode it only asks the service manager, and it *)
(* leaves a port alone on which a node answers.                            *)
NodeStarts(i) ==
    /\ node[i] = "starting"
    /\ IF BackgroundMode \/ Reachable THEN ChildExits(i, "stopped")
       ELSE node' = [node EXCEPT ![i] = "serving"] /\ UNCHANGED sup
    /\ unit' = ControlBackground
    /\ UNCHANGED <<app, files, osNode, current, init, calls, history, counts>>

NodeExits(i) ==
    /\ node[i] = "stopping"
    /\ ChildExits(i, "stopped")
    /\ UNCHANGED <<app, files, service, current, init, calls, history, counts>>

NodeDies(i) ==
    /\ node[i] \in Live
    /\ Fault
    /\ ChildExits(i, "error")
    /\ excused' = TRUE
    /\ UNCHANGED <<app, files, service, current, init, calls, mine, late, leftover, overlapped, begun, sessions>>

(* The service manager runs node start again whenever it has exited.       *)
ServiceRuns ==
    /\ unit.active /\ osNode = "none" /\ runtime.file # 0
    /\ osNode' = "starting"
    /\ UNCHANGED <<app, files, unit, children, calls, history, counts>>

ServiceStarts ==
    /\ osNode = "starting"
    /\ osNode' = IF BackgroundMode \/ Reachable THEN "none" ELSE "serving"
    /\ UNCHANGED <<app, files, unit, children, calls, history, counts>>

-----------------------------------------------------------------------------
(* Sessions. *)

Launch(c) ==
    /\ ~app.on /\ c = FreeSlot /\ sessions < MaxSessions
    /\ Cardinality(Unused) >= Cardinality(Slots)
    /\ app' = [app EXCEPT !.on = TRUE]
    /\ calls' = [calls EXCEPT ![c] = [NoCall EXCEPT !.op = "bootstrap", !.todo = <<"bootstrap">>]]
    /\ sessions' = sessions + 1
    /\ UNCHANGED <<files, service, children, history, begun, faults>>

(* The app's files are replaced, and the bundled runtime with them; a      *)
(* check reads it anew each time, so the app may be running.               *)
Upgrade ==
    /\ app.bundled < MaxVersion
    /\ app' = [app EXCEPT !.bundled = @ + 1]
    /\ UNCHANGED <<files, service, children, calls, history, counts>>

Forget ==
    /\ app' = [app EXCEPT !.on = FALSE, !.timer = "none", !.quitting = "no"]
    /\ calls' = [c \in Slots |-> NoCall]
    /\ current' = 0 /\ mine' = {} /\ late' = {}
    /\ init' = [i \in Supervisors |-> "none"]
    /\ sup' = [i \in Supervisors |-> [status |-> "stopped", child |-> FALSE]]

CutShort == excused' = (excused \/ \E c \in Slots : calls[c].op = "enable")

Quitting == [app EXCEPT !.quitting = IF settings.background THEN "background" ELSE "temporary",
                        !.timer = IF @ = "set" /\ ~settings.background THEN "none" ELSE @]

(* Mutant: quitting leaves the temporary node. *)
QuitAlone ==
    /\ app.on /\ app.quitting = "no"
    /\ app' = Quitting
    /\ UNCHANGED <<files, service, children, calls, history, counts>>

(* before-quit: the temporary node is stopped.  Windows are still to be    *)
(* closed, and calls go on.                                                *)
Quit ==
    /\ app.on /\ app.quitting = "no"
    /\ app' = Quitting
    /\ StopTemporary
    /\ UNCHANGED <<files, service, current, init, calls, history, counts>>

(* The windows are closed and the process ends: before-quit has begun the  *)
(* shutdown, so nothing is stopped again, and calls in progress are lost.  *)
Exit ==
    /\ app.on /\ app.quitting # "no"
    /\ Forget /\ CutShort
    /\ UNCHANGED <<files, service, node, leftover, overlapped, counts>>

Crash ==
    /\ app.on
    /\ Fault
    /\ Forget /\ CutShort
    /\ UNCHANGED <<files, service, node, leftover, overlapped, begun, sessions>>

(* Mutant: the metadata is written first. *)
CrashInCopyMetadataFirst(c) ==
    /\ \E step \in {"bootstrap", "repair", "enable", "copy"} : At(c, step)
    /\ At(c, "copy") \/ ~UpToDate
    /\ Fault
    /\ runtime' = [runtime EXCEPT !.metadata = app.bundled]
    /\ settings' = IF At(c, "enable") THEN [settings EXCEPT !.background = TRUE] ELSE settings
    /\ Forget /\ CutShort
    /\ UNCHANGED <<shims, service, node, leftover, overlapped, begun, sessions>>

(* The app dies while it installs the runtime: the file is in place, its   *)
(* metadata is not.                                                        *)
CrashInCopy(c) ==
    /\ \E step \in {"bootstrap", "repair", "enable", "copy"} : At(c, step)
    /\ At(c, "copy") \/ ~UpToDate
    /\ Fault
    /\ runtime' = [runtime EXCEPT !.file = app.bundled]
    /\ settings' = IF At(c, "enable") THEN [settings EXCEPT !.background = TRUE] ELSE settings
    /\ Forget /\ CutShort
    /\ UNCHANGED <<shims, service, node, leftover, overlapped, begun, sessions>>

(* It dies while it uninstalls the CLI: the wrappers are gone, the         *)
(* settings are not saved.                                                 *)
CrashInUninstall(c) ==
    /\ At(c, "uninstallCli")
    /\ Fault
    /\ shims' = FALSE /\ leftover' = leftover \cup {"cli"}
    /\ Forget /\ CutShort
    /\ UNCHANGED <<settings, runtime, service, node, overlapped, begun, sessions>>

Piece(c) ==
    \/ Bootstrap(c) \/ Reconcile(c) \/ Schedule(c) \/ Start(c) \/ Stop(c) \/ Restart(c)
    \/ Spawn(c) \/ Supervise(c) \/ AskService(c) \/ Api(c)
    \/ Update(c) \/ UpdateApplied(c) \/ Tick(c) \/ TickApplied(c) \/ SaveTickCli(c)
    \/ Enable(c) \/ SaveEnabled(c) \/ Disable(c) \/ SaveDisabled(c) \/ Remove(c) \/ Wipe(c)
    \/ Repair(c) \/ SaveCli(c) \/ UninstallCli(c) \/ CliStatus(c) \/ SaveStatus(c) \/ Copy(c)
    \/ RunInit(c) \/ Register(c) \/ StartUnit(c) \/ StopUnit(c) \/ Unregister(c)

Process(i) == InitExits(i) \/ NodeStarts(i) \/ NodeExits(i)
Service == ServiceRuns \/ ServiceStarts

Next ==
    \/ \E c \in Slots : Piece(c) \/ Launch(c) \/ CrashInCopy(c) \/ CrashInUninstall(c)
                        \/ \E op \in UserCalls \cup {"tick"} : Begin(c, op)
    \/ \E i \in Supervisors : Process(i) \/ NodeDies(i)
    \/ Service \/ Upgrade \/ Quit \/ Exit \/ Crash

Spec == Init /\ [][Next]_vars
FairSpec ==
    /\ Spec
    /\ \A c \in Slots : WF_vars(Piece(c))
    /\ \A i \in Supervisors : WF_vars(Process(i))
    /\ WF_vars(Service)
=============================================================================
