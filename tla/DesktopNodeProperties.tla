------------------------ MODULE DesktopNodeProperties ------------------------
(* What DesktopNode is checked for. *)
EXTENDS DesktopNode

(* The metadata never claims a version that is not installed, wherever the *)
(* app died: what an update check takes for current is current.            *)
CurrentIsInstalled == runtime.metadata = app.bundled => runtime.file = app.bundled

(* Calls made one at a time keep one supervised node: of the nodes spawned *)
(* since the app was launched at most one has not been told to stop.       *)
OneSupervisedNode ==
    ~overlapped => \A i, o \in mine : node[i] \in Live /\ node[o] \in Live => i = o

(* A quit stops the temporary node wherever the calls in progress are:     *)
(* when the app has exited no node of this session is left running, except *)
(* one that a call spawned after before-quit, if no calls overlapped.      *)
QuitStopsChild ==
    [][/\ app.quitting = "temporary" /\ ~app'.on /\ ~overlapped
       => \A i \in mine : node'[i] \in Live => i \in late]_vars

(* In background mode every call leaves the service active, and so does a  *)
(* relaunch after an app that died in the middle of an update, unless one  *)
(* of the excuses holds or calls overlapped.                               *)
ServiceStaysActive ==
    app.on /\ Idle /\ settings.background /\ ~overlapped /\ ~excused
        => unit.active \/ Reachable

(* Settings tell the truth when nothing is in progress: the CLI they claim *)
(* has its wrappers, and a background mode they deny is not registered,    *)
(* except where an uninstall was cut short and no launch has made up for   *)
(* it, or the removal of the unit failed and none succeeded since.         *)
SettingsAreTrue ==
    Idle /\ ~overlapped =>
        /\ settings.cli => shims \/ "cli" \in leftover
        /\ ~settings.background => ~unit.registered \/ "unit" \in leftover

(* The registered and started service comes to serve, unless another node  *)
(* does or it is stopped.                                                  *)
ServiceServes == unit.active ~> (Reachable \/ ~unit.active)
=============================================================================
