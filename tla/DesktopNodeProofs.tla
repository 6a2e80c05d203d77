-------------------------- MODULE DesktopNodeProofs --------------------------
(***************************************************************************)
(* Proofs about DesktopNode, for every number of calls, supervisors,       *)
(* versions, faults and sessions.                                          *)
(*                                                                         *)
(* A call is the sequence of steps it has left.  What it may still do is   *)
(* argued from the set of these steps (Ahead) and from the order the code  *)
(* takes them in (Later), never from the sequence itself.                  *)
(***************************************************************************)
EXTENDS DesktopNodeProperties, WellFoundedInduction, TLAPS

USE DesktopAssumption DEF DesktopAssumption

Settings == [background : BOOLEAN, cli : BOOLEAN]

StepNames == UserCalls \cup
    {"bootstrap", "saveCli", "reconcile", "schedule", "askService", "health", "init", "api",
     "startUnit", "stopUnit", "copy", "runInit", "saveUpdate", "tick", "tickDone", "tickCli",
     "register", "saveEnabled", "unregister", "saveDisabled", "wipe", "saveStatus"}

(* The steps that may come after a step in what is left of a call.         *)
Later(step) ==
    CASE step \in {"reconcile", "askService", "health", "api"} -> {"update", "schedule"}
      [] step \in {"update", "saveUpdate"} -> {"schedule"}
      [] step = "init" -> {"api", "update", "schedule"}
      [] step = "saveCli" -> {"reconcile", "update", "schedule", "api"}
      [] step = "startUnit" -> {"api", "update", "schedule", "saveUpdate", "tickDone",
                                "saveEnabled", "saveCli"}
      [] step = "stopUnit" -> {"startUnit", "api", "copy", "runInit", "saveUpdate", "schedule",
                               "tickDone", "unregister", "saveDisabled", "wipe"}
      [] step = "copy" -> {"runInit", "startUnit", "saveUpdate", "schedule", "tickDone"}
      [] step = "runInit" -> {"startUnit", "saveUpdate", "schedule", "tickDone", "register",
                              "saveEnabled", "saveCli", "api"}
      [] step = "register" -> {"startUnit", "saveEnabled", "saveCli", "api"}
      [] step = "saveEnabled" -> {"saveCli", "api"}
      [] step = "unregister" -> {"saveDisabled", "wipe"}
      [] step = "saveDisabled" -> {"wipe"}
      [] OTHER -> {}

Ordered(todo) == \A m, n \in DOMAIN todo : m < n => todo[n] \in Later(todo[m])

StepsOf(todo) == {todo[n] : n \in DOMAIN todo}

(* A plan is a sequence of steps in an order the code takes them.          *)
Plan(todo, steps) ==
    todo \in Seq(StepNames) /\ Ordered(todo) /\ StepsOf(todo) = steps

LEMMA EmptyPlan == Plan(<<>>, {})
  BY DEF Plan, Ordered, StepsOf

LEMMA SinglePlan ==
    ASSUME NEW a \in StepNames
    PROVE  Plan(<<a>>, {a}) /\ <<a>> # <<>>
  BY DEF Plan, Ordered, StepsOf

LEMMA JoinedPlan ==
    ASSUME NEW p, NEW q, NEW P, NEW Q, Plan(p, P), Plan(q, Q),
           \A a \in P, b \in Q : b \in Later(a)
    PROVE  Plan(p \o q, P \cup Q)
<1>. DEFINE r == p \o q
<1>1. /\ p \in Seq(StepNames) /\ q \in Seq(StepNames) /\ r \in Seq(StepNames)
      /\ Len(p) \in Nat /\ Len(q) \in Nat /\ Len(r) = Len(p) + Len(q)
      /\ DOMAIN p = 1..Len(p) /\ DOMAIN q = 1..Len(q) /\ DOMAIN r = 1..(Len(p) + Len(q))
  BY DEF Plan
<1>2. /\ \A n \in DOMAIN p : n \in DOMAIN r /\ r[n] = p[n]
      /\ \A n \in DOMAIN q : n + Len(p) \in DOMAIN r /\ r[n + Len(p)] = q[n]
      /\ \A n \in DOMAIN r : n \notin DOMAIN p => n - Len(p) \in DOMAIN q /\ r[n] = q[n - Len(p)]
  BY <1>1
<1>. HIDE DEF r
<1>3. StepsOf(r) = P \cup Q
  BY <1>1, <1>2 DEF Plan, StepsOf
<1>4. Ordered(r)
  <2>. SUFFICES ASSUME NEW m \in DOMAIN r, NEW n \in DOMAIN r, m < n
                PROVE  r[n] \in Later(r[m])
    BY DEF Ordered
  <2>1. CASE m \in DOMAIN p /\ n \in DOMAIN p
    BY <1>2, <2>1 DEF Plan, Ordered
  <2>2. CASE m \in DOMAIN p /\ n \notin DOMAIN p
    <3>1. r[m] \in P /\ r[n] \in Q
      BY <1>2, <2>2 DEF Plan, StepsOf
    <3>. QED BY <3>1
  <2>3. CASE m \notin DOMAIN p
    <3>1. n \notin DOMAIN p /\ n - Len(p) \in DOMAIN q /\ m - Len(p) \in DOMAIN q
          /\ m - Len(p) < n - Len(p)
      BY <1>1, <1>2, <2>3
    <3>. QED BY <1>2, <2>3, <3>1 DEF Plan, Ordered
  <2>. QED BY <2>1, <2>2, <2>3
<1>. QED BY <1>1, <1>3, <1>4 DEF Plan, r

LEMMA RestOfPlan ==
    ASSUME NEW todo, NEW steps, Plan(todo, steps), todo # <<>>
    PROVE  \E rest : /\ Plan(Tail(todo), rest)
                     /\ steps = {Head(todo)} \cup rest
                     /\ rest \subseteq Later(Head(todo))
                     /\ Head(todo) \in StepNames
<1>. DEFINE t == Tail(todo)
<1>1. /\ todo \in Seq(StepNames) /\ t \in Seq(StepNames) /\ Head(todo) = todo[1]
      /\ Len(todo) \in Nat /\ Len(todo) > 0
      /\ DOMAIN todo = 1..Len(todo) /\ DOMAIN t = 1..(Len(todo) - 1)
      /\ \A n \in DOMAIN t : t[n] = todo[n + 1]
      /\ todo[1] \in StepNames
  BY DEF Plan
<1>. HIDE DEF t
<1>2. Ordered(t)
  BY <1>1 DEF Plan, Ordered
<1>3. StepsOf(t) \subseteq Later(Head(todo))
  BY <1>1 DEF Plan, Ordered, StepsOf
<1>4. StepsOf(todo) = {Head(todo)} \cup StepsOf(t)
  <2>1. \A n \in DOMAIN todo : n = 1 \/ (n - 1 \in DOMAIN t /\ todo[n] = t[n - 1])
    BY <1>1
  <2>2. \A n \in DOMAIN t : n + 1 \in DOMAIN todo
    BY <1>1
  <2>. QED BY <1>1, <2>1, <2>2 DEF StepsOf
<1>. QED BY <1>1, <1>2, <1>3, <1>4 DEF Plan, t

(* A step in front of a plan. *)
LEMMA PrefixedPlan ==
    ASSUME NEW a \in StepNames, NEW q, NEW Q, Plan(q, Q), \A b \in Q : b \in Later(a)
    PROVE  Plan(<<a>> \o q, {a} \cup Q)
  BY SinglePlan, JoinedPlan

(* The literal sequences of the code. *)
LEMMA CodePlans ==
    /\ Plan(<<"saveCli", "reconcile", "update", "schedule">>,
            {"saveCli", "reconcile", "update", "schedule"})
    /\ Plan(<<"stopUnit", "startUnit", "api">>, {"stopUnit", "startUnit", "api"})
    /\ Plan(<<"init", "api">>, {"init", "api"})
    /\ Plan(<<"startUnit", "api">>, {"startUnit", "api"})
    /\ Plan(<<"stopUnit", "copy", "runInit", "startUnit">>,
            {"stopUnit", "copy", "runInit", "startUnit"})
    /\ Plan(<<"copy", "runInit">>, {"copy", "runInit"})
    /\ Plan(<<"runInit", "register", "startUnit", "saveEnabled", "saveCli", "api">>,
            {"runInit", "register", "startUnit", "saveEnabled", "saveCli", "api"})
    /\ Plan(<<"stopUnit", "unregister", "saveDisabled">>,
            {"stopUnit", "unregister", "saveDisabled"})
    /\ Plan(<<"stopUnit", "unregister", "saveDisabled", "wipe">>,
            {"stopUnit", "unregister", "saveDisabled", "wipe"})
<1>. USE DEF Plan, Ordered, StepsOf, Later, StepNames, UserCalls
<1>1. Plan(<<"saveCli", "reconcile", "update", "schedule">>,
            {"saveCli", "reconcile", "update", "schedule"})
  OBVIOUS
<1>2. Plan(<<"stopUnit", "startUnit", "api">>, {"stopUnit", "startUnit", "api"})
  OBVIOUS
<1>3. Plan(<<"init", "api">>, {"init", "api"}) /\ Plan(<<"startUnit", "api">>, {"startUnit", "api"})
  OBVIOUS
<1>4. Plan(<<"stopUnit", "copy", "runInit", "startUnit">>,
            {"stopUnit", "copy", "runInit", "startUnit"})
  OBVIOUS
<1>5. Plan(<<"copy", "runInit">>, {"copy", "runInit"})
  OBVIOUS
<1>6. Plan(<<"runInit", "register", "startUnit", "saveEnabled", "saveCli", "api">>,
            {"runInit", "register", "startUnit", "saveEnabled", "saveCli", "api"})
  OBVIOUS
<1>7. Plan(<<"stopUnit", "unregister", "saveDisabled">>,
            {"stopUnit", "unregister", "saveDisabled"})
  OBVIOUS
<1>8. Plan(<<"stopUnit", "unregister", "saveDisabled", "wipe">>,
            {"stopUnit", "unregister", "saveDisabled", "wipe"})
  OBVIOUS
<1>. QED BY <1>1, <1>2, <1>3, <1>4, <1>5, <1>6, <1>7, <1>8

-----------------------------------------------------------------------------
(***************************************************************************)
(* Types, and what a piece leaves of its call.                             *)
(***************************************************************************)
Ops == UserCalls \cup {"none", "bootstrap", "tick"}

CallRecords == [op : Ops, todo : Seq(StepNames), snap : Settings, sup : 0..MaxStarts]

AppRecords == [on : BOOLEAN, bundled : Nat \ {0}, timer : {"none", "set", "lost"},
               quitting : {"no", "temporary", "background"}]

FilesTyped ==
    /\ app \in AppRecords
    /\ settings \in Settings
    /\ runtime \in [file : Nat, metadata : Nat]
    /\ shims \in BOOLEAN

ProcessesTyped ==
    /\ unit \in [registered : BOOLEAN, active : BOOLEAN]
    /\ osNode \in {"none", "starting", "serving"}
    /\ current \in 0..MaxStarts
    /\ sup \in [Supervisors -> [status : {"stopped", "starting", "running", "error"},
                                child : BOOLEAN]]
    /\ init \in [Supervisors -> {"none", "running", "succeeded", "failed"}]
    /\ node \in [Supervisors -> {"none", "starting", "serving", "stopping"}]

HistoryTyped ==
    /\ mine \in SUBSET Supervisors /\ late \in SUBSET (0..MaxStarts)
    /\ leftover \in SUBSET {"cli", "unit"}
    /\ overlapped \in BOOLEAN /\ excused \in BOOLEAN
    /\ begun \in Nat /\ faults \in Nat /\ sessions \in Nat

(* A call that has steps left is in progress, and none is while the app is *)
(* not running.                                                            *)
CallShape(c) ==
    /\ calls[c].op = "none" <=> calls[c].todo = <<>>
    /\ Ordered(calls[c].todo)
    /\ ~app.on => calls[c] = NoCall

(* An app that is not running has no supervisors and is not quitting.      *)
ClosedShape == ~app.on => mine = {} /\ app.quitting = "no"

TypeInv ==
    /\ FilesTyped /\ ProcessesTyped /\ HistoryTyped /\ ClosedShape
    /\ calls \in [Slots -> CallRecords]
    /\ \A c \in Slots : CallShape(c)

Ahead(c) == StepsOf(calls[c].todo)
After(c) == StepsOf(Rest(c))
Snap(c) == calls[c].snap

Moved(c, steps, snap) ==
    /\ calls' \in [Slots -> CallRecords]
    /\ \A d \in Slots \ {c} : calls'[d] = calls[d]
    /\ Plan(calls'[c].todo, steps)
    /\ calls'[c].op = "none" <=> calls'[c].todo = <<>>
    /\ steps = {} => calls'[c] = NoCall
    /\ steps # {} => calls'[c].op = calls[c].op /\ calls'[c].snap = snap

LEMMA NoCallTyped == NoCall \in CallRecords /\ Plan(NoCall.todo, {})
  BY EmptyPlan DEF NoCall, CallRecords, Ops, Defaults, Settings

LEMMA AtFacts ==
    ASSUME TypeInv, NEW c \in Slots, NEW h, At(c, h)
    PROVE  /\ Plan(Rest(c), After(c))
           /\ Ahead(c) = {h} \cup After(c)
           /\ After(c) \subseteq Later(h)
           /\ calls[c].op # "none" /\ calls[c].todo # <<>> /\ app.on
           /\ calls[c] \in CallRecords
<1>1. calls[c] \in CallRecords /\ CallShape(c) /\ calls[c].todo # <<>> /\ Head(calls[c].todo) = h
  BY DEF TypeInv, At
<1>2. Plan(calls[c].todo, Ahead(c))
  BY <1>1 DEF Plan, CallShape, CallRecords, Ahead
<1>3. PICK rest : /\ Plan(Rest(c), rest) /\ Ahead(c) = {h} \cup rest /\ rest \subseteq Later(h)
  BY <1>1, <1>2, RestOfPlan DEF Rest
<1>4. rest = After(c)
  BY <1>3 DEF Plan, After
<1>5. app.on
  BY <1>1 DEF CallShape, NoCall
<1>. QED BY <1>1, <1>3, <1>4, <1>5 DEF CallShape

LEMMA HoldMoves ==
    ASSUME TypeInv, NEW c \in Slots, calls[c].todo # <<>>,
           NEW todo, NEW steps, Plan(todo, steps), NEW snap \in Settings,
           Hold(c, todo, snap)
    PROVE  Moved(c, steps, snap)
<1>. PICK k : k = calls[c]
  OBVIOUS
<1>1. /\ k \in CallRecords /\ k.op # "none" /\ calls \in [Slots -> CallRecords]
      /\ todo \in Seq(StepNames)
  BY DEF TypeInv, CallShape, Plan
<1>2. CASE todo = <<>>
  <2>1. steps = {} /\ calls' = [calls EXCEPT ![c] = NoCall]
    BY <1>2 DEF Hold, Plan, StepsOf
  <2>. QED BY <1>1, <2>1, NoCallTyped DEF Moved, NoCall
<1>3. CASE todo # <<>>
  <2>. DEFINE n == [k EXCEPT !.todo = todo, !.snap = snap]
  <2>1. calls' = [calls EXCEPT ![c] = n]
    BY <1>3 DEF Hold
  <2>2. n \in CallRecords /\ n.op = k.op /\ n.todo = todo /\ n.snap = snap
    BY <1>1 DEF CallRecords
  <2>3. 1 \in DOMAIN todo
    BY <1>1, <1>3
  <2>4. steps # {}
    BY <2>3 DEF Plan, StepsOf
  <2>. HIDE DEF n
  <2>5. calls'[c] = n
    BY <1>1, <2>1
  <2>. QED BY <1>1, <1>3, <2>1, <2>2, <2>4, <2>5 DEF Moved
<1>. QED BY <1>2, <1>3

LEMMA ContinueMoves ==
    ASSUME TypeInv, NEW c \in Slots, calls[c].todo # <<>>,
           NEW todo, NEW steps, Plan(todo, steps), Continue(c, todo)
    PROVE  Moved(c, steps, Snap(c))
<1>. PICK k : k = calls[c]
  OBVIOUS
<1>1. k \in CallRecords /\ k.snap \in Settings
  BY DEF TypeInv, CallRecords
<1>2. [k EXCEPT !.todo = todo] = [k EXCEPT !.todo = todo, !.snap = k.snap]
  BY <1>1 DEF CallRecords
<1>3. Hold(c, todo, k.snap)
  BY <1>2 DEF Continue, Hold
<1>. QED BY <1>1, <1>3, HoldMoves DEF Snap

LEMMA ReturnMoves ==
    ASSUME TypeInv, NEW c \in Slots, calls[c].todo # <<>>, Return(c)
    PROVE  Moved(c, {}, Snap(c))
  BY EmptyPlan, ContinueMoves DEF Return

LEMMA RestMoves ==
    ASSUME TypeInv, NEW c \in Slots, NEW h, At(c, h), Continue(c, Rest(c))
    PROVE  Moved(c, After(c), Snap(c))
  BY AtFacts, ContinueMoves

(* What each piece leaves of its call: the first pieces, by the code's     *)
(* branches.                                                               *)
LEMMA FirstMoves ==
    ASSUME TypeInv, NEW c \in Slots
    PROVE  /\ Bootstrap(c) =>
                 Moved(c, {"saveCli", "reconcile", "update", "schedule"}, settings)
           /\ Start(c) => \/ settings.background /\ Moved(c, {"askService"}, Snap(c))
                          \/ /\ ~settings.background
                             /\ current = 0 \/ sup[current].status # "running"
                             /\ Moved(c, {"health"}, Snap(c))
                          \/ Moved(c, {}, Snap(c))
           /\ Stop(c) => \/ settings.background /\ Moved(c, {"stopUnit"}, Snap(c))
                         \/ Moved(c, {}, Snap(c))
           /\ Restart(c) => \/ /\ settings.background
                               /\ Moved(c, {"stopUnit", "startUnit", "api"}, Snap(c))
                            \/ ~settings.background /\ Moved(c, {"health"}, Snap(c))
           /\ Enable(c) => Moved(c, {"runInit", "register", "startUnit", "saveEnabled",
                                     "saveCli", "api"}, settings')
           /\ Disable(c) => Moved(c, {"stopUnit", "unregister", "saveDisabled"}, Snap(c))
           /\ Remove(c) => \/ /\ settings.background
                              /\ Moved(c, {"stopUnit", "unregister", "saveDisabled", "wipe"},
                                       Snap(c))
                           \/ ~settings.background /\ Moved(c, {"wipe"}, Snap(c))
           /\ Repair(c) => Moved(c, {"saveCli"}, settings)
           /\ CliStatus(c) => Moved(c, {"saveStatus"}, settings)
<1>. USE AtFacts
<1>1. settings \in Settings
  BY DEF TypeInv, FilesTyped
<1>2. \A a \in StepNames : Plan(<<a>>, {a})
  BY SinglePlan
<1>3. {"askService", "health", "stopUnit", "wipe", "saveCli", "saveStatus"} \subseteq StepNames
  BY DEF StepNames
<1>4. ASSUME Bootstrap(c)
      PROVE  Moved(c, {"saveCli", "reconcile", "update", "schedule"}, settings)
  BY <1>1, <1>4, CodePlans, HoldMoves DEF Bootstrap
<1>5. ASSUME Start(c)
      PROVE  \/ settings.background /\ Moved(c, {"askService"}, Snap(c))
             \/ /\ ~settings.background
                /\ current = 0 \/ sup[current].status # "running"
                /\ Moved(c, {"health"}, Snap(c))
             \/ Moved(c, {}, Snap(c))
  <2>1. \/ settings.background /\ Continue(c, <<"askService">>)
        \/ /\ ~settings.background
           /\ current = 0 \/ sup[current].status # "running"
           /\ Continue(c, <<"health">>)
        \/ Continue(c, <<>>)
    BY <1>5 DEF Start
  <2>2. Continue(c, <<"askService">>) => Moved(c, {"askService"}, Snap(c))
    BY <1>2, <1>3, <1>5, ContinueMoves DEF Start
  <2>3. Continue(c, <<"health">>) => Moved(c, {"health"}, Snap(c))
    BY <1>2, <1>3, <1>5, ContinueMoves DEF Start
  <2>4. Continue(c, <<>>) => Moved(c, {}, Snap(c))
    BY <1>5, EmptyPlan, ContinueMoves DEF Start
  <2>. QED BY <2>1, <2>2, <2>3, <2>4
<1>6. ASSUME Stop(c)
      PROVE  \/ settings.background /\ Moved(c, {"stopUnit"}, Snap(c))
             \/ Moved(c, {}, Snap(c))
  <2>1. \/ settings.background /\ Continue(c, <<"stopUnit">>)
        \/ Continue(c, <<>>)
    BY <1>6 DEF Stop
  <2>2. Continue(c, <<"stopUnit">>) => Moved(c, {"stopUnit"}, Snap(c))
    BY <1>2, <1>3, <1>6, ContinueMoves DEF Stop
  <2>3. Continue(c, <<>>) => Moved(c, {}, Snap(c))
    BY <1>6, EmptyPlan, ContinueMoves DEF Stop
  <2>. QED BY <2>1, <2>2, <2>3
<1>7. ASSUME Restart(c)
      PROVE  \/ settings.background /\ Moved(c, {"stopUnit", "startUnit", "api"}, Snap(c))
             \/ ~settings.background /\ Moved(c, {"health"}, Snap(c))
  <2>1. \/ settings.background /\ Continue(c, <<"stopUnit", "startUnit", "api">>)
        \/ ~settings.background /\ Continue(c, <<"health">>)
    BY <1>7 DEF Restart
  <2>2. Continue(c, <<"stopUnit", "startUnit", "api">>)
           => Moved(c, {"stopUnit", "startUnit", "api"}, Snap(c))
    BY <1>7, CodePlans, ContinueMoves DEF Restart
  <2>3. Continue(c, <<"health">>) => Moved(c, {"health"}, Snap(c))
    BY <1>2, <1>3, <1>7, ContinueMoves DEF Restart
  <2>. QED BY <2>1, <2>2, <2>3
<1>8. ASSUME Enable(c)
      PROVE  Moved(c, {"runInit", "register", "startUnit", "saveEnabled", "saveCli", "api"},
                   settings')
  <2>1. settings' \in Settings
    BY <1>1, <1>8 DEF Enable, Settings
  <2>. QED BY <1>8, <2>1, CodePlans, HoldMoves DEF Enable
<1>9. ASSUME Disable(c)
      PROVE  Moved(c, {"stopUnit", "unregister", "saveDisabled"}, Snap(c))
  BY <1>9, CodePlans, ContinueMoves DEF Disable
<1>10. ASSUME Remove(c)
       PROVE  \/ /\ settings.background
                 /\ Moved(c, {"stopUnit", "unregister", "saveDisabled", "wipe"}, Snap(c))
              \/ ~settings.background /\ Moved(c, {"wipe"}, Snap(c))
  <2>1. \/ /\ settings.background
           /\ Continue(c, <<"stopUnit", "unregister", "saveDisabled", "wipe">>)
        \/ ~settings.background /\ Continue(c, <<"wipe">>)
    BY <1>10 DEF Remove
  <2>2. Continue(c, <<"stopUnit", "unregister", "saveDisabled", "wipe">>)
           => Moved(c, {"stopUnit", "unregister", "saveDisabled", "wipe"}, Snap(c))
    BY <1>10, CodePlans, ContinueMoves DEF Remove
  <2>3. Continue(c, <<"wipe">>) => Moved(c, {"wipe"}, Snap(c))
    BY <1>2, <1>3, <1>10, ContinueMoves DEF Remove
  <2>. QED BY <2>1, <2>2, <2>3
<1>11. Repair(c) => Moved(c, {"saveCli"}, settings)
  BY <1>1, <1>2, <1>3, HoldMoves DEF Repair
<1>12. CliStatus(c) => Moved(c, {"saveStatus"}, settings)
  BY <1>1, <1>2, <1>3, HoldMoves DEF CliStatus
<1>. QED BY <1>4, <1>5, <1>6, <1>7, <1>8, <1>9, <1>10, <1>11, <1>12

LEMMA LaterFacts ==
    /\ Later("reconcile") = {"update", "schedule"} /\ Later("askService") = {"update", "schedule"}
    /\ Later("health") = {"update", "schedule"} /\ Later("api") = {"update", "schedule"}
    /\ Later("update") = {"schedule"} /\ Later("saveUpdate") = {"schedule"}
    /\ Later("init") = {"api", "update", "schedule"}
    /\ Later("saveCli") = {"reconcile", "update", "schedule", "api"}
    /\ Later("startUnit") = {"api", "update", "schedule", "saveUpdate", "tickDone",
                             "saveEnabled", "saveCli"}
    /\ Later("stopUnit") = {"startUnit", "api", "copy", "runInit", "saveUpdate", "schedule",
                            "tickDone", "unregister", "saveDisabled", "wipe"}
    /\ Later("copy") = {"runInit", "startUnit", "saveUpdate", "schedule", "tickDone"}
    /\ Later("runInit") = {"startUnit", "saveUpdate", "schedule", "tickDone", "register",
                           "saveEnabled", "saveCli", "api"}
    /\ Later("register") = {"startUnit", "saveEnabled", "saveCli", "api"}
    /\ Later("saveEnabled") = {"saveCli", "api"}
    /\ Later("unregister") = {"saveDisabled", "wipe"}
    /\ Later("saveDisabled") = {"wipe"}
    /\ \A h \in {"bootstrap", "start", "stop", "restart", "enable", "disable", "remove",
                 "repair", "uninstallCli", "cliStatus", "schedule", "tick", "tickDone",
                 "tickCli", "wipe", "saveStatus"} : Later(h) = {}
  BY DEF Later

LEMMA UpdatePlans ==
    ASSUME NEW inUse \in BOOLEAN, NEW restart \in BOOLEAN
    PROVE  \/ UpdateSteps(inUse, restart) = <<>>
           \/ /\ inUse /\ restart
              /\ Plan(UpdateSteps(inUse, restart), {"stopUnit", "copy", "runInit", "startUnit"})
           \/ /\ inUse /\ ~restart
              /\ Plan(UpdateSteps(inUse, restart), {"copy", "runInit"})
<1>1. CASE ~inUse \/ UpToDate
  BY <1>1 DEF UpdateSteps
<1>2. CASE ~(~inUse \/ UpToDate) /\ restart
  BY <1>2, CodePlans DEF UpdateSteps
<1>3. CASE ~(~inUse \/ UpToDate) /\ ~restart
  BY <1>3, CodePlans DEF UpdateSteps
<1>. QED BY <1>1, <1>2, <1>3

(* What SaveUpdate leaves of its call: the wrappers come first if the CLI  *)
(* is in use.                                                              *)
SavedMove(c, snap, steps) ==
    \/ snap.cli /\ Moved(c, {"saveCli"} \cup steps, snap)
    \/ ~snap.cli /\ Moved(c, steps, snap)

LEMMA SaveUpdateMoves ==
    ASSUME TypeInv, NEW c \in Slots, calls[c].todo # <<>>, NEW snap \in Settings,
           NEW rest, NEW steps \in SUBSET {"schedule"}, Plan(rest, steps),
           SaveUpdate(c, snap, rest)
    PROVE  SavedMove(c, snap, steps)
<1>1. CASE snap.cli
  <2>1. Plan(<<"saveCli">> \o rest, {"saveCli"} \cup steps)
    BY PrefixedPlan, LaterFacts DEF StepNames
  <2>2. Hold(c, <<"saveCli">> \o rest, snap)
    BY <1>1 DEF SaveUpdate
  <2>. QED BY <1>1, <2>1, <2>2, HoldMoves DEF SavedMove
<1>2. CASE ~snap.cli
  <2>1. Hold(c, rest, snap)
    BY <1>2 DEF SaveUpdate
  <2>. QED BY <1>2, <2>1, HoldMoves DEF SavedMove
<1>. QED BY <1>1, <1>2

(* What a check of the timer leaves of its call when nothing is installed. *)
TickMove(c) ==
    \/ settings.cli /\ shims' /\ Moved(c, {"tickCli"}, Snap(c))
    \/ ~settings.cli /\ shims' = shims /\ Moved(c, {}, Snap(c))

LEMMA TickDoneMoves ==
    ASSUME TypeInv, NEW c \in Slots, calls[c].todo # <<>>, TickDone(c)
    PROVE  TickMove(c)
<1>1. settings.cli \in BOOLEAN /\ shims \in BOOLEAN
  BY DEF TypeInv, FilesTyped, Settings
<1>2. CASE settings.cli
  <2>1. Continue(c, <<"tickCli">>) /\ shims'
    BY <1>1, <1>2 DEF TickDone
  <2>2. Plan(<<"tickCli">>, {"tickCli"})
    BY SinglePlan DEF StepNames
  <2>. QED BY <1>2, <2>1, <2>2, ContinueMoves DEF TickMove
<1>3. CASE ~settings.cli
  <2>1. Continue(c, <<>>) /\ shims' = shims
    BY <1>1, <1>3 DEF TickDone
  <2>. QED BY <1>3, <2>1, EmptyPlan, ContinueMoves DEF TickMove
<1>. QED BY <1>2, <1>3

(* The pieces that go on with the rest of their call, or end it.           *)
LEMMA RestOrReturn ==
    ASSUME TypeInv, NEW c \in Slots
    PROVE  /\ Schedule(c) \/ SaveEnabled(c) \/ SaveDisabled(c) \/ Copy(c)
                \/ StopUnit(c) \/ Unregister(c) => Moved(c, After(c), Snap(c))
           /\ SaveTickCli(c) \/ Wipe(c) \/ UninstallCli(c) \/ SaveStatus(c)
                => Moved(c, {}, Snap(c))
           /\ Api(c) \/ RunInit(c) \/ Register(c) \/ StartUnit(c) \/ Supervise(c)
                => Moved(c, After(c), Snap(c)) \/ Moved(c, {}, Snap(c))
           /\ SaveCli(c) => Moved(c, After(c), settings')
<1>1. \A h : At(c, h) /\ Continue(c, Rest(c)) => Moved(c, After(c), Snap(c))
  BY RestMoves
<1>2. \A h : At(c, h) /\ Return(c) => Moved(c, {}, Snap(c))
  BY ReturnMoves, AtFacts
<1>3. Schedule(c) \/ SaveEnabled(c) \/ SaveDisabled(c) \/ Copy(c) \/ StopUnit(c) \/ Unregister(c)
         => Moved(c, After(c), Snap(c))
  BY <1>1 DEF Schedule, SaveEnabled, SaveDisabled, Copy, StopUnit, Unregister
<1>4. SaveTickCli(c) \/ Wipe(c) \/ UninstallCli(c) \/ SaveStatus(c) => Moved(c, {}, Snap(c))
  BY <1>2 DEF SaveTickCli, Wipe, UninstallCli, SaveStatus
<1>5. Api(c) \/ RunInit(c) \/ Register(c) \/ StartUnit(c) \/ Supervise(c)
         => Moved(c, After(c), Snap(c)) \/ Moved(c, {}, Snap(c))
  BY <1>1, <1>2 DEF Api, RunInit, Register, StartUnit, Supervise
<1>6. SaveCli(c) => Moved(c, After(c), settings')
  <2>. SUFFICES ASSUME SaveCli(c) PROVE Moved(c, After(c), settings')
    OBVIOUS
  <2>1. At(c, "saveCli") /\ Hold(c, Rest(c), settings')
        /\ settings' = [calls[c].snap EXCEPT !.cli = TRUE]
    BY DEF SaveCli
  <2>2. settings' \in Settings
    BY <2>1, AtFacts DEF CallRecords, Settings
  <2>. QED BY <2>1, <2>2, AtFacts, HoldMoves
<1>. QED BY <1>3, <1>4, <1>5, <1>6

(* The pieces that put steps before the rest of their call.                *)
LEMMA InsertMoves ==
    ASSUME TypeInv, NEW c \in Slots
    PROVE  /\ Reconcile(c) =>
                 \/ Reachable /\ Moved(c, After(c), Snap(c))
                 \/ /\ ~Reachable /\ Snap(c).background
                    /\ Moved(c, {"askService"} \cup After(c), Snap(c))
                 \/ /\ ~Reachable /\ ~Snap(c).background
                    /\ Moved(c, {"health"} \cup After(c), Snap(c))
           /\ AskService(c) =>
                 \/ Reachable /\ Moved(c, After(c), Snap(c))
                 \/ ~Reachable /\ Moved(c, {"startUnit", "api"} \cup After(c), Snap(c))
           /\ Update(c) =>
                 \/ SavedMove(c, settings, After(c)) /\ settings' = settings
                 \/ /\ settings.background \/ settings.cli
                    /\ settings' = settings /\ shims' = shims
                    /\ \/ /\ settings.background
                          /\ Moved(c, {"stopUnit", "copy", "runInit", "startUnit", "saveUpdate"}
                                      \cup After(c), settings)
                       \/ Moved(c, {"copy", "runInit", "saveUpdate"} \cup After(c), settings)
           /\ UpdateApplied(c) => SavedMove(c, Snap(c), After(c))
           /\ Tick(c) =>
                 \/ TickMove(c)
                 \/ /\ shims' = shims
                    /\ \/ /\ settings.background
                          /\ Moved(c, {"stopUnit", "copy", "runInit", "startUnit", "tickDone"},
                                   Snap(c))
                       \/ Moved(c, {"copy", "runInit", "tickDone"}, Snap(c))
           /\ TickApplied(c) => TickMove(c)
<1>1. ASSUME Reconcile(c)
      PROVE  \/ Reachable /\ Moved(c, After(c), Snap(c))
             \/ /\ ~Reachable /\ Snap(c).background
                /\ Moved(c, {"askService"} \cup After(c), Snap(c))
             \/ /\ ~Reachable /\ ~Snap(c).background
                /\ Moved(c, {"health"} \cup After(c), Snap(c))
  <2>1. /\ At(c, "reconcile")
        /\ \/ Reachable /\ Continue(c, Rest(c))
           \/ ~Reachable /\ Snap(c).background /\ Continue(c, <<"askService">> \o Rest(c))
           \/ ~Reachable /\ ~Snap(c).background /\ Continue(c, <<"health">> \o Rest(c))
    BY <1>1 DEF Reconcile, Snap
  <2>2. /\ Plan(Rest(c), After(c)) /\ calls[c].todo # <<>>
        /\ After(c) \subseteq {"update", "schedule"}
    BY <2>1, AtFacts, LaterFacts
  <2>3. /\ Plan(<<"askService">> \o Rest(c), {"askService"} \cup After(c))
        /\ Plan(<<"health">> \o Rest(c), {"health"} \cup After(c))
    BY <2>2, PrefixedPlan, LaterFacts DEF StepNames
  <2>. QED BY <2>1, <2>2, <2>3, ContinueMoves
<1>2. ASSUME AskService(c)
      PROVE  \/ Reachable /\ Moved(c, After(c), Snap(c))
             \/ ~Reachable /\ Moved(c, {"startUnit", "api"} \cup After(c), Snap(c))
  <2>1. /\ At(c, "askService")
        /\ \/ Reachable /\ Continue(c, Rest(c))
           \/ ~Reachable /\ Continue(c, <<"startUnit", "api">> \o Rest(c))
    BY <1>2 DEF AskService
  <2>2. /\ Plan(Rest(c), After(c)) /\ calls[c].todo # <<>>
        /\ After(c) \subseteq {"update", "schedule"}
    BY <2>1, AtFacts, LaterFacts
  <2>3. Plan(<<"startUnit", "api">> \o Rest(c), {"startUnit", "api"} \cup After(c))
    BY <2>2, CodePlans, JoinedPlan, LaterFacts
  <2>. QED BY <2>1, <2>2, <2>3, ContinueMoves
<1>3. ASSUME Update(c)
      PROVE  \/ SavedMove(c, settings, After(c)) /\ settings' = settings
             \/ /\ settings.background \/ settings.cli
                /\ settings' = settings /\ shims' = shims
                /\ \/ /\ settings.background
                      /\ Moved(c, {"stopUnit", "copy", "runInit", "startUnit", "saveUpdate"}
                                  \cup After(c), settings)
                   \/ Moved(c, {"copy", "runInit", "saveUpdate"} \cup After(c), settings)
  <2>. DEFINE inUse == settings.background \/ settings.cli
              restart == settings.background /\
                            (calls[c].op = "bootstrap" => calls[c].snap.background)
              u == UpdateSteps(inUse, restart)
  <2>1. /\ At(c, "update") /\ settings \in Settings
        /\ \/ u = <<>> /\ SaveUpdate(c, settings, Rest(c))
           \/ /\ u # <<>> /\ Hold(c, u \o <<"saveUpdate">> \o Rest(c), settings)
              /\ settings' = settings /\ shims' = shims
    BY <1>3 DEF Update, TypeInv, FilesTyped
  <2>2. /\ Plan(Rest(c), After(c)) /\ calls[c].todo # <<>> /\ After(c) \subseteq {"schedule"}
    BY <2>1, AtFacts, LaterFacts
  <2>3. Plan(<<"saveUpdate">>, {"saveUpdate"})
    BY SinglePlan DEF StepNames
  <2>4. inUse \in BOOLEAN /\ restart \in BOOLEAN
    BY <2>1, AtFacts DEF Settings, CallRecords
  <2>5. \/ u = <<>>
        \/ inUse /\ restart /\ Plan(u, {"stopUnit", "copy", "runInit", "startUnit"})
        \/ inUse /\ ~restart /\ Plan(u, {"copy", "runInit"})
    <3>. HIDE DEF inUse, restart
    <3>. QED BY <2>4, UpdatePlans
  <2>6. restart => settings.background
    OBVIOUS
  <2>. HIDE DEF u, restart
  <2>7. CASE u = <<>>
    <3>1. SavedMove(c, settings, After(c))
      BY <2>1, <2>2, <2>7, SaveUpdateMoves
    <3>. QED BY <2>1, <2>7, <3>1 DEF SaveUpdate
  <2>8. CASE u # <<>> /\ restart
    <3>1. Plan(u \o <<"saveUpdate">>, {"stopUnit", "copy", "runInit", "startUnit"}
                                         \cup {"saveUpdate"})
      BY <2>3, <2>5, <2>8, JoinedPlan, LaterFacts
    <3>2. Plan((u \o <<"saveUpdate">>) \o Rest(c),
               ({"stopUnit", "copy", "runInit", "startUnit"} \cup {"saveUpdate"}) \cup After(c))
      BY <2>2, <3>1, JoinedPlan, LaterFacts
    <3>3. Moved(c, ({"stopUnit", "copy", "runInit", "startUnit"} \cup {"saveUpdate"})
                      \cup After(c), settings)
      BY <2>1, <2>2, <2>8, <3>2, HoldMoves
    <3>4. ({"stopUnit", "copy", "runInit", "startUnit"} \cup {"saveUpdate"})
            = {"stopUnit", "copy", "runInit", "startUnit", "saveUpdate"}
      OBVIOUS
    <3>. QED BY <2>1, <2>5, <2>6, <2>8, <3>3, <3>4
  <2>9. CASE u # <<>> /\ ~restart
    <3>1. Plan(u \o <<"saveUpdate">>, {"copy", "runInit"} \cup {"saveUpdate"})
      BY <2>3, <2>5, <2>9, JoinedPlan, LaterFacts
    <3>2. Plan((u \o <<"saveUpdate">>) \o Rest(c),
               ({"copy", "runInit"} \cup {"saveUpdate"}) \cup After(c))
      BY <2>2, <3>1, JoinedPlan, LaterFacts
    <3>3. Moved(c, ({"copy", "runInit"} \cup {"saveUpdate"}) \cup After(c), settings)
      BY <2>1, <2>2, <2>9, <3>2, HoldMoves
    <3>4. ({"copy", "runInit"} \cup {"saveUpdate"}) = {"copy", "runInit", "saveUpdate"}
      OBVIOUS
    <3>. QED BY <2>1, <2>5, <2>9, <3>3, <3>4
  <2>. QED BY <2>7, <2>8, <2>9
<1>4. ASSUME UpdateApplied(c)
      PROVE  SavedMove(c, Snap(c), After(c))
  <2>1. At(c, "saveUpdate") /\ SaveUpdate(c, Snap(c), Rest(c))
    BY <1>4 DEF UpdateApplied, Snap
  <2>2. /\ Plan(Rest(c), After(c)) /\ calls[c].todo # <<>> /\ After(c) \subseteq {"schedule"}
        /\ Snap(c) \in Settings
    BY <2>1, AtFacts, LaterFacts DEF CallRecords, Snap
  <2>. QED BY <2>1, <2>2, SaveUpdateMoves
<1>5. ASSUME Tick(c)
      PROVE  \/ TickMove(c)
             \/ /\ shims' = shims
                /\ \/ /\ settings.background
                      /\ Moved(c, {"stopUnit", "copy", "runInit", "startUnit", "tickDone"},
                               Snap(c))
                   \/ Moved(c, {"copy", "runInit", "tickDone"}, Snap(c))
  <2>. DEFINE inUse == settings.background \/ settings.cli
              u == UpdateSteps(inUse, settings.background)
  <2>1. /\ At(c, "tick") /\ settings \in Settings
        /\ \/ TickDone(c)
           \/ /\ u # <<>> /\ Continue(c, u \o <<"tickDone">>)
              /\ shims' = shims
    BY <1>5 DEF Tick, TypeInv, FilesTyped
  <2>2. calls[c].todo # <<>>
    BY <2>1, AtFacts
  <2>3. Plan(<<"tickDone">>, {"tickDone"})
    BY SinglePlan DEF StepNames
  <2>4. inUse \in BOOLEAN /\ settings.background \in BOOLEAN
    BY <2>1 DEF Settings
  <2>5. \/ u = <<>>
        \/ settings.background /\ Plan(u, {"stopUnit", "copy", "runInit", "startUnit"})
        \/ Plan(u, {"copy", "runInit"})
    <3>. HIDE DEF inUse
    <3>. QED BY <2>4, UpdatePlans
  <2>. HIDE DEF u
  <2>6. CASE TickDone(c)
    BY <2>2, <2>6, TickDoneMoves
  <2>7. ASSUME u # <<>>, Continue(c, u \o <<"tickDone">>), settings.background,
               Plan(u, {"stopUnit", "copy", "runInit", "startUnit"})
        PROVE  Moved(c, {"stopUnit", "copy", "runInit", "startUnit", "tickDone"}, Snap(c))
    <3>1. Plan(u \o <<"tickDone">>, {"stopUnit", "copy", "runInit", "startUnit"}
                                       \cup {"tickDone"})
      BY <2>3, <2>7, JoinedPlan, LaterFacts
    <3>2. Moved(c, {"stopUnit", "copy", "runInit", "startUnit"} \cup {"tickDone"}, Snap(c))
      BY <2>2, <2>7, <3>1, ContinueMoves
    <3>3. {"stopUnit", "copy", "runInit", "startUnit"} \cup {"tickDone"}
             = {"stopUnit", "copy", "runInit", "startUnit", "tickDone"}
      OBVIOUS
    <3>. QED BY <3>2, <3>3
  <2>8. ASSUME u # <<>>, Continue(c, u \o <<"tickDone">>), Plan(u, {"copy", "runInit"})
        PROVE  Moved(c, {"copy", "runInit", "tickDone"}, Snap(c))
    <3>1. Plan(u \o <<"tickDone">>, {"copy", "runInit"} \cup {"tickDone"})
      BY <2>3, <2>8, JoinedPlan, LaterFacts
    <3>2. Moved(c, {"copy", "runInit"} \cup {"tickDone"}, Snap(c))
      BY <2>2, <2>8, <3>1, ContinueMoves
    <3>3. {"copy", "runInit"} \cup {"tickDone"} = {"copy", "runInit", "tickDone"}
      OBVIOUS
    <3>. QED BY <3>2, <3>3
  <2>. QED BY <2>1, <2>5, <2>6, <2>7, <2>8
<1>6. TickApplied(c) => TickMove(c)
  BY AtFacts, TickDoneMoves DEF TickApplied
<1>. QED BY <1>1, <1>2, <1>3, <1>4, <1>5, <1>6

(* Spawning puts the new supervisor in the call.                           *)
Spawned(c) ==
    \E i \in Unused :
        /\ current' = i
        /\ sup' = [sup EXCEPT ![i] = [status |-> "starting", child |-> FALSE]]
        /\ init' = [init EXCEPT ![i] = "running"]
        /\ mine' = mine \cup {i}
        /\ calls'[c].sup = i

LEMMA SpawnMoves ==
    ASSUME TypeInv, NEW c \in Slots, Spawn(c)
    PROVE  \/ /\ Reachable /\ Moved(c, After(c), Snap(c))
              /\ UNCHANGED <<current, sup, init, mine>>
           \/ ~Reachable /\ Moved(c, {"init", "api"} \cup After(c), Snap(c)) /\ Spawned(c)
<1>1. At(c, "health")
  BY DEF Spawn
<1>2. CASE Reachable
  BY <1>1, <1>2, RestMoves DEF Spawn
<1>3. CASE ~Reachable
  <2>1. PICK i \in Unused :
           /\ current' = i
           /\ sup' = [sup EXCEPT ![i] = [status |-> "starting", child |-> FALSE]]
           /\ init' = [init EXCEPT ![i] = "running"]
           /\ mine' = mine \cup {i}
           /\ calls' = [calls EXCEPT ![c].todo = <<"init", "api">> \o Rest(c), ![c].sup = i]
    BY <1>3 DEF Spawn
  <2>2. /\ Plan(Rest(c), After(c)) /\ calls[c].todo # <<>> /\ calls[c].op # "none"
        /\ After(c) \subseteq {"update", "schedule"}
    BY <1>1, AtFacts, LaterFacts
  <2>. DEFINE todo == <<"init", "api">> \o Rest(c)
  <2>3. Plan(todo, {"init", "api"} \cup After(c))
    BY <2>2, CodePlans, JoinedPlan, LaterFacts
  <2>4. todo # <<>>
    BY <2>2 DEF Plan
  <2>. HIDE DEF todo
  <2>5. PICK k : k = calls[c]
    OBVIOUS
  <2>6. k \in CallRecords /\ calls \in [Slots -> CallRecords] /\ i \in 0..MaxStarts
    BY <2>5 DEF TypeInv, Unused, Supervisors
  <2>7. calls' = [calls EXCEPT ![c] = [k EXCEPT !.todo = todo, !.sup = i]]
    BY <2>1, <2>5, <2>6 DEF todo
  <2>. DEFINE n == [k EXCEPT !.todo = todo, !.sup = i]
  <2>8. /\ n \in CallRecords /\ n.op = k.op /\ n.todo = todo /\ n.snap = k.snap /\ n.sup = i
    BY <2>3, <2>6 DEF CallRecords, Plan
  <2>. HIDE DEF n
  <2>9. calls' \in [Slots -> CallRecords] /\ calls'[c] = n /\ \A d \in Slots \ {c} : calls'[d] = calls[d]
    BY <2>6, <2>7, <2>8 DEF n
  <2>10. Moved(c, {"init", "api"} \cup After(c), Snap(c))
    BY <2>2, <2>3, <2>4, <2>5, <2>8, <2>9 DEF Moved, Snap
  <2>. QED BY <1>3, <2>1, <2>8, <2>9, <2>10 DEF Spawned
<1>. QED BY <1>2, <1>3

-----------------------------------------------------------------------------
(***************************************************************************)
(* Type correctness.                                                       *)
(***************************************************************************)

(* Every piece moves its call. *)
LEMMA PieceMoves ==
    ASSUME TypeInv, NEW c \in Slots, Piece(c)
    PROVE  \E steps, snap : Moved(c, steps, snap)
<1>1. Bootstrap(c) \/ Start(c) \/ Stop(c) \/ Restart(c) \/ Enable(c) \/ Disable(c) \/ Remove(c)
        \/ Repair(c) \/ CliStatus(c) => \E steps, snap : Moved(c, steps, snap)
  BY FirstMoves
<1>2. Schedule(c) \/ SaveEnabled(c) \/ SaveDisabled(c) \/ Copy(c) \/ StopUnit(c) \/ Unregister(c)
        \/ SaveTickCli(c) \/ Wipe(c) \/ UninstallCli(c) \/ SaveStatus(c)
        \/ Api(c) \/ RunInit(c) \/ Register(c) \/ StartUnit(c) \/ Supervise(c) \/ SaveCli(c)
        => \E steps, snap : Moved(c, steps, snap)
  BY RestOrReturn
<1>3. Reconcile(c) \/ AskService(c) \/ Update(c) \/ UpdateApplied(c) \/ Tick(c) \/ TickApplied(c)
        => \E steps, snap : Moved(c, steps, snap)
  BY InsertMoves DEF SavedMove, TickMove
<1>4. Spawn(c) => \E steps, snap : Moved(c, steps, snap)
  BY SpawnMoves
<1>. QED BY <1>1, <1>2, <1>3, <1>4 DEF Piece

(* A piece changes of the app no more than its timer.                      *)
LEMMA PieceApp ==
    ASSUME TypeInv, NEW c \in Slots, Piece(c)
    PROVE  /\ app' \in AppRecords /\ app'.on = app.on /\ app'.bundled = app.bundled
           /\ app'.quitting = app.quitting
<1>1. app \in AppRecords
  BY DEF TypeInv, FilesTyped
<1>2. CASE Schedule(c)
  BY <1>1, <1>2 DEF Schedule, AppRecords
<1>3. CASE Enable(c)
  BY <1>1, <1>3 DEF Enable, AppRecords
<1>4. CASE ~Schedule(c) /\ ~Enable(c)
  <2>1. app' = app
    BY <1>4 DEF Piece, Bootstrap, Reconcile, Start, Stop, Restart, Spawn, Supervise, AskService,
         Api, Update, UpdateApplied, Tick, TickApplied, SaveTickCli, SaveEnabled, Disable,
         SaveDisabled, Remove, Wipe, Repair, SaveCli, UninstallCli, CliStatus, SaveStatus, Copy,
         RunInit, Register, StartUnit, StopUnit, Unregister
  <2>. QED BY <1>1, <2>1
<1>. QED BY <1>2, <1>3, <1>4

(* Every piece begins with a step of its call, and a call only runs in a   *)
(* running app.                                                            *)
LEMMA PieceRuns ==
    ASSUME TypeInv, NEW c \in Slots, Piece(c)
    PROVE  app.on /\ app'.on /\ calls[c].op # "none"
<1>1. \E h : At(c, h)
  BY DEF Piece, Bootstrap, Reconcile, Schedule, Start, Stop, Restart, Spawn, Supervise, AskService,
         Api, Update, UpdateApplied, Tick, TickApplied, SaveTickCli, Enable, SaveEnabled, Disable,
         SaveDisabled, Remove, Wipe, Repair, SaveCli, UninstallCli, CliStatus, SaveStatus, Copy,
         RunInit, Register, StartUnit, StopUnit, Unregister
<1>. QED BY <1>1, PieceApp, AtFacts

LEMMA MovedTyped ==
    ASSUME TypeInv, NEW c \in Slots, NEW steps, NEW snap, Moved(c, steps, snap), app'.on
    PROVE  (calls \in [Slots -> CallRecords])' /\ \A d \in Slots : CallShape(d)'
<1>1. CallShape(c)'
  BY DEF Moved, CallShape, Plan
<1>2. ASSUME NEW d \in Slots, d # c
      PROVE  CallShape(d)'
  BY <1>2 DEF Moved, CallShape, TypeInv
<1>. QED BY <1>1, <1>2 DEF Moved

NodeStates == {"none", "starting", "serving", "stopping"}
SupRecords == [status : {"stopped", "starting", "running", "error"}, child : BOOLEAN]

(* A terminated supervisor's child no longer lives; nothing else changes.  *)
LEMMA TerminateFacts ==
    ASSUME NEW n \in [Supervisors -> NodeStates], NEW i \in 0..MaxStarts
    PROVE  /\ Terminate(n, i) \in [Supervisors -> NodeStates]
           /\ \A o \in Supervisors : Terminate(n, i)[o] \in Live =>
                 n[o] \in Live /\ Terminate(n, i)[o] = n[o] /\ (o = i => ~sup[i].child)
           /\ \A o \in Supervisors : o # i => Terminate(n, i)[o] = n[o]
  BY DEF Terminate, NodeStates, Live, Supervisors

LEMMA StopTemporaryFacts ==
    ASSUME TypeInv, StopTemporary
    PROVE  /\ node' \in [Supervisors -> NodeStates] /\ sup' \in [Supervisors -> SupRecords]
           /\ settings.background => node' = node /\ sup' = sup
           /\ ~settings.background =>
                 \A o \in Supervisors :
                     /\ node'[o] \in Live =>
                          node[o] \in Live /\ node'[o] = node[o] /\ (o = current => ~sup[o].child)
                     /\ o # current => sup'[o] = sup[o]
<1>1. /\ node \in [Supervisors -> NodeStates] /\ sup \in [Supervisors -> SupRecords]
      /\ current \in 0..MaxStarts
  BY DEF TypeInv, ProcessesTyped, NodeStates, SupRecords
<1>2. CASE settings.background
  BY <1>1, <1>2 DEF StopTemporary
<1>3. CASE ~settings.background
  <2>1. /\ node' = Terminate(node, current)
        /\ sup' = IF current = 0 THEN sup
                  ELSE [sup EXCEPT ![current] = [status |-> "stopped", child |-> FALSE]]
    BY <1>3 DEF StopTemporary
  <2>2. [status |-> "stopped", child |-> FALSE] \in SupRecords
    BY DEF SupRecords
  <2>3. /\ sup' \in [Supervisors -> SupRecords]
        /\ \A o \in Supervisors : o # current => sup'[o] = sup[o]
    BY <1>1, <2>1, <2>2
  <2>. QED BY <1>1, <1>3, <2>1, <2>3, TerminateFacts
<1>. QED BY <1>2, <1>3

LEMMA CopyTyped ==
    ASSUME TypeInv
    PROVE  /\ Installed \in [file : Nat, metadata : Nat]
           /\ CopyOrUpdate => runtime' \in [file : Nat, metadata : Nat]
<1>1. app.bundled \in Nat \ {0} /\ runtime \in [file : Nat, metadata : Nat]
  BY DEF TypeInv, FilesTyped, AppRecords
<1>. QED BY <1>1 DEF CopyOrUpdate, Installed

LEMMA SnapTyped ==
    ASSUME TypeInv, NEW c \in Slots
    PROVE  /\ calls[c].snap \in Settings /\ settings \in Settings /\ Defaults \in Settings
           /\ \A s \in Settings, b \in BOOLEAN :
                 [s EXCEPT !.cli = b] \in Settings /\ [s EXCEPT !.background = b] \in Settings
  BY DEF TypeInv, FilesTyped, CallRecords, Settings, Defaults

LEMMA PieceFilesTyped ==
    ASSUME TypeInv, NEW c \in Slots, Piece(c)
    PROVE  FilesTyped'
<1>. USE SnapTyped, CopyTyped, PieceApp
<1>1. FilesTyped
  BY DEF TypeInv
<1>2. Bootstrap(c) \/ Enable(c) \/ Repair(c) \/ Copy(c) => FilesTyped'
  BY <1>1 DEF Bootstrap, Enable, Repair, Copy, WriteShims, FilesTyped
<1>3. Schedule(c) => FilesTyped'
  BY <1>1 DEF Schedule, files, FilesTyped
<1>4. Reconcile(c) \/ Start(c) \/ Stop(c) \/ Restart(c) \/ Spawn(c) \/ Supervise(c)
         \/ AskService(c) \/ Api(c) \/ Disable(c) \/ Remove(c) \/ CliStatus(c) \/ RunInit(c)
         \/ Register(c) \/ StartUnit(c) \/ StopUnit(c) \/ Unregister(c) => FilesTyped'
  BY <1>1 DEF Reconcile, Start, Stop, Restart, Spawn, Supervise, AskService, Api, Disable, Remove,
              CliStatus, RunInit, Register, StartUnit, StopUnit, Unregister, files, FilesTyped
<1>5. Update(c) \/ UpdateApplied(c) => FilesTyped'
  BY <1>1 DEF Update, UpdateApplied, SaveUpdate, Settings, FilesTyped
<1>6. Tick(c) \/ TickApplied(c) => FilesTyped'
  BY <1>1 DEF Tick, TickApplied, TickDone, Settings, FilesTyped
<1>7. ASSUME \/ SaveTickCli(c) \/ SaveEnabled(c) \/ SaveDisabled(c) \/ SaveCli(c)
             \/ UninstallCli(c) \/ SaveStatus(c)
      PROVE  FilesTyped'
  <2>1. /\ UNCHANGED <<app, runtime>> /\ shims' \in {TRUE, FALSE, shims}
        /\ \/ \E b \in {TRUE, FALSE, shims} : \/ settings' = [settings EXCEPT !.cli = b]
                                               \/ settings' = [calls[c].snap EXCEPT !.cli = b]
           \/ settings' = [settings EXCEPT !.background = FALSE]
           \/ settings' = calls[c].snap \/ settings' = settings
    BY <1>7 DEF SaveTickCli, SaveEnabled, SaveDisabled, SaveCli, UninstallCli, SaveStatus, WriteShims
  <2>2. {TRUE, FALSE, shims} \subseteq BOOLEAN
    BY <1>1 DEF FilesTyped
  <2>3. settings' \in Settings
    <3>1. \A b \in {TRUE, FALSE, shims} : /\ [settings EXCEPT !.cli = b] \in Settings
                                          /\ [calls[c].snap EXCEPT !.cli = b] \in Settings
      BY <2>2
    <3>2. /\ [settings EXCEPT !.background = FALSE] \in Settings /\ calls[c].snap \in Settings
          /\ settings \in Settings
      OBVIOUS
    <3>. QED BY <2>1, <3>1, <3>2, Zenon
  <2>4. shims' \in BOOLEAN
    BY <2>1, <2>2
  <2>. QED BY <1>1, <2>1, <2>3, <2>4 DEF FilesTyped
<1>8. Wipe(c) => FilesTyped'
  BY <1>1 DEF Wipe, FilesTyped
<1>. QED BY <1>2, <1>3, <1>4, <1>5, <1>6, <1>7, <1>8 DEF Piece

LEMMA PieceProcessesTyped ==
    ASSUME TypeInv, NEW c \in Slots, Piece(c)
    PROVE  ProcessesTyped'
<1>1. ProcessesTyped
  BY DEF TypeInv
<1>2. Bootstrap(c) \/ Reconcile(c) \/ Schedule(c) \/ Start(c) \/ AskService(c) \/ Api(c)
         \/ Update(c) \/ UpdateApplied(c) \/ Tick(c) \/ TickApplied(c) \/ SaveTickCli(c)
         \/ Enable(c) \/ SaveEnabled(c) \/ Disable(c) \/ SaveDisabled(c) \/ Wipe(c) \/ Repair(c)
         \/ SaveCli(c) \/ UninstallCli(c) \/ CliStatus(c) \/ SaveStatus(c) \/ Copy(c) \/ RunInit(c)
         => UNCHANGED <<service, children>>
  BY DEF Bootstrap, Reconcile, Schedule, Start, AskService, Api, Update, UpdateApplied, Tick,
         TickApplied, SaveTickCli, Enable, SaveEnabled, Disable, SaveDisabled, Wipe, Repair,
         SaveCli, UninstallCli, CliStatus, SaveStatus, Copy, RunInit
<1>3. UNCHANGED <<service, children>> => ProcessesTyped'
  BY <1>1 DEF service, children, ProcessesTyped
<1>4. Stop(c) \/ Restart(c) \/ Remove(c) => ProcessesTyped'
  <2>1. Stop(c) \/ Restart(c) \/ Remove(c) => StopTemporary /\ UNCHANGED <<service, current, init>>
    BY DEF Stop, Restart, Remove
  <2>. QED BY <1>1, <2>1, StopTemporaryFacts DEF service, ProcessesTyped, NodeStates, SupRecords
<1>5. ASSUME Spawn(c) PROVE ProcessesTyped'
  <2>1. UNCHANGED <<service, node>>
    BY <1>5 DEF Spawn
  <2>2. CASE UNCHANGED <<current, sup, init, mine>>
    BY <1>1, <2>1, <2>2 DEF service, ProcessesTyped
  <2>3. CASE Spawned(c)
    <3>1. PICK i \in Supervisors :
             /\ current' = i
             /\ sup' = [sup EXCEPT ![i] = [status |-> "starting", child |-> FALSE]]
             /\ init' = [init EXCEPT ![i] = "running"]
      BY <2>3 DEF Spawned, Unused
    <3>2. current' \in 0..MaxStarts
      BY <3>1 DEF Supervisors
    <3>. QED BY <1>1, <2>1, <3>1, <3>2 DEF service, ProcessesTyped
  <2>. QED BY <1>5, <2>2, <2>3, SpawnMoves
<1>6. ASSUME Supervise(c) PROVE ProcessesTyped'
  <2>. DEFINE i == calls[c].sup
  <2>1. /\ init' = [init EXCEPT ![i] = "none"]
        /\ node' = node \/ node' = [node EXCEPT ![i] = "starting"]
        /\ \/ sup' = [sup EXCEPT ![i] = [status |-> "running", child |-> TRUE]]
           \/ sup' = [sup EXCEPT ![i].status = "error"]
        /\ UNCHANGED <<service, current>>
    BY <1>6 DEF Supervise
  <2>2. sup' \in [Supervisors -> SupRecords]
    <3>1. sup \in [Supervisors -> SupRecords] /\ [status |-> "running", child |-> TRUE] \in SupRecords
      BY <1>1 DEF ProcessesTyped, SupRecords
    <3>2. \A j \in Supervisors : [sup[j] EXCEPT !.status = "error"] \in SupRecords
      BY <3>1 DEF SupRecords
    <3>. QED BY <2>1, <3>1, <3>2
  <2>3. /\ init' \in [Supervisors -> {"none", "running", "succeeded", "failed"}]
        /\ node' \in [Supervisors -> {"none", "starting", "serving", "stopping"}]
    BY <1>1, <2>1 DEF ProcessesTyped
  <2>. QED BY <1>1, <2>1, <2>2, <2>3 DEF service, ProcessesTyped, SupRecords
<1>7. ASSUME Register(c) \/ StartUnit(c) \/ StopUnit(c) \/ Unregister(c)
      PROVE  ProcessesTyped'
  <2>1.    /\ \/ unit' = unit
              \/ unit' = [unit EXCEPT !.registered = TRUE]
              \/ unit' = [unit EXCEPT !.active = TRUE]
              \/ unit' = [unit EXCEPT !.active = FALSE]
              \/ unit' = [registered |-> FALSE, active |-> FALSE]
              \/ \E kept \in {FALSE, unit.registered}, runs \in {FALSE, unit.active} :
                    unit' = [registered |-> kept, active |-> runs]
           /\ osNode' = osNode \/ osNode' = "none"
           /\ UNCHANGED children
    BY <1>7 DEF Register, StartUnit, StopUnit, Unregister
  <2>2. unit' \in [registered : BOOLEAN, active : BOOLEAN]
    <3>1. PICK u : u = unit
      OBVIOUS
    <3>2. /\ u \in [registered : BOOLEAN, active : BOOLEAN]
          /\ [u EXCEPT !.registered = TRUE] \in [registered : BOOLEAN, active : BOOLEAN]
          /\ \A kept \in {FALSE, u.registered}, runs \in {FALSE, u.active} :
                [registered |-> kept, active |-> runs] \in [registered : BOOLEAN, active : BOOLEAN]
          /\ [u EXCEPT !.active = TRUE] \in [registered : BOOLEAN, active : BOOLEAN]
          /\ [u EXCEPT !.active = FALSE] \in [registered : BOOLEAN, active : BOOLEAN]
          /\ [registered |-> FALSE, active |-> FALSE] \in [registered : BOOLEAN, active : BOOLEAN]
      BY <1>1, <3>1 DEF ProcessesTyped
    <3>. QED BY <2>1, <3>1, <3>2
  <2>. QED BY <1>1, <2>1, <2>2 DEF children, ProcessesTyped
<1>. QED BY <1>2, <1>3, <1>4, <1>5, <1>6, <1>7 DEF Piece

LEMMA PieceHistoryTyped ==
    ASSUME TypeInv, NEW c \in Slots, Piece(c)
    PROVE  /\ HistoryTyped' /\ overlapped' = overlapped
<1>1. HistoryTyped /\ settings.background \in BOOLEAN
  BY DEF TypeInv, FilesTyped, Settings
<1>2. Schedule(c) \/ Start(c) \/ Restart(c) \/ Api(c)
         \/ Update(c) \/ UpdateApplied(c) \/ Tick(c) \/ TickApplied(c) \/ SaveTickCli(c)
         \/ Enable(c) \/ Disable(c) \/ SaveDisabled(c) \/ Remove(c) \/ Wipe(c)
         \/ SaveCli(c) \/ CliStatus(c) \/ SaveStatus(c) \/ Copy(c)
         => UNCHANGED <<history, counts>>
  BY DEF Schedule, Start, Restart, Api, Update, UpdateApplied, Tick,
         TickApplied, SaveTickCli, Enable, Disable, SaveDisabled, Remove, Wipe,
         SaveCli, CliStatus, SaveStatus, Copy
<1>3. UNCHANGED <<history, counts>> => HistoryTyped' /\ overlapped' = overlapped
  BY <1>1 DEF history, counts, HistoryTyped
<1>7. ASSUME Bootstrap(c) \/ SaveEnabled(c) \/ Repair(c)
      PROVE  HistoryTyped' /\ overlapped' = overlapped
  <2>1. /\ leftover' = leftover \ {"cli"}
        /\ UNCHANGED <<mine, late, overlapped, excused, begun, faults, sessions>>
    BY <1>7 DEF Bootstrap, SaveEnabled, Repair, WriteShims, counts
  <2>. QED BY <1>1, <2>1 DEF HistoryTyped
<1>8. ASSUME Supervise(c)
      PROVE  HistoryTyped' /\ overlapped' = overlapped
  <2>1. /\ UNCHANGED <<mine, leftover, overlapped, excused, begun, faults, sessions>>
        /\ late' = late \/ late' = late \cup {calls[c].sup}
    BY <1>8 DEF Supervise, counts
  <2>2. calls[c].sup \in 0..MaxStarts
    BY DEF TypeInv, CallRecords
  <2>. QED BY <1>1, <2>1, <2>2 DEF HistoryTyped
<1>9. ASSUME UninstallCli(c)
      PROVE  HistoryTyped' /\ overlapped' = overlapped
  <2>1. /\ UNCHANGED <<mine, late, overlapped, excused, begun, sessions>>
        /\ leftover' = leftover \/ leftover' = leftover \cup {"cli"}
        /\ faults' = faults \/ faults' = faults + 1
    BY <1>9 DEF UninstallCli, Fault
  <2>2. leftover' \in SUBSET {"cli", "unit"} /\ faults' \in Nat
    <3>1. leftover \subseteq {"cli", "unit"} /\ faults \in Nat
      BY <1>1 DEF HistoryTyped
    <3>2. faults' \in Nat
      BY <2>1, <3>1
    <3>3. leftover' \subseteq {"cli", "unit"}
      BY <2>1, <3>1, Zenon
    <3>. QED BY <3>2, <3>3
  <2>3. /\ mine' = mine /\ late' = late /\ overlapped' = overlapped /\ excused' = excused
        /\ begun' = begun /\ sessions' = sessions
    BY <2>1
  <2>4. /\ mine' \in SUBSET Supervisors /\ late' \in SUBSET (0..MaxStarts)
        /\ overlapped' \in BOOLEAN /\ excused' \in BOOLEAN
    BY <1>1, <2>3, Zenon DEF HistoryTyped
  <2>5. begun' \in Nat /\ sessions' \in Nat
    BY <1>1, <2>3 DEF HistoryTyped
  <2>. QED BY <2>2, <2>3, <2>4, <2>5, Zenon DEF HistoryTyped
<1>4. Reconcile(c) \/ AskService(c) \/ Stop(c) => HistoryTyped' /\ overlapped' = overlapped
  <2>1. (Reachable /\ ~Serving) \in BOOLEAN
    OBVIOUS
  <2>2. Reconcile(c) \/ AskService(c) \/ Stop(c) =>
           excused' \in BOOLEAN /\ UNCHANGED <<mine, late, leftover, overlapped, counts>>
    BY <1>1, <2>1 DEF Reconcile, AskService, Stop, LooksServed, HistoryTyped
  <2>. QED BY <1>1, <2>2 DEF counts, HistoryTyped
<1>5. Spawn(c) => HistoryTyped' /\ overlapped' = overlapped
  BY <1>1 DEF Spawn, Unused, counts, HistoryTyped
<1>6. ASSUME RunInit(c) \/ Register(c) \/ StartUnit(c) \/ StopUnit(c) \/ Unregister(c)
      PROVE  HistoryTyped' /\ overlapped' = overlapped
  <2>1. /\ excused' \in {TRUE, FALSE, excused} /\ (faults' = faults \/ faults' = faults + 1)
        /\ UNCHANGED <<mine, late, overlapped, begun, sessions>>
        /\ leftover' \in {leftover, leftover \ {"unit"}, leftover \cup {"unit"}}
    BY <1>6 DEF RunInit, Register, StartUnit, StopUnit, Unregister, Fault
  <2>2. excused' \in BOOLEAN
    <3>1. excused \in BOOLEAN
      BY <1>1 DEF HistoryTyped
    <3>. QED BY <2>1, <3>1, Zenon
  <2>3. faults' \in Nat
    BY <1>1, <2>1 DEF HistoryTyped
  <2>. QED BY <1>1, <2>1, <2>2, <2>3 DEF HistoryTyped
<1>. QED BY <1>2, <1>3, <1>4, <1>5, <1>6, <1>7, <1>8, <1>9 DEF Piece

LEMMA PieceTyped ==
    ASSUME TypeInv, NEW c \in Slots, Piece(c)
    PROVE  TypeInv'
<1>1. PICK steps, snap : Moved(c, steps, snap)
  BY PieceMoves
<1>2. (calls \in [Slots -> CallRecords])' /\ \A d \in Slots : CallShape(d)'
  BY <1>1, PieceRuns, MovedTyped
<1>3. ClosedShape'
  BY PieceRuns DEF ClosedShape
<1>. QED BY <1>2, <1>3, PieceFilesTyped, PieceProcessesTyped, PieceHistoryTyped DEF TypeInv

(* The slot taken by a new call is free.                                   *)
LEMMA FreeSlotIsFree ==
    ASSUME NEW c \in Slots, c = FreeSlot
    PROVE  calls[c].op = "none"
<1>. DEFINE Less == {ss \in Nat \X Nat : ss[1] < ss[2]}
<1>1. IsWellFoundedOn(Less, Nat)
  <2>1. OpToRel(<, Nat) = Less
    BY Zenon DEF OpToRel
  <2>. QED BY <2>1, NatLessThanWellFounded, Zenon
<1>2. Free \subseteq Nat /\ Free # {}
  BY DEF Free, Slots, FreeSlot
<1>3. PICK n \in Free : \A m \in Free : ~(<<m, n>> \in Less)
  <2>. HIDE DEF Less
  <2>. QED BY <1>1, <1>2, WFMin
<1>4. \A m \in Free : n <= m
  <2>. SUFFICES ASSUME NEW m \in Free PROVE n <= m
    OBVIOUS
  <2>1. m \in Nat /\ n \in Nat /\ <<m, n>> \in Nat \X Nat /\ <<m, n>>[1] = m /\ <<m, n>>[2] = n
    BY <1>2
  <2>2. ~(m < n)
    BY <1>3, <2>1, Zenon
  <2>. QED BY <2>1, <2>2
<1>5. FreeSlot \in Free
  BY <1>2, <1>4 DEF FreeSlot
<1>. QED BY <1>5 DEF Free

(* A call that begins has one step, its own.                               *)
Opened(c, op) ==
    /\ calls[c].op = "none"
    /\ calls' \in [Slots -> CallRecords]
    /\ \A d \in Slots \ {c} : calls'[d] = calls[d]
    /\ calls'[c].op = op /\ calls'[c].todo = <<op>> /\ calls'[c].snap = Defaults
    /\ Plan(calls'[c].todo, {op})

LEMMA OpenedTyped ==
    ASSUME TypeInv, NEW c \in Slots, NEW op \in UserCalls \cup {"tick", "bootstrap"},
           c = FreeSlot,
           calls' = [calls EXCEPT ![c] = [NoCall EXCEPT !.op = op, !.todo = <<op>>]]
    PROVE  /\ Opened(c, op)
           /\ app'.on => (calls \in [Slots -> CallRecords])' /\ \A d \in Slots : CallShape(d)'
<1>. DEFINE n == [NoCall EXCEPT !.op = op, !.todo = <<op>>]
<1>1. op \in StepNames /\ op \in Ops /\ op # "none"
  BY DEF StepNames, Ops, UserCalls
<1>2. /\ n \in CallRecords /\ n.op = op /\ n.todo = <<op>> /\ n.snap = Defaults
  <2>1. <<op>> \in Seq(StepNames)
    BY <1>1
  <2>2. PICK k : k = NoCall
    OBVIOUS
  <2>3. k \in CallRecords /\ k.snap = Defaults /\ n = [k EXCEPT !.op = op, !.todo = <<op>>]
    BY <2>2, NoCallTyped DEF NoCall
  <2>. HIDE DEF n
  <2>. QED BY <1>1, <2>1, <2>3 DEF CallRecords
<1>. HIDE DEF n
<1>3. calls \in [Slots -> CallRecords] /\ calls' = [calls EXCEPT ![c] = n]
  BY DEF TypeInv, n
<1>4. /\ calls' \in [Slots -> CallRecords] /\ calls'[c] = n
      /\ \A d \in Slots \ {c} : calls'[d] = calls[d]
  BY <1>2, <1>3
<1>5. Plan(<<op>>, {op}) /\ <<op>> # <<>>
  BY <1>1, SinglePlan
<1>6. Opened(c, op)
  BY <1>2, <1>4, <1>5, FreeSlotIsFree DEF Opened
<1>7. ASSUME app'.on PROVE \A d \in Slots : CallShape(d)'
  <2>1. CallShape(c)'
    BY <1>1, <1>2, <1>4, <1>5, <1>7 DEF CallShape, Plan
  <2>2. ASSUME NEW d \in Slots, d # c PROVE CallShape(d)'
    BY <1>4, <1>7, <2>2 DEF CallShape, TypeInv
  <2>. QED BY <2>1, <2>2
<1>. QED BY <1>4, <1>6, <1>7

(* A quit or a crash forgets every call and every supervisor.              *)
LEMMA ForgetTyped ==
    ASSUME TypeInv, Forget
    PROVE  /\ calls' \in [Slots -> CallRecords] /\ \A d \in Slots : CallShape(d)'
           /\ \A d \in Slots : calls'[d] = NoCall
           /\ current' = 0 /\ ~app'.on /\ app'.bundled = app.bundled
           /\ mine' = {} /\ late' = {} /\ app'.quitting = "no"
           /\ app' \in AppRecords
           /\ current' \in 0..MaxStarts
           /\ sup' \in [Supervisors -> SupRecords]
           /\ init' \in [Supervisors -> {"none", "running", "succeeded", "failed"}]
<1>1. app \in AppRecords
  BY DEF TypeInv, FilesTyped
<1>2. /\ calls' \in [Slots -> CallRecords] /\ \A d \in Slots : calls'[d] = NoCall
  BY NoCallTyped DEF Forget
<1>3. \A d \in Slots : CallShape(d)'
  BY <1>2, NoCallTyped DEF CallShape, NoCall, Plan
<1>4. /\ current' = 0 /\ ~app'.on /\ app'.bundled = app.bundled
      /\ mine' = {} /\ late' = {} /\ app'.quitting = "no"
      /\ app' \in AppRecords
  BY <1>1 DEF Forget, AppRecords
<1>5. /\ sup' \in [Supervisors -> SupRecords]
      /\ init' \in [Supervisors -> {"none", "running", "succeeded", "failed"}]
  BY DEF Forget, SupRecords
<1>. QED BY <1>2, <1>3, <1>4, <1>5

(* A node that exits is gone; its supervisor's status tells why, if it     *)
(* still holds the child.                                                  *)
LEMMA ChildExitsFacts ==
    ASSUME TypeInv, NEW i \in Supervisors, NEW status \in {"stopped", "error"},
           ChildExits(i, status)
    PROVE  /\ node' \in [Supervisors -> NodeStates] /\ sup' \in [Supervisors -> SupRecords]
           /\ node'[i] = "none" /\ \A o \in Supervisors \ {i} : node'[o] = node[o] /\ sup'[o] = sup[o]
<1>1. node \in [Supervisors -> NodeStates] /\ sup \in [Supervisors -> SupRecords]
  BY DEF TypeInv, ProcessesTyped, NodeStates, SupRecords
<1>2. [sup[i] EXCEPT !.status = status] \in SupRecords /\ "none" \in NodeStates
  BY <1>1 DEF SupRecords, NodeStates
<1>3. node' = [node EXCEPT ![i] = "none"]
      /\ (sup' = sup \/ sup' = [sup EXCEPT ![i] = [sup[i] EXCEPT !.status = status]])
  BY DEF ChildExits
<1>. QED BY <1>1, <1>2, <1>3

LEMMA CallsKept ==
    ASSUME TypeInv, UNCHANGED calls, app'.on = app.on
    PROVE  (calls \in [Slots -> CallRecords])' /\ \A d \in Slots : CallShape(d)'
  BY DEF TypeInv, CallShape

LEMMA OtherTyped ==
    ASSUME TypeInv
    PROVE  /\ \A c \in Slots, op \in UserCalls \cup {"tick"} : Begin(c, op) => TypeInv'
           /\ \A c \in Slots : Launch(c) => TypeInv'
           /\ \A i \in Supervisors : Process(i) \/ NodeDies(i) => TypeInv'
           /\ Service \/ Upgrade => TypeInv'
<1>1. FilesTyped /\ ProcessesTyped /\ HistoryTyped
  BY DEF TypeInv
<1>2. ASSUME NEW c \in Slots, NEW op \in UserCalls \cup {"tick"}, Begin(c, op)
      PROVE  TypeInv'
  <2>1. app.on /\ app' = app
    BY <1>2 DEF Begin
  <2>2. (calls \in [Slots -> CallRecords])' /\ \A d \in Slots : CallShape(d)'
    BY <1>2, <2>1, OpenedTyped DEF Begin
  <2>3. FilesTyped' /\ ProcessesTyped'
    BY <1>1, <1>2 DEF Begin, files, service, children, FilesTyped, ProcessesTyped
  <2>4. HistoryTyped' /\ ClosedShape'
    <3>1. overlapped' \in BOOLEAN
      BY <1>2 DEF Begin
    <3>2. UNCHANGED <<mine, late, leftover, excused, faults, sessions>> /\ begun' = begun + 1
      BY <1>2 DEF Begin
    <3>. QED BY <1>1, <2>1, <3>1, <3>2 DEF HistoryTyped, ClosedShape
  <2>. QED BY <2>2, <2>3, <2>4 DEF TypeInv
<1>3. ASSUME NEW c \in Slots, Launch(c)
      PROVE  TypeInv'
  <2>1. app' \in AppRecords /\ app'.on
    BY <1>1, <1>3 DEF Launch, FilesTyped, AppRecords
  <2>2. (calls \in [Slots -> CallRecords])' /\ \A d \in Slots : CallShape(d)'
    BY <1>3, <2>1, OpenedTyped DEF Launch
  <2>3. FilesTyped' /\ ProcessesTyped'
    BY <1>1, <1>3, <2>1 DEF Launch, files, service, children, FilesTyped, ProcessesTyped
  <2>4. HistoryTyped' /\ ClosedShape'
    BY <1>1, <1>3, <2>1 DEF Launch, history, HistoryTyped, ClosedShape
  <2>. QED BY <2>2, <2>3, <2>4 DEF TypeInv
<1>4. ASSUME NEW i \in Supervisors, Process(i) \/ NodeDies(i)
      PROVE  TypeInv'
  <2>1. /\ UNCHANGED <<app, files, calls, mine, late, leftover, overlapped, osNode, current>>
        /\ excused' = excused \/ excused' = TRUE
        /\ UNCHANGED <<begun, sessions>>
        /\ faults' = faults \/ faults' = faults + 1
    BY <1>4 DEF Process, InitExits, NodeStarts, NodeExits, NodeDies, Fault, service, history, counts
  <2>2. FilesTyped' /\ HistoryTyped' /\ (calls \in [Slots -> CallRecords])'
        /\ \A d \in Slots : CallShape(d)'
    <3>1. FilesTyped'
      BY <1>1, <2>1 DEF files, FilesTyped
    <3>2. HistoryTyped'
      <4>1. /\ overlapped' \in BOOLEAN /\ excused' \in BOOLEAN /\ mine' \in SUBSET Supervisors
            /\ late' \in SUBSET (0..MaxStarts) /\ leftover' \in SUBSET {"cli", "unit"}
        BY <1>1, <2>1, Zenon DEF HistoryTyped
      <4>2. begun' \in Nat /\ faults' \in Nat /\ sessions' \in Nat
        BY <1>1, <2>1 DEF HistoryTyped
      <4>. QED BY <4>1, <4>2, Zenon DEF HistoryTyped
    <3>. QED BY <2>1, <3>1, <3>2, CallsKept
  <2>3. unit' \in [registered : BOOLEAN, active : BOOLEAN]
    <3>1. unit' = unit \/ unit' = ControlBackground
      BY <1>4 DEF Process, InitExits, NodeStarts, NodeExits, NodeDies, service
    <3>2. unit \in [registered : BOOLEAN, active : BOOLEAN] /\ settings.background \in BOOLEAN
      BY <1>1 DEF FilesTyped, ProcessesTyped, Settings
    <3>3. ControlBackground \in [registered : BOOLEAN, active : BOOLEAN]
      BY <3>2 DEF ControlBackground, BackgroundMode
    <3>. QED BY <3>1, <3>2, <3>3
  <2>4. init' \in [Supervisors -> {"none", "running", "succeeded", "failed"}]
    BY <1>1, <1>4 DEF Process, InitExits, NodeStarts, NodeExits, NodeDies, ProcessesTyped
  <2>5. node' \in [Supervisors -> NodeStates] /\ sup' \in [Supervisors -> SupRecords]
    <3>1. \/ UNCHANGED <<node, sup>>
          \/ ChildExits(i, "stopped") \/ ChildExits(i, "error")
          \/ node' = [node EXCEPT ![i] = "serving"] /\ UNCHANGED sup
      BY <1>4 DEF Process, InitExits, NodeStarts, NodeExits, NodeDies
    <3>2. node \in [Supervisors -> NodeStates] /\ sup \in [Supervisors -> SupRecords]
      BY <1>1 DEF ProcessesTyped, NodeStates, SupRecords
    <3>3. "serving" \in NodeStates
      BY DEF NodeStates
    <3>. QED BY <3>1, <3>2, <3>3, ChildExitsFacts
  <2>6. ProcessesTyped'
    BY <1>1, <2>1, <2>3, <2>4, <2>5 DEF ProcessesTyped, NodeStates, SupRecords
  <2>7. ClosedShape'
    BY <2>1 DEF TypeInv, ClosedShape
  <2>. QED BY <2>2, <2>6, <2>7 DEF TypeInv
<1>5. ASSUME Service PROVE TypeInv'
  <2>1. UNCHANGED <<app, files, unit, children, calls, history, counts>>
        /\ osNode' \in {"none", "starting", "serving"}
    BY <1>5 DEF Service, ServiceRuns, ServiceStarts
  <2>2. (calls \in [Slots -> CallRecords])' /\ \A d \in Slots : CallShape(d)'
    BY <2>1, CallsKept
  <2>3. FilesTyped' /\ ProcessesTyped' /\ HistoryTyped' /\ ClosedShape'
    BY <1>1, <2>1 DEF files, children, history, counts, FilesTyped, ProcessesTyped, HistoryTyped,
                      ClosedShape, TypeInv
  <2>. QED BY <2>2, <2>3 DEF TypeInv
<1>6. ASSUME Upgrade PROVE TypeInv'
  <2>1. UNCHANGED <<files, service, children, calls, history, counts>>
        /\ app' \in AppRecords /\ app'.on = app.on /\ app'.quitting = app.quitting
    BY <1>1, <1>6 DEF Upgrade, FilesTyped, AppRecords
  <2>2. (calls \in [Slots -> CallRecords])' /\ \A d \in Slots : CallShape(d)'
    BY <2>1, CallsKept
  <2>3. FilesTyped' /\ ProcessesTyped' /\ HistoryTyped' /\ ClosedShape'
    BY <1>1, <2>1 DEF files, service, children, history, counts, FilesTyped, ProcessesTyped,
                      HistoryTyped, ClosedShape, TypeInv
  <2>. QED BY <2>2, <2>3 DEF TypeInv
<1>. QED BY <1>2, <1>3, <1>4, <1>5, <1>6

(* before-quit stops the supervised node and nothing else.                 *)
LEMMA QuitFacts ==
    ASSUME TypeInv, Quit
    PROVE  /\ TypeInv'
           /\ app.on /\ app'.on /\ app'.bundled = app.bundled /\ StopTemporary
           /\ app'.quitting = "temporary" <=> ~settings.background
           /\ UNCHANGED <<settings, runtime, shims, unit, osNode, current, init, calls, mine, late,
                          leftover, overlapped, excused, faults>>
<1>1. FilesTyped /\ ProcessesTyped /\ HistoryTyped /\ app \in AppRecords
  BY DEF TypeInv, FilesTyped
<1>2. UNCHANGED <<files, service, current, init, calls, history, counts>> /\ StopTemporary
  BY DEF Quit
<1>3. /\ app.on /\ app'.on /\ app'.bundled = app.bundled /\ app' \in AppRecords
      /\ app'.quitting = "temporary" <=> ~settings.background
  BY <1>1 DEF Quit, Quitting, AppRecords
<1>4. (calls \in [Slots -> CallRecords])' /\ \A d \in Slots : CallShape(d)'
  BY <1>2, <1>3, CallsKept
<1>5. FilesTyped' /\ HistoryTyped' /\ ClosedShape'
  BY <1>1, <1>2, <1>3 DEF files, history, counts, FilesTyped, HistoryTyped, ClosedShape
<1>6. ProcessesTyped'
  BY <1>1, <1>2, StopTemporaryFacts DEF service, ProcessesTyped, NodeStates, SupRecords
<1>. QED BY <1>2, <1>3, <1>4, <1>5, <1>6 DEF TypeInv, files, service, history, counts

(* The ways a session ends.                                                *)
Ends == Exit \/ Crash \/ \E c \in Slots : CrashInCopy(c) \/ CrashInUninstall(c)

LEMMA EndTyped ==
    ASSUME TypeInv, Ends
    PROVE  /\ TypeInv'
           /\ Forget /\ CutShort
           /\ UNCHANGED <<service, node, overlapped>>
           /\ \/ UNCHANGED <<shims, leftover>>
              \/ shims' = FALSE /\ leftover' = leftover \cup {"cli"}
           /\ settings' = settings \/ settings' = [settings EXCEPT !.background = TRUE]
           /\ runtime' = runtime \/ runtime' = [runtime EXCEPT !.file = app.bundled]
<1>1. FilesTyped /\ ProcessesTyped /\ HistoryTyped
  BY DEF TypeInv
<1>2. /\ Forget /\ CutShort
      /\ UNCHANGED <<service, node, overlapped, begun, sessions>>
      /\ \/ UNCHANGED <<shims, leftover>>
         \/ shims' = FALSE /\ leftover' = leftover \cup {"cli"}
      /\ settings' = settings \/ settings' = [settings EXCEPT !.background = TRUE]
      /\ runtime' = runtime \/ runtime' = [runtime EXCEPT !.file = app.bundled]
      /\ faults' = faults \/ faults' = faults + 1
  BY DEF Ends, Exit, Crash, CrashInCopy, CrashInUninstall, Fault, files, counts
<1>4. FilesTyped'
  <2>1. app \in AppRecords /\ app.bundled \in Nat /\ settings \in Settings
        /\ runtime \in [file : Nat, metadata : Nat] /\ shims \in BOOLEAN
    BY <1>1 DEF FilesTyped, AppRecords
  <2>2. settings' \in Settings
    BY <1>2, <2>1 DEF Settings
  <2>3. runtime' \in [file : Nat, metadata : Nat] /\ shims' \in BOOLEAN
    BY <1>2, <2>1
  <2>. QED BY <1>2, <2>2, <2>3, ForgetTyped DEF FilesTyped
<1>5. ProcessesTyped'
  BY <1>1, <1>2, ForgetTyped DEF service, ProcessesTyped, SupRecords
<1>6. HistoryTyped' /\ ClosedShape'
  <2>1. excused' \in BOOLEAN
    BY <1>1, <1>2 DEF CutShort, HistoryTyped
  <2>. QED BY <1>1, <1>2, <2>1, ForgetTyped DEF HistoryTyped, ClosedShape
<1>. QED BY <1>2, <1>4, <1>5, <1>6, ForgetTyped DEF TypeInv

LEMMA InitTyped ==
    ASSUME Init
    PROVE  TypeInv
<1>1. FilesTyped
  <2>1. /\ app = [on |-> FALSE, bundled |-> 1, timer |-> "none", quitting |-> "no"]
        /\ settings = Defaults
        /\ runtime = [file |-> 0, metadata |-> 0] /\ shims = FALSE
    BY DEF Init
  <2>2. [on |-> FALSE, bundled |-> 1, timer |-> "none", quitting |-> "no"] \in AppRecords
    BY DEF AppRecords
  <2>. QED BY <2>1, <2>2 DEF FilesTyped, Settings, Defaults
<1>2. ProcessesTyped /\ HistoryTyped
  <2>1. /\ unit = [registered |-> FALSE, active |-> FALSE] /\ osNode = "none" /\ current = 0
        /\ sup = [i \in Supervisors |-> [status |-> "stopped", child |-> FALSE]]
        /\ init = [i \in Supervisors |-> "none"] /\ node = [i \in Supervisors |-> "none"]
    BY DEF Init
  <2>2. /\ mine = {} /\ late = {} /\ leftover = {} /\ overlapped = FALSE /\ excused = FALSE
        /\ begun = 0 /\ faults = 0 /\ sessions = 0
    BY DEF Init
  <2>3. ProcessesTyped
    BY <2>1 DEF ProcessesTyped
  <2>. QED BY <2>2, <2>3 DEF HistoryTyped
<1>3. calls \in [Slots -> CallRecords] /\ \A c \in Slots : calls[c] = NoCall
  BY NoCallTyped DEF Init
<1>4. \A c \in Slots : CallShape(c)
  BY <1>3, NoCallTyped DEF CallShape, NoCall, Plan
<1>5. ClosedShape
  BY DEF Init, ClosedShape
<1>. QED BY <1>1, <1>2, <1>3, <1>4, <1>5 DEF TypeInv

LEMMA StutterTyped ==
    ASSUME TypeInv, UNCHANGED vars
    PROVE  TypeInv'
<1>1. /\ FilesTyped' /\ ProcessesTyped' /\ HistoryTyped' /\ ClosedShape'
      /\ app' = app /\ calls' = calls
  BY DEF TypeInv, vars, files, service, children, history, counts, FilesTyped, ProcessesTyped,
         HistoryTyped, ClosedShape
<1>. QED BY <1>1, CallsKept DEF TypeInv

LEMMA NextTyped ==
    ASSUME TypeInv, [Next]_vars
    PROVE  TypeInv'
  BY PieceTyped, OtherTyped, QuitFacts, EndTyped, StutterTyped DEF Next, Ends

(* Every variable keeps its type, a call in progress has steps left, in an *)
(* order the code takes them, and a stopped app has no call.               *)
THEOREM TypeCorrect == Spec => []TypeInv
<1>1. Init => TypeInv
  BY InitTyped
<1>2. TypeInv /\ [Next]_vars => TypeInv'
  BY NextTyped
<1>. QED BY <1>1, <1>2, PTL DEF Spec

-----------------------------------------------------------------------------
(***************************************************************************)
(* The installed runtime.                                                  *)
(***************************************************************************)

(* Metadata never runs ahead of the bundle: it is written from it, after   *)
(* the file.                                                               *)
InstalledInv == runtime.metadata <= app.bundled /\ CurrentIsInstalled

LEMMA InstalledNext ==
    ASSUME TypeInv, InstalledInv, [Next]_vars
    PROVE  InstalledInv'
<1>1. /\ app \in AppRecords /\ app.bundled \in Nat \ {0}
      /\ runtime \in [file : Nat, metadata : Nat]
      /\ runtime.metadata <= app.bundled
      /\ runtime.metadata = app.bundled => runtime.file = app.bundled
  BY DEF TypeInv, FilesTyped, AppRecords, InstalledInv, CurrentIsInstalled
<1>2. CASE app'.bundled = app.bundled /\ runtime' = runtime
  BY <1>1, <1>2 DEF InstalledInv, CurrentIsInstalled
<1>3. CASE app'.bundled = app.bundled /\ runtime' \in {Installed, [file |-> 0, metadata |-> 0]}
  BY <1>1, <1>3 DEF Installed, InstalledInv, CurrentIsInstalled
<1>4. CASE app'.bundled = app.bundled /\ runtime' = [runtime EXCEPT !.file = app.bundled]
  BY <1>1, <1>4 DEF InstalledInv, CurrentIsInstalled
<1>5. CASE app'.bundled = app.bundled + 1 /\ runtime' = runtime
  BY <1>1, <1>5 DEF InstalledInv, CurrentIsInstalled
<1>6. ASSUME NEW c \in Slots, Piece(c)
      PROVE  app'.bundled = app.bundled /\ runtime' \in {runtime, Installed, [file |-> 0, metadata |-> 0]}
  <2>1. app'.bundled = app.bundled
    BY <1>6, PieceApp
  <2>2. Bootstrap(c) \/ Enable(c) \/ Repair(c) \/ Copy(c) \/ Wipe(c) \/ runtime' = runtime
    BY <1>6 DEF Piece, Reconcile, Schedule, Start, Stop, Restart, Spawn, Supervise,
           AskService, Api, Update, UpdateApplied, Tick, TickApplied, SaveTickCli,
           SaveEnabled, Disable, SaveDisabled, Remove, SaveCli, UninstallCli,
           CliStatus, SaveStatus, RunInit, Register, StartUnit, StopUnit, Unregister, files
  <2>3. Bootstrap(c) \/ Enable(c) \/ Repair(c) \/ Copy(c) \/ Wipe(c) =>
           runtime' \in {runtime, Installed, [file |-> 0, metadata |-> 0]}
    BY DEF Bootstrap, Enable, Repair, Copy, Wipe, CopyOrUpdate
  <2>. QED BY <1>1, <2>1, <2>2, <2>3
<1>7. ASSUME Quit \/ Ends
      PROVE  /\ app'.bundled = app.bundled
             /\ runtime' = runtime \/ runtime' = [runtime EXCEPT !.file = app.bundled]
  BY <1>7, QuitFacts, EndTyped, ForgetTyped
<1>8. ASSUME NEW c \in Slots, Launch(c) \/ \E op \in UserCalls \cup {"tick"} : Begin(c, op)
      PROVE  app'.bundled = app.bundled /\ runtime' = runtime
  BY <1>1, <1>8 DEF Launch, Begin, files, AppRecords
<1>9. ASSUME NEW i \in Supervisors, Process(i) \/ NodeDies(i)
      PROVE  app'.bundled = app.bundled /\ runtime' = runtime
  BY <1>9 DEF Process, InitExits, NodeStarts, NodeExits, NodeDies, files
<1>10. ASSUME Service \/ UNCHANGED vars
       PROVE  app'.bundled = app.bundled /\ runtime' = runtime
  BY <1>10 DEF Service, ServiceRuns, ServiceStarts, vars, files
<1>11. ASSUME Upgrade
       PROVE  app'.bundled = app.bundled + 1 /\ runtime' = runtime
  BY <1>1, <1>11 DEF Upgrade, files, AppRecords
<1>. QED BY <1>2, <1>3, <1>4, <1>5, <1>6, <1>7, <1>8, <1>9, <1>10, <1>11 DEF Next, Ends

(* What an update check takes for current is what is installed, whenever   *)
(* the app died.                                                           *)
THEOREM CurrentInstalled == Spec => []CurrentIsInstalled
<1>1. Init => TypeInv /\ InstalledInv
  <2>1. Init => /\ app = [on |-> FALSE, bundled |-> 1, timer |-> "none", quitting |-> "no"]
                /\ runtime = [file |-> 0, metadata |-> 0]
    BY DEF Init
  <2>. QED BY <2>1, InitTyped DEF InstalledInv, CurrentIsInstalled
<1>2. TypeInv /\ InstalledInv /\ [Next]_vars => (TypeInv /\ InstalledInv)'
  BY NextTyped, InstalledNext
<1>3. InstalledInv => CurrentIsInstalled
  BY DEF InstalledInv
<1>. QED BY <1>1, <1>2, <1>3, PTL DEF Spec

-----------------------------------------------------------------------------
(***************************************************************************)
(* Calls made one at a time.                                               *)
(***************************************************************************)
Busy(c) == calls[c].op # "none"
AloneInv == ~overlapped => \A c, d \in Slots : Busy(c) /\ Busy(d) => c = d

(* What a piece, and the steps of the others, do to the calls.             *)
LEMMA SoleCall ==
    ASSUME AloneInv, ~overlapped, NEW c \in Slots, Busy(c), NEW steps, NEW snap,
           Moved(c, steps, snap)
    PROVE  \A d \in Slots \ {c} : ~Busy(d) /\ calls'[d] = calls[d] /\ calls'[d].op = "none"
  BY DEF AloneInv, Busy, Moved

LEMMA MovedAhead ==
    ASSUME NEW c, NEW steps, NEW snap, Moved(c, steps, snap)
    PROVE  /\ Ahead(c)' = steps
           /\ calls'[c].op = "none" => steps = {}
           /\ calls'[c].op # "none" => calls'[c].op = calls[c].op /\ Snap(c)' = snap
<1>1. Ahead(c)' = steps
  BY DEF Moved, Plan, Ahead
<1>2. calls'[c].op = "none" => steps = {}
  BY DEF Moved, Plan, StepsOf
<1>3. calls'[c].op # "none" => steps # {}
  BY DEF Moved, NoCall
<1>. QED BY <1>1, <1>2, <1>3 DEF Moved, Snap

LEMMA NothingAhead ==
    ASSUME TypeInv, NEW c \in Slots, ~Busy(c)
    PROVE  Ahead(c) = {} /\ \A h : ~At(c, h)
  BY DEF TypeInv, CallShape, Busy, Ahead, StepsOf, At

LEMMA NothingAheadNext ==
    ASSUME TypeInv', NEW c \in Slots, ~Busy(c)'
    PROVE  Ahead(c)' = {}
  BY DEF TypeInv, CallShape, Busy, Ahead, StepsOf

(* The steps that keep every call as it is.                                *)
LEMMA ProcessKeeps ==
    ASSUME NEW i \in Supervisors, Process(i) \/ NodeDies(i)
    PROVE  UNCHANGED <<app, settings, runtime, shims, osNode, current, calls, mine, late, leftover,
                     overlapped>>
  BY DEF Process, InitExits, NodeStarts, NodeExits, NodeDies, files, service, history, counts

LEMMA RestKeeps ==
    ASSUME Service \/ Upgrade \/ UNCHANGED vars
    PROVE  /\ UNCHANGED <<settings, runtime, shims, unit, current, sup, init, node, calls, mine,
                          late, leftover, overlapped, excused, faults>>
           /\ TypeInv => app'.on = app.on /\ app'.quitting = app.quitting
  BY DEF Service, ServiceRuns, ServiceStarts, Upgrade, vars, files, service, children, history,
         counts, TypeInv, FilesTyped, AppRecords

(* A call begins with the others over, or calls have overlapped.           *)
LEMMA BeginFacts ==
    ASSUME TypeInv, NEW c \in Slots, NEW op \in UserCalls \cup {"tick"}, Begin(c, op)
    PROVE  /\ Opened(c, op) /\ Ahead(c)' = {op}
           /\ overlapped => overlapped'
           /\ ~overlapped' => \A d \in Slots : ~Busy(d)
           /\ UNCHANGED <<app, settings, runtime, shims, unit, osNode, current, sup, init, node,
                          mine, late, leftover, excused, faults>>
           /\ app.on
<1>1. Opened(c, op)
  BY OpenedTyped DEF Begin
<1>2. overlapped' = (overlapped \/ ~Idle)
  BY DEF Begin
<1>3. Idle => \A d \in Slots : ~Busy(d)
  BY DEF Idle, Free, Busy
<1>. QED BY <1>1, <1>2, <1>3 DEF Begin, files, service, children, Opened, Plan, Ahead

LEMMA LaunchFacts ==
    ASSUME TypeInv, NEW c \in Slots, Launch(c)
    PROVE  /\ Opened(c, "bootstrap") /\ Ahead(c)' = {"bootstrap"}
           /\ \A d \in Slots : ~Busy(d)
           /\ UNCHANGED <<settings, runtime, shims, unit, osNode, current, sup, init, node,
                          late, leftover, overlapped, excused, faults>>
           /\ ~app.on /\ app'.on /\ app'.quitting = "no" /\ mine' = {}
<1>1. Opened(c, "bootstrap")
  BY OpenedTyped DEF Launch
<1>2. \A d \in Slots : ~Busy(d)
  BY DEF Launch, TypeInv, CallShape, NoCall, Busy
<1>3. ~app.on /\ app'.on /\ app'.quitting = "no" /\ mine' = {}
  BY DEF Launch, history, TypeInv, FilesTyped, AppRecords, ClosedShape
<1>. QED BY <1>1, <1>2, <1>3 DEF Launch, files, service, children, history, Opened, Plan, Ahead

LEMMA AloneNext ==
    ASSUME TypeInv, AloneInv, [Next]_vars
    PROVE  AloneInv'
<1>1. ASSUME NEW c \in Slots, Piece(c)
      PROVE  AloneInv'
  <2>1. PICK steps, snap : Moved(c, steps, snap)
    BY <1>1, PieceMoves
  <2>2. overlapped' = overlapped /\ Busy(c)
    BY <1>1, PieceHistoryTyped, PieceRuns DEF Busy
  <2>. QED BY <2>1, <2>2, SoleCall DEF AloneInv, Busy
<1>2. ASSUME NEW c \in Slots, NEW op \in UserCalls \cup {"tick"}, Begin(c, op)
      PROVE  AloneInv'
  <2>1. ~overlapped' => \A d \in Slots \ {c} : ~Busy(d)'
    BY <1>2, BeginFacts DEF Opened, Busy
  <2>. QED BY <2>1 DEF AloneInv
<1>3. ASSUME NEW c \in Slots, Launch(c)
      PROVE  AloneInv'
  <2>1. \A d \in Slots \ {c} : ~Busy(d)'
    BY <1>3, LaunchFacts DEF Opened, Busy
  <2>. QED BY <2>1 DEF AloneInv
<1>4. ASSUME Ends
      PROVE  AloneInv'
  <2>1. \A d \in Slots : ~Busy(d)'
    BY <1>4, EndTyped, ForgetTyped DEF NoCall, Busy
  <2>. QED BY <2>1 DEF AloneInv
<1>5. ASSUME NEW i \in Supervisors, Process(i) \/ NodeDies(i)
      PROVE  AloneInv'
  BY <1>5, ProcessKeeps DEF AloneInv, Busy
<1>6. ASSUME Service \/ Upgrade \/ UNCHANGED vars
      PROVE  AloneInv'
  BY <1>6, RestKeeps DEF AloneInv, Busy
<1>7. Quit => AloneInv'
  BY QuitFacts DEF AloneInv, Busy
<1>. QED BY <1>1, <1>2, <1>3, <1>4, <1>5, <1>6, <1>7 DEF Next, Ends

-----------------------------------------------------------------------------
(***************************************************************************)
(* The settings.                                                           *)
(***************************************************************************)
SnapSteps == {"reconcile", "saveCli", "saveUpdate", "saveEnabled", "saveStatus"}

(* Wrappers back the CLI, unless an uninstall was cut short; a unit is     *)
(* loose unless its removal failed.                                        *)
Covered == shims \/ "cli" \in leftover
Loose == unit.registered /\ "unit" \notin leftover

(* What the settings s, the wrappers (are they there, w) and the unit (is  *)
(* it loose, u) owe to a call that has steps left: the settings it will    *)
(* write back keep the mode, what it will claim is there, and what it will *)
(* deny it removes first.                                                  *)
Owed(steps, op, snap, s, w, u) ==
    /\ steps \cap SnapSteps # {} \/ (op = "bootstrap" /\ "update" \in steps)
          => snap.background = s.background
    /\ "register" \in steps => s.background
    /\ "saveCli" \in steps => w \/ "saveEnabled" \in steps
    /\ "tickCli" \in steps => w
    /\ "saveDisabled" \in steps \/ "wipe" \in steps => ~u \/ "unregister" \in steps

SettingsOwed(c) == Owed(Ahead(c), calls[c].op, Snap(c), settings, Covered, Loose)
SettingsInv ==
    ~overlapped =>
      /\ settings.cli => Covered
      /\ Loose => settings.background
      /\ \A c \in Slots : SettingsOwed(c)

LEMMA NothingOwed ==
    ASSUME NEW op, NEW snap, NEW s, NEW w, NEW u
    PROVE  Owed({}, op, snap, s, w, u)
  BY DEF Owed

(* It is enough to look at the call that moved.                            *)
LEMMA SettingsMoved ==
    ASSUME TypeInv', AloneInv, ~overlapped, NEW c \in Slots, Busy(c),
           NEW steps, NEW snap, Moved(c, steps, snap),
           settings'.cli => Covered', Loose' => settings'.background,
           Owed(steps, calls[c].op, snap, settings', Covered', Loose')
    PROVE  SettingsInv'
<1>1. ASSUME NEW d \in Slots, ~Busy(d)'
      PROVE  SettingsOwed(d)'
  <2>1. Ahead(d)' = {}
    BY <1>1, NothingAheadNext
  <2>. QED BY <2>1, NothingOwed DEF SettingsOwed
<1>2. SettingsOwed(c)'
  BY <1>1, MovedAhead DEF SettingsOwed, Busy
<1>. QED BY <1>1, <1>2, SoleCall DEF SettingsInv, Busy

(* What is known when a step is taken.                                     *)
LEMMA SettingsAt ==
    ASSUME TypeInv, SettingsInv, ~overlapped, NEW c \in Slots, NEW h, At(c, h)
    PROVE  /\ Owed({h} \cup After(c), calls[c].op, Snap(c), settings, Covered, Loose)
           /\ After(c) \subseteq Later(h)
           /\ settings.cli => Covered
           /\ Loose => settings.background
           /\ Busy(c)
  BY AtFacts DEF SettingsInv, SettingsOwed, Busy

Guarded == SnapSteps \cup {"update", "register", "tickCli", "saveDisabled", "wipe"}

(* A piece that writes no settings and plans nothing that needs them.      *)
LEMMA SettingsQuiet ==
    ASSUME TypeInv, TypeInv', AloneInv, SettingsInv, ~overlapped,
           NEW c \in Slots, NEW h, At(c, h), h \notin {"unregister", "saveEnabled"},
           NEW steps, Moved(c, steps, Snap(c)),
           steps = {} \/ After(c) \subseteq steps,
           \A s \in steps : s \in After(c) \/ s \notin Guarded,
           settings' = settings, Covered' = Covered, Loose' = Loose
    PROVE  SettingsInv'
<1>1. Owed(steps, calls[c].op, Snap(c), settings, Covered, Loose')
  BY SettingsAt DEF Owed, Guarded, SnapSteps
<1>. QED BY <1>1, SettingsAt, SettingsMoved

(* The pieces that write settings, wrappers or the unit's registration.    *)
LEMMA SettingsWrites ==
    ASSUME TypeInv, TypeInv', AloneInv, SettingsInv, ~overlapped, NEW c \in Slots
    PROVE  /\ Bootstrap(c) => SettingsInv'
           /\ Update(c) => SettingsInv'
           /\ UpdateApplied(c) => SettingsInv'
           /\ Tick(c) => SettingsInv'
           /\ TickApplied(c) => SettingsInv'
           /\ SaveTickCli(c) => SettingsInv'
           /\ Enable(c) => SettingsInv'
           /\ SaveEnabled(c) => SettingsInv'
           /\ Disable(c) => SettingsInv'
           /\ SaveDisabled(c) => SettingsInv'
           /\ Remove(c) => SettingsInv'
           /\ Wipe(c) => SettingsInv'
           /\ Repair(c) => SettingsInv'
           /\ SaveCli(c) => SettingsInv'
           /\ UninstallCli(c) => SettingsInv'
           /\ CliStatus(c) => SettingsInv'
           /\ SaveStatus(c) => SettingsInv'
           /\ Register(c) => SettingsInv'
           /\ Unregister(c) => SettingsInv'
<1>. USE LaterFacts
<1>1. settings \in Settings /\ Snap(c) \in Settings
  BY SnapTyped DEF TypeInv, FilesTyped, Snap
<1>2. \A h : At(c, h) => /\ Owed({h} \cup After(c), calls[c].op, Snap(c), settings, Covered, Loose)
                         /\ After(c) \subseteq Later(h)
                         /\ settings.cli => Covered
                         /\ Loose => settings.background
                         /\ Busy(c)
  BY SettingsAt
<1>3. \A steps, snap :
        /\ Busy(c) /\ Moved(c, steps, snap)
        /\ settings'.cli => Covered'
        /\ Loose' => settings'.background
        /\ Owed(steps, calls[c].op, snap, settings', Covered', Loose')
        => SettingsInv'
  BY SettingsMoved
<1>4. ASSUME Bootstrap(c) PROVE SettingsInv'
  <2>1. /\ At(c, "bootstrap") /\ Covered' /\ settings' = settings /\ Loose' = Loose
        /\ Moved(c, {"saveCli", "reconcile", "update", "schedule"}, settings)
    BY <1>4, FirstMoves DEF Bootstrap, WriteShims, service, Covered, Loose
  <2>2. Owed({"saveCli", "reconcile", "update", "schedule"}, calls[c].op, settings,
             settings', Covered', Loose')
    BY <2>1 DEF Owed
  <2>. QED BY <1>2, <1>3, <2>1, <2>2
<1>5. ASSUME NEW snap \in Settings, NEW h \in {"update", "saveUpdate"}, At(c, h),
             snap.background = settings.background,
             settings' = snap, snap.cli => Covered', Loose' = Loose,
             SavedMove(c, snap, After(c))
      PROVE  SettingsInv'
  <2>1. After(c) \subseteq {"schedule"}
    <3>1. After(c) \subseteq Later(h) /\ Later(h) = {"schedule"}
      BY <1>2, <1>5
    <3>. QED BY <3>1
  <2>2. Owed({"saveCli"} \cup After(c), calls[c].op, snap, settings', TRUE, Loose')
        /\ Owed(After(c), calls[c].op, snap, settings', Covered', Loose')
    BY <1>5, <2>1 DEF Owed
  <2>3. CASE snap.cli /\ Moved(c, {"saveCli"} \cup After(c), snap)
    <3>1. Owed({"saveCli"} \cup After(c), calls[c].op, snap, settings', Covered', Loose')
      BY <1>5, <2>2, <2>3 DEF Owed
    <3>. QED BY <1>2, <1>3, <1>5, <2>3, <3>1
  <2>4. CASE ~snap.cli /\ Moved(c, After(c), snap)
    BY <1>2, <1>3, <1>5, <2>2, <2>4
  <2>. QED BY <1>5, <2>3, <2>4 DEF SavedMove
<1>6. ASSUME Update(c) PROVE SettingsInv'
  <2>1. /\ At(c, "update") /\ Loose' = Loose
        /\ Covered => Covered'
        /\ shims' = shims => Covered' = Covered
    <3>1. /\ At(c, "update") /\ UNCHANGED <<unit, leftover>>
          /\ shims => shims'
      BY <1>6 DEF Update, SaveUpdate, service, history
    <3>2. Loose' = Loose
      BY <3>1 DEF Loose
    <3>3. Covered => Covered'
      BY <3>1 DEF Covered
    <3>4. shims' = shims => Covered' = Covered
      BY <3>1 DEF Covered
    <3>. QED BY <3>1, <3>2, <3>3, <3>4
  <2>2. CASE SavedMove(c, settings, After(c)) /\ settings' = settings
    <3>1. settings.cli => Covered'
      BY <1>2, <2>1
    <3>. QED BY <1>1, <1>5, <2>1, <2>2, <3>1
  <2>3. ASSUME NEW u \in {{"stopUnit", "copy", "runInit", "startUnit", "saveUpdate"},
                          {"copy", "runInit", "saveUpdate"}},
               settings' = settings, Covered' = Covered, Moved(c, u \cup After(c), settings)
        PROVE  SettingsInv'
    <3>1. After(c) \subseteq {"schedule"}
      BY <1>2, <2>1
    <3>2. Owed(u \cup After(c), calls[c].op, settings, settings', Covered', Loose')
      BY <2>3, <3>1 DEF Owed
    <3>. QED BY <1>2, <1>3, <2>1, <2>3, <3>2
  <2>. QED BY <1>6, <2>1, <2>2, <2>3, InsertMoves
<1>7. ASSUME UpdateApplied(c) PROVE SettingsInv'
  <2>1. /\ At(c, "saveUpdate") /\ Loose' = Loose /\ settings' = Snap(c)
        /\ Snap(c).cli => Covered'
        /\ SavedMove(c, Snap(c), After(c))
    BY <1>7, InsertMoves DEF UpdateApplied, SaveUpdate, Snap, service, history, Covered, Loose
  <2>2. Snap(c).background = settings.background
    BY <1>2, <2>1 DEF Owed, SnapSteps
  <2>. QED BY <1>1, <1>5, <2>1, <2>2
<1>8. ASSUME NEW h \in {"tick", "tickDone"}, At(c, h), settings' = settings, Loose' = Loose,
             Covered => Covered', TickMove(c)
      PROVE  SettingsInv'
  <2>1. Owed({"tickCli"}, calls[c].op, Snap(c), settings', TRUE, Loose')
        /\ Owed({}, calls[c].op, Snap(c), settings', Covered', Loose')
    BY DEF Owed, SnapSteps
  <2>2. CASE settings.cli /\ shims' /\ Moved(c, {"tickCli"}, Snap(c))
    <3>1. Covered' /\ Owed({"tickCli"}, calls[c].op, Snap(c), settings', Covered', Loose')
      BY <2>2 DEF Owed, SnapSteps, Covered
    <3>. QED BY <1>2, <1>3, <1>8, <2>2, <3>1
  <2>3. CASE ~settings.cli /\ Moved(c, {}, Snap(c))
    BY <1>2, <1>3, <1>8, <2>1, <2>3
  <2>. QED BY <1>8, <2>2, <2>3 DEF TickMove
<1>9. ASSUME Tick(c) PROVE SettingsInv'
  <2>1. /\ At(c, "tick") /\ settings' = settings /\ Loose' = Loose
        /\ Covered => Covered'
        /\ shims' = shims => Covered' = Covered
    <3>1. /\ At(c, "tick") /\ UNCHANGED <<settings, unit, leftover>>
          /\ shims => shims'
      BY <1>9 DEF Tick, TickDone, service, history
    <3>2. Loose' = Loose
      BY <3>1 DEF Loose
    <3>3. Covered => Covered'
      BY <3>1 DEF Covered
    <3>4. shims' = shims => Covered' = Covered
      BY <3>1 DEF Covered
    <3>. QED BY <3>1, <3>2, <3>3, <3>4
  <2>2. CASE TickMove(c)
    BY <1>8, <2>1, <2>2
  <2>3. ASSUME NEW u \in {{"stopUnit", "copy", "runInit", "startUnit", "tickDone"},
                          {"copy", "runInit", "tickDone"}},
               Covered' = Covered, Moved(c, u, Snap(c))
        PROVE  SettingsInv'
    <3>1. Owed(u, calls[c].op, Snap(c), settings', Covered', Loose')
      BY DEF Owed, SnapSteps
    <3>. QED BY <1>2, <1>3, <2>1, <2>3, <3>1
  <2>. QED BY <1>9, <2>1, <2>2, <2>3, InsertMoves
<1>10. ASSUME TickApplied(c) PROVE SettingsInv'
  <2>1. At(c, "tickDone") /\ settings' = settings /\ Loose' = Loose /\ (Covered => Covered')
    BY <1>10 DEF TickApplied, TickDone, service, history, Covered, Loose
  <2>. QED BY <1>8, <1>10, <2>1, InsertMoves
<1>11. ASSUME SaveTickCli(c) \/ Wipe(c) \/ UninstallCli(c) \/ SaveStatus(c) PROVE SettingsInv'
  <2>1. Moved(c, {}, Snap(c)) /\ Loose' = Loose /\ \E h : At(c, h)
    BY <1>11, RestOrReturn DEF SaveTickCli, Wipe, UninstallCli, SaveStatus, service, history, Covered, Loose
  <2>2. Owed({}, calls[c].op, Snap(c), settings', Covered', Loose')
    BY NothingOwed
  <2>3. CASE SaveTickCli(c)
    <3>1. At(c, "tickCli") /\ settings'.background = settings.background /\ Covered' = Covered
      BY <1>1, <2>3 DEF SaveTickCli, Settings, history, Covered, Loose
    <3>2. Covered
      BY <1>2, <3>1 DEF Owed
    <3>. QED BY <1>2, <1>3, <2>1, <2>2, <3>1, <3>2
  <2>4. CASE Wipe(c)
    <3>1. /\ At(c, "wipe") /\ ~settings'.cli
      BY <2>4 DEF Wipe, Defaults
    <3>2. ~Loose
      BY <1>2, <3>1 DEF Owed
    <3>. QED BY <1>2, <1>3, <2>1, <2>2, <3>1, <3>2
  <2>5. CASE UninstallCli(c)
    <3>1. settings'.background = settings.background /\ (settings'.cli => Covered')
      BY <1>1, <2>5 DEF UninstallCli, Settings, Covered
    <3>. QED BY <1>2, <1>3, <2>1, <2>2, <3>1
  <2>6. CASE SaveStatus(c)
    <3>1. /\ At(c, "saveStatus") /\ settings'.background = Snap(c).background
          /\ settings'.cli => Covered'
      BY <1>1, <2>6 DEF SaveStatus, Settings, Snap, Covered
    <3>2. Snap(c).background = settings.background
      BY <1>2, <3>1 DEF Owed, SnapSteps
    <3>. QED BY <1>2, <1>3, <2>1, <2>2, <3>1, <3>2
  <2>. QED BY <1>11, <2>3, <2>4, <2>5, <2>6
<1>12. ASSUME Enable(c) PROVE SettingsInv'
  <2>1. /\ At(c, "enable") /\ settings'.background /\ settings'.cli = settings.cli
        /\ Covered' = Covered
        /\ Moved(c, {"runInit", "register", "startUnit", "saveEnabled", "saveCli", "api"}, settings')
    BY <1>1, <1>12, FirstMoves DEF Enable, Settings, history, Covered, Loose
  <2>2. Owed({"runInit", "register", "startUnit", "saveEnabled", "saveCli", "api"}, calls[c].op,
             settings', settings', Covered', Loose')
    BY <2>1 DEF Owed
  <2>. QED BY <1>2, <1>3, <2>1, <2>2
<1>13. ASSUME SaveEnabled(c) PROVE SettingsInv'
  <2>1. /\ At(c, "saveEnabled") /\ settings' = Snap(c) /\ Covered' /\ Loose' = Loose
        /\ Moved(c, After(c), Snap(c))
    BY <1>13, RestOrReturn DEF SaveEnabled, WriteShims, Snap, service, Covered, Loose
  <2>2. Snap(c).background = settings.background /\ After(c) \subseteq {"saveCli", "api"}
    BY <1>2, <2>1 DEF Owed, SnapSteps
  <2>3. Owed(After(c), calls[c].op, Snap(c), settings', Covered', Loose')
    BY <2>1, <2>2 DEF Owed, SnapSteps
  <2>. QED BY <1>2, <1>3, <2>1, <2>2, <2>3
<1>14. ASSUME Disable(c) PROVE SettingsInv'
  <2>1. /\ At(c, "disable") /\ settings' = settings /\ Covered' = Covered /\ Loose' = Loose
        /\ Moved(c, {"stopUnit", "unregister", "saveDisabled"}, Snap(c))
    BY <1>14, FirstMoves DEF Disable, files, service, history, Covered, Loose
  <2>2. Owed({"stopUnit", "unregister", "saveDisabled"}, calls[c].op, Snap(c), settings',
             Covered', Loose')
    BY DEF Owed, SnapSteps
  <2>. QED BY <1>2, <1>3, <2>1, <2>2
<1>15. ASSUME SaveDisabled(c) PROVE SettingsInv'
  <2>1. /\ At(c, "saveDisabled") /\ ~settings'.background /\ settings'.cli = settings.cli
        /\ Covered' = Covered /\ Loose' = Loose /\ Moved(c, After(c), Snap(c))
    BY <1>1, <1>15, RestOrReturn DEF SaveDisabled, Settings, service, history, Covered, Loose
  <2>2. ~Loose /\ After(c) \subseteq {"wipe"}
    BY <1>2, <2>1 DEF Owed
  <2>3. Owed(After(c), calls[c].op, Snap(c), settings', Covered', Loose')
    BY <2>1, <2>2 DEF Owed, SnapSteps
  <2>. QED BY <1>2, <1>3, <2>1, <2>2, <2>3
<1>16. ASSUME Remove(c) PROVE SettingsInv'
  <2>1. At(c, "remove") /\ settings' = settings /\ Covered' = Covered /\ Loose' = Loose
    BY <1>16 DEF Remove, files, service, history, Covered, Loose
  <2>2. Owed({"stopUnit", "unregister", "saveDisabled", "wipe"}, calls[c].op, Snap(c), settings',
             Covered', Loose')
    BY DEF Owed, SnapSteps
  <2>3. ~settings.background => Owed({"wipe"}, calls[c].op, Snap(c), settings', Covered', Loose')
    BY <1>2, <2>1 DEF Owed, SnapSteps
  <2>4. Busy(c) /\ (settings'.cli => Covered') /\ (Loose' => settings'.background)
    BY <1>2, <2>1
  <2>5. \/ Moved(c, {"stopUnit", "unregister", "saveDisabled", "wipe"}, Snap(c))
        \/ ~settings.background /\ Moved(c, {"wipe"}, Snap(c))
    BY <1>16, FirstMoves
  <2>. QED BY <1>3, <2>2, <2>3, <2>4, <2>5
<1>17. ASSUME Repair(c) PROVE SettingsInv'
  <2>1. /\ At(c, "repair") /\ Covered' /\ settings' = settings /\ Loose' = Loose
        /\ Moved(c, {"saveCli"}, settings)
    BY <1>17, FirstMoves DEF Repair, WriteShims, service, Covered, Loose
  <2>2. Owed({"saveCli"}, calls[c].op, settings, settings', Covered', Loose')
    BY <2>1 DEF Owed
  <2>. QED BY <1>2, <1>3, <2>1, <2>2
<1>18. ASSUME SaveCli(c) PROVE SettingsInv'
  <2>1. /\ At(c, "saveCli") /\ settings'.background = Snap(c).background
        /\ Covered' = Covered /\ Loose' = Loose /\ Moved(c, After(c), settings')
    BY <1>1, <1>18, RestOrReturn DEF SaveCli, Snap, Settings, service, history, Covered, Loose
  <2>2. /\ Snap(c).background = settings.background /\ Covered
        /\ After(c) \subseteq {"reconcile", "update", "schedule", "api"}
    BY <1>2, <2>1 DEF Owed, SnapSteps
  <2>3. Owed(After(c), calls[c].op, settings', settings', Covered', Loose')
    BY <2>1, <2>2 DEF Owed
  <2>. QED BY <1>2, <1>3, <2>1, <2>2, <2>3
<1>19. ASSUME CliStatus(c) PROVE SettingsInv'
  <2>1. /\ At(c, "cliStatus") /\ settings' = settings /\ Covered' = Covered /\ Loose' = Loose
        /\ Moved(c, {"saveStatus"}, settings)
    BY <1>19, FirstMoves DEF CliStatus, files, service, history, Covered, Loose
  <2>2. Owed({"saveStatus"}, calls[c].op, settings, settings', Covered', Loose')
    BY <2>1 DEF Owed
  <2>. QED BY <1>2, <1>3, <2>1, <2>2
<1>20. ASSUME Register(c) PROVE SettingsInv'
  <2>1. At(c, "register") /\ settings' = settings /\ Covered' = Covered
    BY <1>20 DEF Register, files, Covered
  <2>2. settings.background /\ After(c) \subseteq {"startUnit", "saveEnabled", "saveCli", "api"}
    BY <1>2, <2>1 DEF Owed
  <2>3. Owed(After(c), calls[c].op, Snap(c), settings', Covered', Loose')
    <3>1. Owed({"register"} \cup After(c), calls[c].op, Snap(c), settings, Covered, Loose)
      BY <1>2, <2>1
    <3>. QED BY <2>1, <2>2, <3>1 DEF Owed, SnapSteps
  <2>4. Busy(c) /\ (settings'.cli => Covered') /\ (Loose' => settings'.background)
    BY <1>2, <2>1, <2>2
  <2>5. Moved(c, After(c), Snap(c)) \/ Moved(c, {}, Snap(c))
    BY <1>20, RestOrReturn
  <2>. QED BY <1>3, <2>3, <2>4, <2>5, NothingOwed
<1>21. ASSUME Unregister(c) PROVE SettingsInv'
  <2>1. /\ At(c, "unregister") /\ settings' = settings /\ Covered' = Covered /\ ~Loose'
        /\ Moved(c, After(c), Snap(c))
    <3>1. ~Loose'
      <4>1. CASE unit' = [registered |-> FALSE, active |-> FALSE]
        BY <4>1 DEF Loose
      <4>2. ASSUME NEW kept, NEW runs, unit' = [registered |-> kept, active |-> runs],
                   leftover' = IF kept THEN leftover \cup {"unit"} ELSE leftover \ {"unit"}
            PROVE  ~Loose'
        BY <4>2 DEF Loose
      <4>. QED BY <1>21, <4>1, <4>2 DEF Unregister
    <3>2. At(c, "unregister") /\ settings' = settings /\ shims' = shims
      BY <1>21 DEF Unregister, files
    <3>3. "cli" \in leftover' <=> "cli" \in leftover
      BY <1>21 DEF Unregister
    <3>. QED BY <1>21, <3>1, <3>2, <3>3, RestOrReturn DEF Covered
  <2>2. After(c) \subseteq {"saveDisabled", "wipe"}
    BY <1>2, <2>1
  <2>3. Owed(After(c), calls[c].op, Snap(c), settings', Covered', Loose')
    BY <2>1, <2>2 DEF Owed, SnapSteps
  <2>. QED BY <1>2, <1>3, <2>1, <2>3
<1>. QED BY <1>4, <1>6, <1>7, <1>9, <1>10, <1>11, <1>12, <1>13, <1>14, <1>15, <1>16, <1>17, <1>18,
            <1>19, <1>20, <1>21

(* The other pieces.                                                       *)
LEMMA SettingsRest ==
    ASSUME TypeInv, TypeInv', AloneInv, SettingsInv, ~overlapped, NEW c \in Slots,
           \/ Reconcile(c) \/ Schedule(c) \/ Start(c) \/ Stop(c) \/ Restart(c) \/ Spawn(c)
           \/ Supervise(c) \/ AskService(c) \/ Api(c) \/ Copy(c) \/ RunInit(c) \/ StartUnit(c)
           \/ StopUnit(c)
    PROVE  SettingsInv'
<1>1. PICK h \in {"reconcile", "schedule", "start", "stop", "restart", "health", "init",
                  "askService", "api", "copy", "runInit", "startUnit", "stopUnit"} : At(c, h)
  BY DEF Reconcile, Schedule, Start, Stop, Restart, Spawn, Supervise, AskService, Api, Copy,
         RunInit, StartUnit, StopUnit
<1>2. /\ settings' = settings /\ shims' = shims /\ leftover' = leftover
      /\ unit' \in {unit, [unit EXCEPT !.active = TRUE], [unit EXCEPT !.active = FALSE]}
  BY DEF Reconcile, Schedule, Start, Stop, Restart, Spawn, Supervise, AskService, Api, Copy,
         RunInit, StartUnit, StopUnit, files, service, history
<1>3. Covered' = Covered /\ Loose' = Loose
  <2>1. unit'.registered = unit.registered
    BY <1>2 DEF TypeInv, ProcessesTyped
  <2>. QED BY <1>2, <2>1 DEF Covered, Loose
<1>4. CASE Start(c) \/ Stop(c) \/ Restart(c)
  <2>1. After(c) = {}
    BY <1>4, SettingsAt, LaterFacts DEF Start, Stop, Restart
  <2>2. \E steps : /\ Moved(c, steps, Snap(c))
                   /\ \A s \in steps : s \in {"askService", "health", "stopUnit", "startUnit", "api"}
    BY <1>4, FirstMoves
  <2>. QED BY <1>1, <1>2, <1>3, <2>1, <2>2, SettingsQuiet DEF Guarded, SnapSteps
<1>5. CASE ~(Start(c) \/ Stop(c) \/ Restart(c))
  <2>1. \E steps : /\ Moved(c, steps, Snap(c)) /\ (steps = {} \/ After(c) \subseteq steps)
                   /\ \A s \in steps : \/ s \in After(c)
                                       \/ s \in {"askService", "health", "init", "startUnit", "api"}
    <3>1. CASE Reconcile(c) \/ AskService(c)
      BY <3>1, InsertMoves
    <3>2. CASE Spawn(c)
      BY <3>2, SpawnMoves
    <3>3. CASE \/ Schedule(c) \/ Copy(c) \/ StopUnit(c) \/ Api(c) \/ RunInit(c) \/ StartUnit(c)
               \/ Supervise(c)
      BY <3>3, RestOrReturn
    <3>. QED BY <1>5, <3>1, <3>2, <3>3
  <2>. QED BY <1>1, <1>2, <1>3, <2>1, SettingsQuiet DEF Guarded, SnapSteps
<1>. QED BY <1>4, <1>5

(* A call that begins owes nothing.                                        *)
LEMMA SettingsOpened ==
    ASSUME TypeInv', NEW c \in Slots, NEW op \in UserCalls \cup {"tick", "bootstrap"},
           Opened(c, op), Ahead(c)' = {op}, \A d \in Slots : ~Busy(d),
           settings' = settings, Covered' = Covered, Loose' = Loose,
           settings.cli => Covered, Loose => settings.background
    PROVE  SettingsInv'
<1>1. ASSUME NEW d \in Slots, d # c
      PROVE  SettingsOwed(d)'
  <2>1. Ahead(d)' = {}
    BY <1>1, NothingAheadNext DEF Opened, Busy
  <2>. QED BY <2>1, NothingOwed DEF SettingsOwed
<1>2. SettingsOwed(c)'
  <2>1. op \notin SnapSteps /\ op \notin {"register", "saveCli", "tickCli", "saveDisabled", "wipe"}
        /\ ~(op = "bootstrap" /\ op = "update")
    BY DEF UserCalls, SnapSteps
  <2>2. Owed({op}, op, Snap(c)', settings', Covered', Loose')
    BY <2>1 DEF Owed
  <2>. QED BY <2>2 DEF SettingsOwed, Opened
<1>. QED BY <1>1, <1>2 DEF SettingsInv

LEMMA SettingsNext ==
    ASSUME TypeInv, AloneInv, SettingsInv, [Next]_vars
    PROVE  SettingsInv'
<1>. USE NextTyped
<1>1. ASSUME NEW c \in Slots, Piece(c)
      PROVE  SettingsInv'
  <2>1. CASE overlapped
    BY <1>1, <2>1, PieceHistoryTyped DEF SettingsInv
  <2>2. CASE ~overlapped
    BY <1>1, <2>2, SettingsWrites, SettingsRest DEF Piece
  <2>. QED BY <2>1, <2>2
<1>2. ASSUME NEW c \in Slots, NEW op \in UserCalls \cup {"tick"}, Begin(c, op)
      PROVE  SettingsInv'
  <2>. SUFFICES ASSUME ~overlapped' PROVE SettingsInv'
    BY DEF SettingsInv
  <2>1. ~overlapped /\ Covered' = Covered /\ Loose' = Loose
    BY <1>2, BeginFacts DEF Covered, Loose
  <2>. QED BY <1>2, <2>1, BeginFacts, SettingsOpened DEF SettingsInv
<1>3. ASSUME NEW c \in Slots, Launch(c)
      PROVE  SettingsInv'
  <2>. SUFFICES ASSUME ~overlapped' PROVE SettingsInv'
    BY DEF SettingsInv
  <2>1. ~overlapped /\ Covered' = Covered /\ Loose' = Loose
    BY <1>3, LaunchFacts DEF Covered, Loose
  <2>. QED BY <1>3, <2>1, LaunchFacts, SettingsOpened DEF SettingsInv
<1>4. ASSUME Ends
      PROVE  SettingsInv'
  <2>1. \A d \in Slots : SettingsOwed(d)'
    <3>1. \A d \in Slots : Ahead(d)' = {}
      BY <1>4, EndTyped, ForgetTyped, NothingAheadNext DEF NoCall, Busy
    <3>. QED BY <3>1, NothingOwed DEF SettingsOwed
  <2>2. /\ Covered => Covered'
        /\ Loose' = Loose /\ overlapped' = overlapped
        /\ settings' = settings \/ settings' = [settings EXCEPT !.background = TRUE]
    <3>1. /\ unit' = unit /\ overlapped' = overlapped
          /\ settings' = settings \/ settings' = [settings EXCEPT !.background = TRUE]
          /\ \/ shims' = shims /\ leftover' = leftover
             \/ shims' = FALSE /\ leftover' = leftover \cup {"cli"}
      BY <1>4, EndTyped DEF service
    <3>2. Covered => Covered'
      BY <3>1 DEF Covered
    <3>3. Loose' = Loose
      BY <3>1 DEF Loose
    <3>. QED BY <3>1, <3>2, <3>3
  <2>3. settings'.cli = settings.cli /\ (settings.background => settings'.background)
    BY <2>2, SnapTyped DEF TypeInv, FilesTyped, Settings
  <2>. QED BY <2>1, <2>2, <2>3 DEF SettingsInv
<1>5. ASSUME NEW i \in Supervisors, Process(i) \/ NodeDies(i)
      PROVE  SettingsInv'
  <2>1. unit'.registered = unit.registered
    <3>1. unit' = unit \/ unit' = ControlBackground
      BY <1>5 DEF Process, InitExits, NodeStarts, NodeExits, NodeDies, service
    <3>. QED BY <3>1 DEF ControlBackground, TypeInv, ProcessesTyped
  <2>2. Covered' = Covered /\ Loose' = Loose
    BY <1>5, <2>1, ProcessKeeps DEF Covered, Loose
  <2>3. \A d \in Slots : SettingsOwed(d) => SettingsOwed(d)'
    BY <1>5, <2>2, ProcessKeeps DEF SettingsOwed, Owed, Ahead, Snap
  <2>. QED BY <1>5, <2>2, <2>3, ProcessKeeps DEF SettingsInv
<1>6. ASSUME Service \/ Upgrade \/ UNCHANGED vars
      PROVE  SettingsInv'
  <2>1. Covered' = Covered /\ Loose' = Loose
    BY <1>6, RestKeeps DEF Covered, Loose
  <2>2. \A d \in Slots : SettingsOwed(d) => SettingsOwed(d)'
    BY <1>6, <2>1, RestKeeps DEF SettingsOwed, Owed, Ahead, Snap
  <2>. QED BY <1>6, <2>1, <2>2, RestKeeps DEF SettingsInv
<1>7. ASSUME Quit
      PROVE  SettingsInv'
  <2>1. Covered' = Covered /\ Loose' = Loose
    BY <1>7, QuitFacts DEF Covered, Loose
  <2>2. \A d \in Slots : SettingsOwed(d) => SettingsOwed(d)'
    BY <1>7, <2>1, QuitFacts DEF SettingsOwed, Owed, Ahead, Snap
  <2>. QED BY <1>7, <2>1, <2>2, QuitFacts DEF SettingsInv
<1>. QED BY <1>1, <1>2, <1>3, <1>4, <1>5, <1>6, <1>7 DEF Next, Ends

(* Settings tell the truth when nothing is in progress.                    *)
THEOREM SettingsTrue == Spec => []SettingsAreTrue
<1>1. Init => TypeInv /\ AloneInv /\ SettingsInv
  <2>. SUFFICES ASSUME Init PROVE TypeInv /\ AloneInv /\ SettingsInv
    OBVIOUS
  <2>1. TypeInv /\ (\A c \in Slots : ~Busy(c)) /\ ~settings.cli /\ ~Loose
    BY InitTyped DEF Init, Busy, NoCall, Defaults, Loose
  <2>2. \A c \in Slots : SettingsOwed(c)
    BY <2>1, NothingAhead, NothingOwed DEF SettingsOwed
  <2>. QED BY <2>1, <2>2 DEF AloneInv, SettingsInv
<1>2. TypeInv /\ AloneInv /\ SettingsInv /\ [Next]_vars => (TypeInv /\ AloneInv /\ SettingsInv)'
  BY NextTyped, AloneNext, SettingsNext
<1>3. TypeInv /\ SettingsInv => SettingsAreTrue
  BY DEF SettingsInv, SettingsAreTrue, Covered, Loose
<1>. QED BY <1>1, <1>2, <1>3, PTL DEF Spec

-----------------------------------------------------------------------------
(***************************************************************************)
(* The supervised nodes.                                                   *)
(***************************************************************************)
Vacant(m, n) == \A i \in m : n[i] \notin Live

(* A node that lives is the child of the supervisor the app would stop.    *)
Held(m, n, k, sp) == \A i \in m : n[i] \in Live => i = k /\ sp[i].child /\ sp[i].status = "running"

(* What settings s, supervisors m, nodes n and the global supervisor k owe *)
(* to a call about to spawn a node with supervisor i.                      *)
NodeOwed(steps, i, s, m, n, k) ==
    /\ "health" \in steps => Vacant(m, n) /\ ~s.background
    /\ "init" \in steps => Vacant(m, n) /\ ~s.background /\ i = k /\ k # 0
    /\ "bootstrap" \in steps \/ "reconcile" \in steps => m = {}

NodesInv ==
    ~overlapped =>
      /\ \A i, o \in mine : node[i] \in Live /\ node[o] \in Live => i = o
      /\ app.on => Held(mine, node, current, sup)
      /\ \A c \in Slots : NodeOwed(Ahead(c), calls[c].sup, settings, mine, node, current)

LEMMA NotLater ==
    ASSUME NEW h
    PROVE  /\ "health" \notin Later(h) /\ "init" \notin Later(h) /\ "bootstrap" \notin Later(h)
           /\ "askService" \notin Later(h) /\ "stopUnit" \notin Later(h)
  BY DEF Later

LEMMA NodesMoved ==
    ASSUME TypeInv', AloneInv, ~overlapped, NEW c \in Slots, Busy(c),
           NEW steps, NEW snap, Moved(c, steps, snap),
           Held(mine', node', current', sup'),
           NodeOwed(steps, calls'[c].sup, settings', mine', node', current')
    PROVE  NodesInv'
<1>1. ASSUME NEW d \in Slots, d # c
      PROVE  NodeOwed(Ahead(d), calls[d].sup, settings, mine, node, current)'
  <2>1. Ahead(d)' = {}
    BY <1>1, SoleCall, NothingAheadNext DEF Busy
  <2>. QED BY <2>1 DEF NodeOwed
<1>2. NodeOwed(Ahead(c), calls[c].sup, settings, mine, node, current)'
  BY MovedAhead
<1>3. \A i, o \in mine' : node'[i] \in Live /\ node'[o] \in Live => i = o
  BY DEF Held
<1>. QED BY <1>1, <1>2, <1>3 DEF NodesInv

LEMMA NodesAt ==
    ASSUME TypeInv, NodesInv, ~overlapped, NEW c \in Slots, NEW h, At(c, h)
    PROVE  /\ NodeOwed({h} \cup After(c), calls[c].sup, settings, mine, node, current)
           /\ Held(mine, node, current, sup) /\ Busy(c)
  BY AtFacts DEF NodesInv, Busy

(* A piece that touches no supervisor and plans no spawn.                  *)
LEMMA NodesQuiet ==
    ASSUME TypeInv, TypeInv', AloneInv, NodesInv, ~overlapped, NEW c \in Slots, NEW h, At(c, h),
           NEW steps, NEW snap, Moved(c, steps, snap),
           steps \cap {"health", "init", "bootstrap"} = {},
           "reconcile" \in steps => "reconcile" \in After(c),
           UNCHANGED <<mine, node, current, sup>>
    PROVE  NodesInv'
<1>1. NodeOwed(steps, calls'[c].sup, settings', mine', node', current')
  BY NodesAt DEF NodeOwed
<1>. QED BY <1>1, NodesAt, NodesMoved

LEMMA QuietPieces ==
    ASSUME TypeInv, NEW c \in Slots,
           \/ Schedule(c) \/ AskService(c) \/ Api(c) \/ Update(c) \/ UpdateApplied(c) \/ Tick(c)
           \/ TickApplied(c) \/ SaveTickCli(c) \/ Enable(c) \/ SaveEnabled(c) \/ Disable(c)
           \/ SaveDisabled(c) \/ Wipe(c) \/ Repair(c) \/ SaveCli(c) \/ UninstallCli(c)
           \/ CliStatus(c) \/ SaveStatus(c) \/ Copy(c) \/ RunInit(c) \/ Register(c)
           \/ StartUnit(c) \/ StopUnit(c) \/ Unregister(c)
    PROVE  /\ UNCHANGED <<mine, late, children>>
           /\ \E h : At(c, h)
           /\ \E steps, snap : /\ Moved(c, steps, snap)
                               /\ \A s \in steps : \/ s \in After(c)
                                                   \/ s \notin {"health", "init", "bootstrap", "reconcile"}
<1>1. UNCHANGED <<mine, late, children>>
  BY DEF Schedule, AskService, Api, Update, UpdateApplied, Tick, TickApplied, SaveTickCli, Enable,
         SaveEnabled, Disable, SaveDisabled, Wipe, Repair, SaveCli, UninstallCli, CliStatus,
         SaveStatus, Copy, RunInit, Register, StartUnit, StopUnit, Unregister, history
<1>2. \E h : At(c, h)
  BY DEF Schedule, AskService, Api, Update, UpdateApplied, Tick, TickApplied, SaveTickCli, Enable,
         SaveEnabled, Disable, SaveDisabled, Wipe, Repair, SaveCli, UninstallCli, CliStatus,
         SaveStatus, Copy, RunInit, Register, StartUnit, StopUnit, Unregister
<1>. DEFINE Plans == \E steps, snap :
                        /\ Moved(c, steps, snap)
                        /\ \A s \in steps : \/ s \in After(c)
                                            \/ s \notin {"health", "init", "bootstrap", "reconcile"}
<1>3. CASE \/ Schedule(c) \/ Api(c) \/ SaveTickCli(c) \/ SaveEnabled(c) \/ SaveDisabled(c)
           \/ Wipe(c) \/ SaveCli(c) \/ UninstallCli(c) \/ SaveStatus(c) \/ Copy(c) \/ RunInit(c)
           \/ Register(c) \/ StartUnit(c) \/ StopUnit(c) \/ Unregister(c)
  <2>1. \E steps \in {After(c), {}} : \E snap : Moved(c, steps, snap)
    BY <1>3, RestOrReturn
  <2>2. Plans
    BY <2>1
  <2>. QED BY <1>1, <1>2, <2>2
<1>4. CASE Enable(c) \/ Disable(c) \/ Repair(c) \/ CliStatus(c)
  <2>1. \E snap : \/ Moved(c, {"runInit", "register", "startUnit", "saveEnabled", "saveCli", "api"}, snap)
                  \/ Moved(c, {"stopUnit", "unregister", "saveDisabled"}, snap)
                  \/ Moved(c, {"saveCli"}, snap)
                  \/ Moved(c, {"saveStatus"}, snap)
    BY <1>4, FirstMoves
  <2>2. Plans
    BY <2>1
  <2>. QED BY <1>1, <1>2, <2>2
<1>5. CASE AskService(c) \/ Update(c) \/ UpdateApplied(c) \/ Tick(c) \/ TickApplied(c)
  <2>1. \E snap :
           \/ Moved(c, {"startUnit", "api"} \cup After(c), snap)
           \/ Moved(c, {"saveCli"} \cup After(c), snap)
           \/ Moved(c, After(c), snap)
           \/ Moved(c, {"stopUnit", "copy", "runInit", "startUnit", "saveUpdate"} \cup After(c), snap)
           \/ Moved(c, {"copy", "runInit", "saveUpdate"} \cup After(c), snap)
           \/ Moved(c, {"tickCli"}, snap)
           \/ Moved(c, {}, snap)
           \/ Moved(c, {"stopUnit", "copy", "runInit", "startUnit", "tickDone"}, snap)
           \/ Moved(c, {"copy", "runInit", "tickDone"}, snap)
    BY <1>5, InsertMoves DEF SavedMove, TickMove
  <2>2. Plans
    BY <2>1
  <2>. QED BY <1>1, <1>2, <2>2
<1>. QED BY <1>3, <1>4, <1>5

(* Stopping the global supervisor stops the one node that lives.           *)
LEMMA StoppedHeld ==
    ASSUME TypeInv, Held(mine, node, current, sup), StopTemporary, UNCHANGED <<current, mine>>
    PROVE  /\ Held(mine', node', current', sup')
           /\ ~settings.background => Vacant(mine', node')
<1>1. mine \subseteq Supervisors
  BY DEF TypeInv, HistoryTyped
<1>2. CASE settings.background
  BY <1>2, StopTemporaryFacts
<1>3. CASE ~settings.background
  <2>1. Vacant(mine', node')
    BY <1>1, <1>3, StopTemporaryFacts DEF Held, Vacant
  <2>. QED BY <1>3, <2>1 DEF Held, Vacant
<1>. QED BY <1>2, <1>3

(* The pieces that stop, replace or spawn a node, or plan to.              *)
LEMMA NodesPieces ==
    ASSUME TypeInv, TypeInv', AloneInv, SettingsInv, NodesInv, ~overlapped, NEW c \in Slots
    PROVE  /\ Bootstrap(c) => NodesInv'
           /\ Reconcile(c) => NodesInv'
           /\ Start(c) => NodesInv'
           /\ Stop(c) => NodesInv'
           /\ Restart(c) => NodesInv'
           /\ Remove(c) => NodesInv'
           /\ Spawn(c) => NodesInv'
           /\ Supervise(c) => NodesInv'
<1>1. \A h : At(c, h) =>
          /\ NodeOwed({h} \cup After(c), calls[c].sup, settings, mine, node, current)
          /\ Held(mine, node, current, sup) /\ Busy(c)
          /\ After(c) \subseteq Later(h)
  BY NodesAt, AtFacts
<1>2. \A steps, snap : /\ Busy(c) /\ Moved(c, steps, snap)
                       /\ Held(mine', node', current', sup')
                       /\ NodeOwed(steps, calls'[c].sup, settings', mine', node', current')
                       => NodesInv'
  BY NodesMoved
<1>3. /\ mine \subseteq Supervisors /\ current \in 0..MaxStarts
      /\ node \in [Supervisors -> NodeStates] /\ sup \in [Supervisors -> SupRecords]
  BY DEF TypeInv, ProcessesTyped, HistoryTyped, NodeStates, SupRecords
<1>4. ASSUME Bootstrap(c) PROVE NodesInv'
  <2>1. /\ At(c, "bootstrap") /\ UNCHANGED <<mine, node, current, sup>>
        /\ Moved(c, {"saveCli", "reconcile", "update", "schedule"}, settings)
    BY <1>4, FirstMoves DEF Bootstrap, history, children
  <2>2. NodeOwed({"saveCli", "reconcile", "update", "schedule"}, calls'[c].sup, settings', mine',
                 node', current')
    BY <1>1, <2>1 DEF NodeOwed
  <2>3. Held(mine', node', current', sup')
    BY <1>1, <2>1
  <2>. QED BY <1>1, <1>2, <2>1, <2>2, <2>3
<1>5. ASSUME Reconcile(c) PROVE NodesInv'
  <2>1. /\ At(c, "reconcile") /\ UNCHANGED <<mine, node, current, sup, settings>>
    BY <1>5 DEF Reconcile, children, files
  <2>2. /\ Held(mine', node', current', sup') /\ mine' = {}
        /\ After(c) \subseteq {"update", "schedule"} /\ Busy(c)
    BY <1>1, <2>1, LaterFacts DEF NodeOwed
  <2>3. NodeOwed(After(c), calls'[c].sup, settings', mine', node', current')
        /\ NodeOwed({"askService"} \cup After(c), calls'[c].sup, settings', mine', node', current')
    BY <2>2 DEF NodeOwed
  <2>4. Snap(c).background = settings.background
    BY <2>1, SettingsAt DEF Owed, SnapSteps
  <2>5. ~Snap(c).background =>
           NodeOwed({"health"} \cup After(c), calls'[c].sup, settings', mine', node', current')
    BY <2>1, <2>2, <2>4 DEF NodeOwed, Vacant
  <2>. QED BY <1>2, <1>5, <2>2, <2>3, <2>5, InsertMoves
<1>6. ASSUME Start(c) PROVE NodesInv'
  <2>1. /\ At(c, "start") /\ UNCHANGED <<mine, node, current, sup, settings>>
    BY <1>6 DEF Start, history, children, files
  <2>2. Held(mine', node', current', sup') /\ Busy(c) /\ Held(mine, node, current, sup)
    BY <1>1, <2>1
  <2>3. NodeOwed({}, calls'[c].sup, settings', mine', node', current')
        /\ NodeOwed({"askService"}, calls'[c].sup, settings', mine', node', current')
    BY DEF NodeOwed
  <2>4. ~settings.background /\ (current = 0 \/ sup[current].status # "running") =>
           NodeOwed({"health"}, calls'[c].sup, settings', mine', node', current')
    <3>1. current = 0 \/ sup[current].status # "running" => Vacant(mine, node)
      BY <1>3, <2>2 DEF Held, Vacant, Supervisors
    <3>. QED BY <2>1, <3>1 DEF NodeOwed
  <2>. QED BY <1>2, <1>6, <2>2, <2>3, <2>4, FirstMoves
<1>7. ASSUME NEW h, At(c, h), StopTemporary, UNCHANGED <<current, settings, mine>>
      PROVE  /\ Held(mine', node', current', sup')
             /\ ~settings.background => Vacant(mine', node')
  BY <1>1, <1>7, StoppedHeld
<1>8. ASSUME Stop(c) \/ Restart(c) \/ Remove(c) PROVE NodesInv'
  <2>1. /\ StopTemporary /\ UNCHANGED <<current, settings, mine>>
        /\ \E h : At(c, h)
    BY <1>8 DEF Stop, Restart, Remove, history, files
  <2>2. /\ Held(mine', node', current', sup') /\ Busy(c)
        /\ ~settings.background => Vacant(mine', node')
    BY <1>1, <1>7, <2>1
  <2>3. \A steps : steps \cap {"health", "init", "bootstrap", "reconcile"} = {} =>
            NodeOwed(steps, calls'[c].sup, settings', mine', node', current')
    BY DEF NodeOwed
  <2>4. ~settings.background => NodeOwed({"health"}, calls'[c].sup, settings', mine', node', current')
    BY <2>1, <2>2 DEF NodeOwed
  <2>5. \/ \E steps : /\ Moved(c, steps, Snap(c))
                      /\ steps \cap {"health", "init", "bootstrap", "reconcile"} = {}
        \/ ~settings.background /\ Moved(c, {"health"}, Snap(c))
    <3>1. \/ \E steps \in {{}, {"stopUnit"}, {"stopUnit", "startUnit", "api"}, {"wipe"},
                           {"stopUnit", "unregister", "saveDisabled", "wipe"}} : Moved(c, steps, Snap(c))
          \/ ~settings.background /\ Moved(c, {"health"}, Snap(c))
      BY <1>8, FirstMoves
    <3>. QED BY <3>1
  <2>. QED BY <1>2, <2>2, <2>3, <2>4, <2>5
<1>9. ASSUME Spawn(c) PROVE NodesInv'
  <2>1. /\ At(c, "health") /\ UNCHANGED <<settings, node>>
    BY <1>9 DEF Spawn, files
  <2>2. /\ Held(mine, node, current, sup) /\ Busy(c) /\ Vacant(mine, node) /\ ~settings.background
        /\ After(c) \subseteq {"update", "schedule"}
    BY <1>1, <2>1, LaterFacts DEF NodeOwed
  <2>3. CASE Moved(c, After(c), Snap(c)) /\ UNCHANGED <<current, sup, init, mine>>
    <3>1. NodeOwed(After(c), calls'[c].sup, settings', mine', node', current')
      BY <2>2 DEF NodeOwed
    <3>. QED BY <1>2, <2>1, <2>2, <2>3, <3>1
  <2>4. CASE Moved(c, {"init", "api"} \cup After(c), Snap(c)) /\ Spawned(c)
    <3>1. PICK i \in Unused : current' = i /\ mine' = mine \cup {i} /\ calls'[c].sup = i
      BY <2>4 DEF Spawned
    <3>2. node[i] = "none" /\ i # 0
      BY <3>1 DEF Unused, Supervisors
    <3>3. Vacant(mine', node')
      BY <2>1, <2>2, <3>1, <3>2 DEF Vacant, Live
    <3>4. Held(mine', node', current', sup')
      BY <3>3 DEF Held, Vacant
    <3>5. NodeOwed({"init", "api"} \cup After(c), calls'[c].sup, settings', mine', node', current')
      BY <2>1, <2>2, <3>1, <3>2, <3>3 DEF NodeOwed
    <3>. QED BY <1>2, <2>2, <2>4, <3>4, <3>5
  <2>. QED BY <1>9, <2>3, <2>4, SpawnMoves
<1>10. ASSUME Supervise(c) PROVE NodesInv'
  <2>1. /\ At(c, "init") /\ UNCHANGED <<settings, current, mine>>
    BY <1>10 DEF Supervise, files
  <2>2. /\ Busy(c) /\ Vacant(mine, node) /\ calls[c].sup = current /\ current \in Supervisors
        /\ After(c) \subseteq {"api", "update", "schedule"}
    BY <1>1, <1>3, <2>1, LaterFacts DEF NodeOwed, Supervisors
  <2>3. \/ /\ node' = [node EXCEPT ![current] = "starting"]
           /\ sup' = [sup EXCEPT ![current] = [status |-> "running", child |-> TRUE]]
        \/ node' = node /\ sup' = [sup EXCEPT ![current].status = "error"]
    BY <1>10, <2>2 DEF Supervise
  <2>4. Held(mine', node', current', sup')
    BY <1>3, <2>1, <2>2, <2>3 DEF Held, Vacant
  <2>5. NodeOwed(After(c), calls'[c].sup, settings', mine', node', current')
        /\ NodeOwed({}, calls'[c].sup, settings', mine', node', current')
    BY <2>2 DEF NodeOwed
  <2>. QED BY <1>2, <1>10, <2>2, <2>4, <2>5, RestOrReturn
<1>. QED BY <1>4, <1>5, <1>6, <1>8, <1>9, <1>10

(* A call that begins has spawned nothing.                                 *)
LEMMA NodesOpened ==
    ASSUME TypeInv', NEW c \in Slots, NEW op \in UserCalls \cup {"tick", "bootstrap"},
           Opened(c, op), Ahead(c)' = {op}, \A d \in Slots : ~Busy(d),
           op = "bootstrap" => mine' = {}
    PROVE  \A d \in Slots : NodeOwed(Ahead(d), calls[d].sup, settings, mine, node, current)'
<1>1. ASSUME NEW d \in Slots, d # c
      PROVE  NodeOwed(Ahead(d), calls[d].sup, settings, mine, node, current)'
  <2>1. Ahead(d)' = {}
    BY <1>1, NothingAheadNext DEF Opened, Busy
  <2>. QED BY <2>1 DEF NodeOwed
<1>2. NodeOwed(Ahead(c), calls[c].sup, settings, mine, node, current)'
  <2>1. op \notin {"health", "init", "reconcile"}
    BY DEF UserCalls
  <2>. QED BY <2>1 DEF NodeOwed
<1>. QED BY <1>1, <1>2

LEMMA ProcessLives ==
    ASSUME TypeInv, NEW i \in Supervisors, Process(i) \/ NodeDies(i)
    PROVE  \A o \in Supervisors : node'[o] \in Live => node[o] \in Live /\ sup'[o] = sup[o]
<1>1. node \in [Supervisors -> NodeStates] /\ sup \in [Supervisors -> SupRecords]
  BY DEF TypeInv, ProcessesTyped, NodeStates, SupRecords
<1>2. CASE ChildExits(i, "stopped") \/ ChildExits(i, "error")
  BY <1>2, ChildExitsFacts DEF Live
<1>3. CASE UNCHANGED <<node, sup>>
  BY <1>3
<1>4. CASE node[i] = "starting" /\ node' = [node EXCEPT ![i] = "serving"] /\ UNCHANGED sup
  BY <1>1, <1>4 DEF Live
<1>. QED BY <1>2, <1>3, <1>4 DEF Process, InitExits, NodeStarts, NodeExits, NodeDies

LEMMA NodesNext ==
    ASSUME TypeInv, AloneInv, SettingsInv, NodesInv, [Next]_vars
    PROVE  NodesInv'
<1>. USE NextTyped
<1>1. ASSUME NEW c \in Slots, Piece(c)
      PROVE  NodesInv'
  <2>1. CASE overlapped
    BY <1>1, <2>1, PieceHistoryTyped DEF NodesInv
  <2>2. CASE ~overlapped
    <3>1. CASE Bootstrap(c) \/ Reconcile(c) \/ Start(c) \/ Stop(c) \/ Restart(c) \/ Remove(c)
               \/ Spawn(c) \/ Supervise(c)
      BY <2>2, <3>1, NodesPieces
    <3>2. CASE \/ Schedule(c) \/ AskService(c) \/ Api(c) \/ Update(c) \/ UpdateApplied(c) \/ Tick(c)
               \/ TickApplied(c) \/ SaveTickCli(c) \/ Enable(c) \/ SaveEnabled(c) \/ Disable(c)
               \/ SaveDisabled(c) \/ Wipe(c) \/ Repair(c) \/ SaveCli(c) \/ UninstallCli(c)
               \/ CliStatus(c) \/ SaveStatus(c) \/ Copy(c) \/ RunInit(c) \/ Register(c)
               \/ StartUnit(c) \/ StopUnit(c) \/ Unregister(c)
      <4>1. UNCHANGED <<mine, node, current, sup>>
        BY <3>2, QuietPieces DEF children
      <4>2. PICK h : At(c, h)
        BY <3>2, QuietPieces
      <4>3. PICK steps, snap :
               /\ Moved(c, steps, snap)
               /\ \A s \in steps : \/ s \in After(c)
                                   \/ s \notin {"health", "init", "bootstrap", "reconcile"}
        BY <3>2, QuietPieces
      <4>4. steps \cap {"health", "init", "bootstrap"} = {}
        BY <4>2, <4>3, AtFacts, NotLater
      <4>5. "reconcile" \in steps => "reconcile" \in After(c)
        BY <4>3
      <4>. QED BY <2>2, <4>1, <4>2, <4>3, <4>4, <4>5, NodesQuiet
    <3>. QED BY <1>1, <3>1, <3>2 DEF Piece
  <2>. QED BY <2>1, <2>2
<1>2. ASSUME NEW c \in Slots, NEW op \in UserCalls \cup {"tick"}, Begin(c, op)
      PROVE  NodesInv'
  <2>. SUFFICES ASSUME ~overlapped' PROVE NodesInv'
    BY DEF NodesInv
  <2>1. op # "bootstrap" /\ ~overlapped
    BY <1>2, BeginFacts DEF UserCalls
  <2>2. \A d \in Slots : NodeOwed(Ahead(d), calls[d].sup, settings, mine, node, current)'
    BY <1>2, <2>1, BeginFacts, NodesOpened
  <2>3. UNCHANGED <<app, mine, node, current, sup>>
    BY <1>2, BeginFacts
  <2>. QED BY <2>1, <2>2, <2>3 DEF NodesInv, Held
<1>3. ASSUME NEW c \in Slots, Launch(c)
      PROVE  NodesInv'
  <2>1. mine' = {}
    BY <1>3, LaunchFacts
  <2>2. \A d \in Slots : NodeOwed(Ahead(d), calls[d].sup, settings, mine, node, current)'
    BY <1>3, <2>1, LaunchFacts, NodesOpened
  <2>. QED BY <2>1, <2>2 DEF NodesInv, Held
<1>4. ASSUME Ends
      PROVE  NodesInv'
  <2>1. \A d \in Slots : NodeOwed(Ahead(d), calls[d].sup, settings, mine, node, current)'
    <3>1. \A d \in Slots : Ahead(d)' = {}
      BY <1>4, EndTyped, ForgetTyped, NothingAheadNext DEF NoCall, Busy
    <3>. QED BY <3>1 DEF NodeOwed
  <2>2. mine' = {} /\ overlapped' = overlapped /\ ~app'.on
    BY <1>4, EndTyped, ForgetTyped
  <2>. QED BY <2>1, <2>2 DEF NodesInv
<1>5. ASSUME NEW i \in Supervisors, Process(i) \/ NodeDies(i)
      PROVE  NodesInv'
  <2>1. UNCHANGED <<app, settings, current, calls, mine, overlapped>>
    BY <1>5, ProcessKeeps
  <2>2. /\ node \in [Supervisors -> NodeStates] /\ sup \in [Supervisors -> SupRecords]
        /\ mine \subseteq Supervisors
    BY DEF TypeInv, ProcessesTyped, HistoryTyped, NodeStates, SupRecords
  <2>3. \A o \in Supervisors :
           node'[o] \in Live => node[o] \in Live /\ sup'[o] = sup[o]
    BY <1>5, ProcessLives
  <2>4. Held(mine, node, current, sup) => Held(mine, node, current, sup)'
    BY <2>1, <2>2, <2>3 DEF Held
  <2>5. \A d \in Slots : NodeOwed(Ahead(d), calls[d].sup, settings, mine, node, current)
                       => NodeOwed(Ahead(d), calls[d].sup, settings, mine, node, current)'
    <3>1. Vacant(mine, node) => Vacant(mine, node)'
      BY <2>1, <2>2, <2>3 DEF Vacant
    <3>. QED BY <2>1, <3>1 DEF NodeOwed, Ahead
  <2>. QED BY <2>1, <2>2, <2>3, <2>4, <2>5 DEF NodesInv
<1>6. ASSUME Service \/ Upgrade \/ UNCHANGED vars
      PROVE  NodesInv'
  <2>1. UNCHANGED <<settings, current, sup, node, calls, mine, overlapped>> /\ app'.on = app.on
    BY <1>6, RestKeeps
  <2>. QED BY <2>1 DEF NodesInv, Held, NodeOwed, Vacant, Ahead
<1>7. ASSUME Quit
      PROVE  NodesInv'
  <2>. SUFFICES ASSUME ~overlapped' PROVE NodesInv'
    BY DEF NodesInv
  <2>1. /\ UNCHANGED <<settings, current, calls, mine, overlapped>> /\ app.on /\ StopTemporary
        /\ Held(mine, node, current, sup) /\ mine \subseteq Supervisors
    BY <1>7, QuitFacts DEF NodesInv, TypeInv, HistoryTyped
  <2>2. Held(mine', node', current', sup')
    BY <2>1, StoppedHeld
  <2>3. Vacant(mine, node) => Vacant(mine', node')
    BY <2>1, StopTemporaryFacts DEF Vacant
  <2>4. \A d \in Slots : NodeOwed(Ahead(d), calls[d].sup, settings, mine, node, current)
                       => NodeOwed(Ahead(d), calls[d].sup, settings, mine, node, current)'
    BY <2>1, <2>3 DEF NodeOwed, Ahead
  <2>5. \A i, o \in mine' : node'[i] \in Live /\ node'[o] \in Live => i = o
    BY <2>2 DEF Held
  <2>. QED BY <2>1, <2>2, <2>4, <2>5 DEF NodesInv
<1>. QED BY <1>1, <1>2, <1>3, <1>4, <1>5, <1>6, <1>7 DEF Next, Ends

(* Between before-quit and the exit the only nodes of this session that    *)
(* run, but for those already told to stop, were spawned since.            *)
QuitInv ==
    ~overlapped /\ app.quitting = "temporary" => \A i \in mine : node[i] \in Live => i \in late

LEMMA QuitNext ==
    ASSUME TypeInv, NodesInv, QuitInv, [Next]_vars
    PROVE  QuitInv'
<1>1. /\ node \in [Supervisors -> NodeStates] /\ mine \subseteq Supervisors
      /\ sup \in [Supervisors -> SupRecords]
  BY DEF TypeInv, ProcessesTyped, HistoryTyped, NodeStates, SupRecords
<1>2. ASSUME UNCHANGED <<mine, overlapped>>, app'.quitting = app.quitting, late \subseteq late',
             \A o \in Supervisors : node'[o] \in Live => node[o] \in Live \/ o \in late'
      PROVE  QuitInv'
  BY <1>1, <1>2 DEF QuitInv
<1>3. ASSUME NEW c \in Slots, Piece(c)
      PROVE  QuitInv'
  <2>1. app'.quitting = app.quitting /\ overlapped' = overlapped
    BY <1>3, PieceApp, PieceHistoryTyped
  <2>2. CASE Spawn(c)
    <3>1. UNCHANGED <<node, late>>
      BY <2>2 DEF Spawn
    <3>2. CASE UNCHANGED <<current, sup, init, mine>>
      BY <1>2, <2>1, <3>1, <3>2
    <3>3. CASE Spawned(c)
      <4>1. PICK i \in Unused : mine' = mine \cup {i}
        BY <3>3 DEF Spawned
      <4>2. node[i] \notin Live
        BY <4>1 DEF Unused, Live
      <4>. QED BY <2>1, <3>1, <4>1, <4>2 DEF QuitInv
    <3>. QED BY <2>2, <3>2, <3>3, SpawnMoves
  <2>3. CASE Supervise(c)
    <3>. DEFINE i == calls[c].sup
    <3>1. mine' = mine
      BY <2>3 DEF Supervise
    <3>2. \/ late' = late /\ node' = node
          \/ late' = late /\ app.quitting = "no"
          \/ late' = late \cup {i} /\ node' = [node EXCEPT ![i] = "starting"]
      BY <2>3 DEF Supervise
    <3>3. CASE app.quitting = "no"
      BY <2>1, <3>3 DEF QuitInv
    <3>4. CASE app.quitting # "no"
      <4>1. late \subseteq late'
            /\ \A o \in Supervisors : node'[o] \in Live => node[o] \in Live \/ o \in late'
        BY <1>1, <3>2, <3>4
      <4>. QED BY <1>2, <2>1, <3>1, <4>1
    <3>. QED BY <3>3, <3>4
  <2>4. CASE Stop(c) \/ Restart(c) \/ Remove(c)
    <3>1. StopTemporary /\ UNCHANGED <<mine, late>>
      BY <2>4 DEF Stop, Restart, Remove, history
    <3>2. \A o \in Supervisors : node'[o] \in Live => node[o] \in Live
      BY <3>1, StopTemporaryFacts
    <3>. QED BY <1>2, <2>1, <3>1, <3>2
  <2>5. CASE Bootstrap(c) \/ Reconcile(c) \/ Start(c)
    <3>1. UNCHANGED <<mine, late, node>>
      BY <2>5 DEF Bootstrap, Reconcile, Start, children, history
    <3>. QED BY <1>2, <2>1, <3>1
  <2>6. CASE \/ Schedule(c) \/ AskService(c) \/ Api(c) \/ Update(c) \/ UpdateApplied(c) \/ Tick(c)
             \/ TickApplied(c) \/ SaveTickCli(c) \/ Enable(c) \/ SaveEnabled(c) \/ Disable(c)
             \/ SaveDisabled(c) \/ Wipe(c) \/ Repair(c) \/ SaveCli(c) \/ UninstallCli(c)
             \/ CliStatus(c) \/ SaveStatus(c) \/ Copy(c) \/ RunInit(c) \/ Register(c)
             \/ StartUnit(c) \/ StopUnit(c) \/ Unregister(c)
    <3>1. UNCHANGED <<mine, late, node>>
      BY <2>6, QuietPieces DEF children
    <3>. QED BY <1>2, <2>1, <3>1
  <2>. QED BY <1>3, <2>2, <2>3, <2>4, <2>5, <2>6 DEF Piece
<1>4. ASSUME NEW c \in Slots, NEW op \in UserCalls \cup {"tick"}, Begin(c, op)
      PROVE  QuitInv'
  BY <1>4, BeginFacts DEF QuitInv
<1>5. ASSUME NEW c \in Slots, Launch(c)
      PROVE  QuitInv'
  BY <1>5, LaunchFacts DEF QuitInv
<1>6. ASSUME NEW i \in Supervisors, Process(i) \/ NodeDies(i)
      PROVE  QuitInv'
  <2>1. UNCHANGED <<app, mine, late, overlapped>>
    BY <1>6, ProcessKeeps
  <2>2. \A o \in Supervisors : node'[o] \in Live => node[o] \in Live
    BY <1>6, ProcessLives
  <2>. QED BY <1>2, <2>1, <2>2
<1>7. ASSUME Service \/ Upgrade \/ UNCHANGED vars
      PROVE  QuitInv'
  BY <1>2, <1>7, RestKeeps
<1>8. ASSUME Ends
      PROVE  QuitInv'
  BY <1>8, EndTyped, ForgetTyped DEF QuitInv
<1>9. ASSUME Quit
      PROVE  QuitInv'
  <2>. SUFFICES ASSUME ~overlapped', app'.quitting = "temporary"
                PROVE  \A i \in mine' : node'[i] \in Live => i \in late'
    BY DEF QuitInv
  <2>1. /\ UNCHANGED <<current, mine, overlapped>> /\ StopTemporary /\ ~settings.background
        /\ Held(mine, node, current, sup)
    BY <1>9, QuitFacts DEF NodesInv
  <2>. QED BY <2>1, StoppedHeld DEF Vacant
<1>. QED BY <1>3, <1>4, <1>5, <1>6, <1>7, <1>8, <1>9 DEF Next, Ends

CallsInv == TypeInv /\ AloneInv /\ SettingsInv /\ NodesInv /\ QuitInv

LEMMA CallsInit == Init => CallsInv
<1>. SUFFICES ASSUME Init PROVE CallsInv
  OBVIOUS
<1>1. /\ TypeInv /\ (\A c \in Slots : ~Busy(c)) /\ ~settings.cli /\ ~Loose
      /\ mine = {}
  BY InitTyped DEF Init, Busy, NoCall, Defaults, Loose
<1>2. \A c \in Slots : Ahead(c) = {}
  BY <1>1, NothingAhead
<1>3. \A c \in Slots : SettingsOwed(c)
  BY <1>2, NothingOwed DEF SettingsOwed
<1>4. \A c \in Slots : NodeOwed(Ahead(c), calls[c].sup, settings, mine, node, current)
  BY <1>2 DEF NodeOwed
<1>. QED BY <1>1, <1>3, <1>4 DEF CallsInv, AloneInv, SettingsInv, NodesInv, QuitInv, Held

LEMMA CallsNext == CallsInv /\ [Next]_vars => CallsInv'
  BY NextTyped, AloneNext, SettingsNext, NodesNext, QuitNext DEF CallsInv

LEMMA CallsKeptInv == Spec => []CallsInv
  BY CallsInit, CallsNext, PTL DEF Spec

(* Calls made one at a time keep one supervised node: a new supervisor     *)
(* takes over only when none of the nodes of this session lives.           *)
THEOREM OneNode == Spec => []OneSupervisedNode
<1>1. CallsInv => OneSupervisedNode
  BY DEF CallsInv, NodesInv, OneSupervisedNode
<1>. QED BY <1>1, CallsKeptInv, PTL

(* A quit stops the temporary node wherever the call in progress is: it is *)
(* the one held by the global supervisor.  What still runs when the app    *)
(* has exited was spawned after before-quit.                               *)
THEOREM QuitLeavesNone == Spec => QuitStopsChild
<1>. DEFINE Quits == app.quitting = "temporary" /\ ~app'.on /\ ~overlapped
                       => \A i \in mine : node'[i] \in Live => i \in late
<1>1. CallsInv /\ [Next]_vars => [Quits]_vars
  <2>. SUFFICES ASSUME CallsInv, Next, app.quitting = "temporary", ~app'.on, ~overlapped
                PROVE  \A i \in mine : node'[i] \in Live => i \in late
    OBVIOUS
  <2>1. app.on /\ TypeInv /\ \A i \in mine : node[i] \in Live => i \in late
    BY DEF CallsInv, TypeInv, ClosedShape, QuitInv
  <2>2. Ends
    <3>1. \A c \in Slots : ~Piece(c) /\ ~Launch(c) /\ \A op \in UserCalls \cup {"tick"} : ~Begin(c, op)
      BY <2>1, PieceRuns, LaunchFacts, BeginFacts
    <3>2. \A i \in Supervisors : ~Process(i) /\ ~NodeDies(i)
      BY <2>1, ProcessKeeps
    <3>3. ~Service /\ ~Upgrade /\ ~Quit
      BY <2>1, RestKeeps, QuitFacts
    <3>. QED BY <3>1, <3>2, <3>3 DEF Next, Ends
  <2>. QED BY <2>1, <2>2, EndTyped
<1>. QED BY <1>1, CallsKeptInv, PTL DEF Spec, QuitStopsChild, Quits

-----------------------------------------------------------------------------
(***************************************************************************)
(* The service.                                                            *)
(***************************************************************************)

(* The service manager runs no process of a service that is not active.    *)
ManagedInv == osNode # "none" => unit.active

LEMMA ManagedNext ==
    ASSUME TypeInv, ManagedInv, [Next]_vars
    PROVE  ManagedInv'
<1>1. unit \in [registered : BOOLEAN, active : BOOLEAN]
  BY DEF TypeInv, ProcessesTyped
<1>2. ASSUME NEW c \in Slots, Piece(c)
      PROVE  ManagedInv'
  <2>1. \/ osNode' = "none"
        \/ /\ osNode' = osNode
           /\ unit.active => unit'.active
    <3>1. CASE Register(c) \/ StartUnit(c) \/ StopUnit(c) \/ Unregister(c)
      <4>1. CASE Register(c) \/ StartUnit(c)
        BY <1>1, <4>1 DEF Register, StartUnit
      <4>2. CASE StopUnit(c)
        BY <4>2 DEF StopUnit
      <4>3. CASE Unregister(c)
        BY <4>3 DEF Unregister
      <4>. QED BY <3>1, <4>1, <4>2, <4>3
    <3>2. CASE ~(Register(c) \/ StartUnit(c) \/ StopUnit(c) \/ Unregister(c))
      BY <1>2, <3>2 DEF Piece, Bootstrap, Reconcile, Schedule, Start, Stop, Restart, Spawn,
         Supervise, AskService, Api, Update, UpdateApplied, Tick, TickApplied, SaveTickCli, Enable,
         SaveEnabled, Disable, SaveDisabled, Remove, Wipe, Repair, SaveCli, UninstallCli,
         CliStatus, SaveStatus, Copy, RunInit, service
    <3>. QED BY <3>1, <3>2
  <2>. QED BY <2>1 DEF ManagedInv
<1>3. ASSUME NEW i \in Supervisors, Process(i) \/ NodeDies(i)
      PROVE  ManagedInv'
  <2>1. unit' = unit \/ unit' = ControlBackground
    BY <1>3 DEF Process, InitExits, NodeStarts, NodeExits, NodeDies, service
  <2>2. osNode' = osNode /\ (unit.active => unit'.active)
    BY <1>1, <1>3, <2>1, ProcessKeeps DEF ControlBackground
  <2>. QED BY <2>2 DEF ManagedInv
<1>4. ASSUME Service \/ Upgrade \/ UNCHANGED vars
      PROVE  ManagedInv'
  <2>1. unit' = unit
    BY <1>4, RestKeeps
  <2>2. osNode' = osNode \/ unit.active \/ osNode # "none"
    BY <1>4 DEF Service, ServiceRuns, ServiceStarts, Upgrade, vars, service
  <2>. QED BY <2>1, <2>2 DEF ManagedInv
<1>5. ASSUME \/ Quit \/ Ends
             \/ \E c \in Slots : \/ Launch(c)
                                 \/ \E op \in UserCalls \cup {"tick"} : Begin(c, op)
      PROVE  ManagedInv'
  <2>1. UNCHANGED <<unit, osNode>>
    BY <1>5, QuitFacts, EndTyped, LaunchFacts, BeginFacts DEF service
  <2>. QED BY <2>1 DEF ManagedInv
<1>. QED BY <1>2, <1>3, <1>4, <1>5 DEF Next, Ends

Pending(steps) ==
    steps \cap {"bootstrap", "reconcile", "askService", "startUnit", "saveDisabled"} # {}

Answers(n) == \E i \in Supervisors : n[i] = "serving"

(* A call that stops the service has an excuse (e), starts it again, or    *)
(* turns background mode off.                                              *)
ServiceOwed(steps, s, e) ==
    /\ "stopUnit" \in steps /\ s.background =>
          e \/ "startUnit" \in steps \/ "saveDisabled" \in steps
    /\ "unregister" \in steps => "saveDisabled" \in steps

ServiceInv ==
    ~overlapped =>
      /\ app.on /\ settings.background /\ ~excused =>
            unit.active \/ Answers(node) \/ \E c \in Slots : Pending(Ahead(c))
      /\ \A c \in Slots : ServiceOwed(Ahead(c), settings, excused)

LEMMA ServiceMoved ==
    ASSUME TypeInv', AloneInv, ~overlapped, NEW c \in Slots, Busy(c),
           NEW steps, NEW snap, Moved(c, steps, snap),
           settings'.background /\ ~excused' => unit'.active \/ Answers(node') \/ Pending(steps),
           ServiceOwed(steps, settings', excused')
    PROVE  ServiceInv'
<1>1. ASSUME NEW d \in Slots, d # c
      PROVE  ServiceOwed(Ahead(d), settings, excused)'
  <2>1. Ahead(d)' = {}
    BY <1>1, SoleCall, NothingAheadNext DEF Busy
  <2>. QED BY <2>1 DEF ServiceOwed
<1>2. Ahead(c)' = steps
  BY MovedAhead
<1>3. ServiceOwed(Ahead(c), settings, excused)'
  BY <1>2
<1>4. Pending(steps) => \E d \in Slots : Pending(Ahead(d)')
  BY <1>2
<1>. QED BY <1>1, <1>3, <1>4 DEF ServiceInv

LEMMA ServiceAt ==
    ASSUME TypeInv, AloneInv, ServiceInv, ~overlapped, NEW c \in Slots, NEW h, At(c, h)
    PROVE  /\ settings.background /\ ~excused =>
                 unit.active \/ Answers(node) \/ Pending({h} \cup After(c))
           /\ ServiceOwed({h} \cup After(c), settings, excused)
           /\ After(c) \subseteq Later(h)
           /\ Busy(c)
<1>1. /\ Ahead(c) = {h} \cup After(c) /\ app.on /\ After(c) \subseteq Later(h) /\ Busy(c)
  BY AtFacts DEF Busy
<1>2. ASSUME NEW d \in Slots, Pending(Ahead(d))
      PROVE  d = c
  <2>1. Ahead(d) # {}
    BY <1>2 DEF Pending
  <2>. QED BY <1>1, <2>1, NothingAhead DEF AloneInv
<1>. QED BY <1>1, <1>2 DEF ServiceInv

(* A piece that keeps the mode, the service and the nodes, and what        *)
(* promises the service.                                                   *)
LEMMA ServiceQuiet ==
    ASSUME TypeInv, TypeInv', AloneInv, ServiceInv, ~overlapped, NEW c \in Slots, NEW h, At(c, h),
           NEW steps, NEW snap, Moved(c, steps, snap),
           settings'.background = settings.background, unit'.active = unit.active,
           node' = node, excused' = excused,
           Pending({h} \cup After(c)) => Pending(steps),
           ServiceOwed(steps, settings, excused)
    PROVE  ServiceInv'
<1>1. settings'.background /\ ~excused' => unit'.active \/ Answers(node') \/ Pending(steps)
  BY ServiceAt
<1>2. ServiceOwed(steps, settings', excused')
  BY DEF ServiceOwed
<1>. QED BY <1>1, <1>2, ServiceAt, ServiceMoved

LEMMA ServicePieces ==
    ASSUME TypeInv, TypeInv', AloneInv, SettingsInv, NodesInv, ManagedInv, ServiceInv, ~overlapped,
           NEW c \in Slots
    PROVE  /\ Bootstrap(c) \/ Enable(c) \/ Disable(c) \/ Start(c) \/ Stop(c) \/ Restart(c)
                 \/ Remove(c) => ServiceInv'
           /\ Reconcile(c) \/ AskService(c) => ServiceInv'
           /\ Spawn(c) \/ Supervise(c) \/ SaveDisabled(c) \/ Wipe(c) => ServiceInv'
           /\ StartUnit(c) \/ StopUnit(c) \/ Unregister(c) \/ RunInit(c) \/ Register(c)
                 => ServiceInv'
<1>. USE LaterFacts
<1>1. /\ settings \in Settings /\ Snap(c) \in Settings /\ excused \in BOOLEAN
      /\ unit \in [registered : BOOLEAN, active : BOOLEAN]
  BY SnapTyped DEF TypeInv, ProcessesTyped, HistoryTyped, Snap
<1>2. \A h : At(c, h) =>
          /\ settings.background /\ ~excused =>
                unit.active \/ Answers(node) \/ Pending({h} \cup After(c))
          /\ ServiceOwed({h} \cup After(c), settings, excused)
          /\ After(c) \subseteq Later(h)
          /\ Busy(c)
  BY ServiceAt
<1>3. \A steps, snap :
         /\ Busy(c) /\ Moved(c, steps, snap)
         /\ settings'.background /\ ~excused' => unit'.active \/ Answers(node') \/ Pending(steps)
         /\ ServiceOwed(steps, settings', excused')
         => ServiceInv'
  BY ServiceMoved
<1>4. \A steps : steps \cap {"stopUnit", "unregister"} = {} => ServiceOwed(steps, settings', excused')
  BY DEF ServiceOwed
<1>5. ASSUME \/ Bootstrap(c) \/ Enable(c) \/ Disable(c) \/ Start(c) \/ Stop(c) \/ Restart(c)
             \/ Remove(c)
      PROVE  ServiceInv'
  <2>1. \E h : At(c, h)
    BY <1>5 DEF Bootstrap, Enable, Disable, Start, Stop, Restart, Remove
  <2>2. \A steps, snap :
           Moved(c, steps, snap) /\ Pending(steps) /\ ServiceOwed(steps, settings', excused')
             => ServiceInv'
    BY <1>2, <1>3, <2>1
  <2>3. \A steps, snap :
           /\ Moved(c, steps, snap)
           /\ settings'.background => excused'
           /\ ServiceOwed(steps, settings', excused')
           => ServiceInv'
    BY <1>2, <1>3, <2>1
  <2>4. CASE Bootstrap(c)
    <3>1. Moved(c, {"saveCli", "reconcile", "update", "schedule"}, settings)
      BY <2>4, FirstMoves
    <3>2. Pending({"saveCli", "reconcile", "update", "schedule"})
      BY DEF Pending
    <3>. QED BY <1>4, <2>2, <3>1, <3>2
  <2>5. CASE Enable(c)
    <3>1. Moved(c, {"runInit", "register", "startUnit", "saveEnabled", "saveCli", "api"}, settings')
      BY <2>5, FirstMoves
    <3>2. Pending({"runInit", "register", "startUnit", "saveEnabled", "saveCli", "api"})
      BY DEF Pending
    <3>. QED BY <1>4, <2>2, <3>1, <3>2
  <2>6. CASE Disable(c)
    <3>1. Moved(c, {"stopUnit", "unregister", "saveDisabled"}, Snap(c))
      BY <2>6, FirstMoves
    <3>2. Pending({"stopUnit", "unregister", "saveDisabled"})
          /\ ServiceOwed({"stopUnit", "unregister", "saveDisabled"}, settings', excused')
      BY DEF Pending, ServiceOwed
    <3>. QED BY <2>2, <3>1, <3>2
  <2>7. CASE Start(c)
    <3>1. settings' = settings /\ At(c, "start") /\ UNCHANGED <<unit, node, excused>>
      BY <2>7 DEF Start, files, service, children, history
    <3>2. Pending({"askService"})
      BY DEF Pending
    <3>3. settings.background => Moved(c, {"askService"}, Snap(c)) \/ Moved(c, {}, Snap(c))
      BY <2>7, FirstMoves
    <3>4. ~settings.background => Moved(c, {"health"}, Snap(c)) \/ Moved(c, {}, Snap(c))
      BY <2>7, FirstMoves
    <3>5. After(c) \subseteq Later("start") /\ Later("start") = {} /\ Busy(c)
      BY <1>2, <3>1
    <3>6. ~Pending({"start"} \cup After(c))
      BY <3>5 DEF Pending
    <3>7. settings.background /\ ~excused => unit.active \/ Answers(node)
      BY <1>2, <3>1, <3>6
    <3>8. /\ ServiceOwed({}, settings', excused') /\ ServiceOwed({"health"}, settings', excused')
          /\ ServiceOwed({"askService"}, settings', excused')
      BY <1>4
    <3>. QED BY <1>3, <3>1, <3>2, <3>3, <3>4, <3>5, <3>7, <3>8
  <2>8. CASE Stop(c)
    <3>1. settings' = settings /\ (settings.background => excused')
      BY <2>8 DEF Stop, files
    <3>2. ServiceOwed({"stopUnit"}, settings', excused')
      BY <3>1 DEF ServiceOwed
    <3>. QED BY <1>4, <2>3, <2>8, <3>1, <3>2, FirstMoves
  <2>9. CASE Restart(c)
    <3>1. settings' = settings
      BY <2>9 DEF Restart, files
    <3>2. Pending({"stopUnit", "startUnit", "api"})
          /\ ServiceOwed({"stopUnit", "startUnit", "api"}, settings', excused')
      BY DEF Pending, ServiceOwed
    <3>. QED BY <1>4, <2>2, <2>3, <2>9, <3>1, <3>2, FirstMoves
  <2>10. CASE Remove(c)
    <3>1. settings' = settings
      BY <2>10 DEF Remove, files
    <3>2. Pending({"stopUnit", "unregister", "saveDisabled", "wipe"})
          /\ ServiceOwed({"stopUnit", "unregister", "saveDisabled", "wipe"}, settings', excused')
      BY DEF Pending, ServiceOwed
    <3>. QED BY <1>4, <2>2, <2>3, <2>10, <3>1, <3>2, FirstMoves
  <2>. QED BY <1>5, <2>4, <2>5, <2>6, <2>7, <2>8, <2>9, <2>10
<1>6. ASSUME Reconcile(c) \/ AskService(c)
      PROVE  ServiceInv'
  <2>1. /\ UNCHANGED <<settings, unit, node>> /\ LooksServed
        /\ \E h : At(c, h)
    BY <1>6 DEF Reconcile, AskService, files, service, children
  <2>2. Reachable /\ ~excused' => unit.active \/ Answers(node)
    BY <2>1 DEF LooksServed, Serving, ManagedInv, Answers
  <2>3. CASE Reconcile(c)
    <3>1. At(c, "reconcile")
      BY <2>3 DEF Reconcile
    <3>2. After(c) \subseteq {"update", "schedule"} /\ Snap(c).background = settings.background
      BY <1>2, <3>1, SettingsAt DEF Owed, SnapSteps
    <3>3. Pending({"askService"} \cup After(c))
      BY DEF Pending
    <3>4. /\ ServiceOwed(After(c), settings', excused')
          /\ ServiceOwed({"askService"} \cup After(c), settings', excused')
          /\ ServiceOwed({"health"} \cup After(c), settings', excused')
      BY <3>2 DEF ServiceOwed
    <3>. QED BY <1>2, <1>3, <2>1, <2>2, <2>3, <3>2, <3>3, <3>4, InsertMoves
  <2>4. CASE AskService(c)
    <3>1. At(c, "askService")
      BY <2>4 DEF AskService
    <3>2. After(c) \subseteq {"update", "schedule"}
      BY <1>2, <3>1
    <3>3. Pending({"startUnit", "api"} \cup After(c))
      BY DEF Pending
    <3>4. /\ ServiceOwed(After(c), settings', excused')
          /\ ServiceOwed({"startUnit", "api"} \cup After(c), settings', excused')
      BY <3>2 DEF ServiceOwed
    <3>. QED BY <1>2, <1>3, <2>1, <2>2, <2>4, <3>3, <3>4, InsertMoves
  <2>. QED BY <1>6, <2>3, <2>4
<1>7. ASSUME Spawn(c) \/ Supervise(c) \/ SaveDisabled(c) \/ Wipe(c)
      PROVE  ServiceInv'
  <2>1. ~settings'.background /\ \E h : At(c, h)
    <3>1. CASE Spawn(c)
      <4>1. At(c, "health") /\ settings' = settings
        BY <3>1 DEF Spawn, files
      <4>. QED BY <4>1, NodesAt DEF NodeOwed
    <3>2. CASE Supervise(c)
      <4>1. At(c, "init") /\ settings' = settings
        BY <3>2 DEF Supervise, files
      <4>. QED BY <4>1, NodesAt DEF NodeOwed
    <3>3. CASE SaveDisabled(c)
      BY <1>1, <3>3 DEF SaveDisabled, Settings
    <3>4. CASE Wipe(c)
      BY <3>4 DEF Wipe, Defaults
    <3>. QED BY <1>7, <3>1, <3>2, <3>3, <3>4
  <2>2. \E steps, snap : /\ Moved(c, steps, snap)
                         /\ steps \cap {"stopUnit", "unregister"} = {}
    <3>1. Supervise(c) => After(c) \subseteq {"api", "update", "schedule"}
      BY <1>2 DEF Supervise
    <3>2. Spawn(c) => After(c) \subseteq {"update", "schedule"}
      BY <1>2 DEF Spawn
    <3>3. SaveDisabled(c) => After(c) \subseteq {"wipe"}
      BY <1>2 DEF SaveDisabled
    <3>4. CASE Spawn(c)
      <4>1. \/ Moved(c, After(c), Snap(c))
            \/ Moved(c, {"init", "api"} \cup After(c), Snap(c))
        BY <3>4, SpawnMoves
      <4>. QED BY <3>2, <3>4, <4>1
    <3>5. CASE Supervise(c) \/ SaveDisabled(c) \/ Wipe(c)
      <4>1. \/ Moved(c, {}, Snap(c))
            \/ (Supervise(c) \/ SaveDisabled(c)) /\ Moved(c, After(c), Snap(c))
        BY <3>5, RestOrReturn
      <4>. QED BY <3>1, <3>3, <4>1
    <3>. QED BY <1>7, <3>4, <3>5
  <2>3. \A steps, snap : Moved(c, steps, snap) /\ steps \cap {"stopUnit", "unregister"} = {}
                           => ServiceInv'
    BY <1>2, <1>3, <1>4, <2>1
  <2>. QED BY <2>2, <2>3
<1>8. ASSUME StartUnit(c) PROVE ServiceInv'
  <2>1. /\ At(c, "startUnit") /\ (excused' \/ unit'.active)
    BY <1>1, <1>8 DEF StartUnit
  <2>2. After(c) \cap {"stopUnit", "unregister"} = {} /\ Busy(c)
    BY <1>2, <2>1
  <2>3. Moved(c, After(c), Snap(c)) \/ Moved(c, {}, Snap(c))
    BY <1>8, RestOrReturn
  <2>4. ServiceOwed(After(c), settings', excused') /\ ServiceOwed({}, settings', excused')
    BY <1>4, <2>2
  <2>. QED BY <1>3, <2>1, <2>2, <2>3, <2>4
<1>9. ASSUME StopUnit(c) PROVE ServiceInv'
  <2>1. /\ At(c, "stopUnit") /\ settings' = settings /\ excused' \in {TRUE, excused}
        /\ Moved(c, After(c), Snap(c))
    BY <1>9, RestOrReturn DEF StopUnit, files
  <2>2. ServiceOwed({"stopUnit"} \cup After(c), settings, excused)
    BY <1>2, <2>1
  <2>3. settings'.background /\ ~excused' => Pending(After(c))
    BY <1>1, <2>1, <2>2 DEF ServiceOwed, Pending
  <2>4. ServiceOwed(After(c), settings', excused')
    BY <2>1, <2>2, NotLater, <1>2 DEF ServiceOwed
  <2>. QED BY <1>2, <1>3, <2>1, <2>3, <2>4
<1>10. ASSUME Unregister(c) PROVE ServiceInv'
  <2>1. /\ At(c, "unregister") /\ Moved(c, After(c), Snap(c))
    BY <1>10, RestOrReturn DEF Unregister
  <2>2. "saveDisabled" \in After(c) /\ After(c) \subseteq {"saveDisabled", "wipe"}
    BY <1>2, <2>1 DEF ServiceOwed
  <2>3. Pending(After(c))
    BY <2>2 DEF Pending
  <2>4. ServiceOwed(After(c), settings', excused')
    BY <1>4, <2>2
  <2>5. Busy(c)
    BY <1>2, <2>1
  <2>. QED BY <1>3, <2>1, <2>3, <2>4, <2>5
<1>11. ASSUME RunInit(c) \/ Register(c) PROVE ServiceInv'
  <2>1. PICK h \in {"runInit", "register"} : At(c, h)
    BY <1>11 DEF RunInit, Register
  <2>2. /\ After(c) \cap {"stopUnit", "unregister"} = {}
        /\ ServiceOwed(After(c), settings', excused')
    <3>1. After(c) \subseteq Later(h)
      BY <1>2, <2>1
    <3>2. After(c) \cap {"stopUnit", "unregister"} = {}
      BY <2>1, <3>1
    <3>. QED BY <1>4, <3>2
  <2>3. ServiceOwed({}, settings', excused')
    BY <1>4
  <2>4. CASE excused'
    BY <1>2, <1>3, <1>11, <2>1, <2>2, <2>3, <2>4, RestOrReturn
  <2>5. CASE ~excused'
    <3>1. /\ UNCHANGED <<settings, node, excused>> /\ unit'.active = unit.active
          /\ Continue(c, Rest(c))
      BY <1>1, <1>11, <2>5 DEF RunInit, Register, files, service, children
    <3>2. Moved(c, After(c), Snap(c))
      BY <2>1, <3>1, RestMoves
    <3>3. Pending({h} \cup After(c)) => Pending(After(c))
      BY <2>1 DEF Pending
    <3>. QED BY <1>2, <1>3, <2>1, <2>2, <3>1, <3>2, <3>3
  <2>. QED BY <2>4, <2>5
<1>. QED BY <1>5, <1>6, <1>7, <1>8, <1>9, <1>10, <1>11

(* The pieces that leave mode, service and nodes alone.                    *)
LEMMA ServiceRest ==
    ASSUME TypeInv, TypeInv', AloneInv, SettingsInv, ServiceInv, ~overlapped, NEW c \in Slots,
           \/ Schedule(c) \/ Api(c) \/ Update(c) \/ UpdateApplied(c) \/ Tick(c) \/ TickApplied(c)
           \/ SaveTickCli(c) \/ SaveEnabled(c) \/ Repair(c) \/ SaveCli(c) \/ UninstallCli(c)
           \/ CliStatus(c) \/ SaveStatus(c) \/ Copy(c)
    PROVE  ServiceInv'
<1>1. settings \in Settings /\ Snap(c) \in Settings
  BY SnapTyped DEF Snap
<1>2. UNCHANGED <<unit, node, excused>>
  BY DEF Schedule, Api, Update, UpdateApplied, Tick, TickApplied, SaveTickCli, SaveEnabled, Repair,
         SaveCli, UninstallCli, CliStatus, SaveStatus, Copy, service, children, history
<1>3. PICK h \in {"schedule", "api", "update", "saveUpdate", "tick", "tickDone", "tickCli",
                  "saveEnabled", "repair", "saveCli", "uninstallCli", "cliStatus", "saveStatus",
                  "copy"} : At(c, h)
  BY DEF Schedule, Api, Update, UpdateApplied, Tick, TickApplied, SaveTickCli, SaveEnabled, Repair,
         SaveCli, UninstallCli, CliStatus, SaveStatus, Copy
<1>4. settings'.background = settings.background
  <2>1. \/ settings' = settings
        \/ settings' = Snap(c) /\ h \in {"saveUpdate", "saveEnabled"}
        \/ \E b : settings' = [Snap(c) EXCEPT !.cli = b] /\ h \in {"saveCli", "saveStatus"}
        \/ \E b : settings' = [settings EXCEPT !.cli = b]
    <3>1. CASE Schedule(c) \/ Api(c) \/ Tick(c) \/ TickApplied(c) \/ Repair(c) \/ CliStatus(c)
               \/ Copy(c)
      BY <3>1 DEF Schedule, Api, Tick, TickApplied, Repair, CliStatus, Copy, files
    <3>2. CASE Update(c)
      BY <3>2, InsertMoves
    <3>3. CASE SaveTickCli(c) \/ UninstallCli(c)
      BY <3>3 DEF SaveTickCli, UninstallCli
    <3>4. CASE UpdateApplied(c) \/ SaveEnabled(c) \/ SaveCli(c) \/ SaveStatus(c)
      <4>1. \/ settings' = Snap(c) /\ (At(c, "saveUpdate") \/ At(c, "saveEnabled"))
            \/ /\ \E b : settings' = [Snap(c) EXCEPT !.cli = b]
               /\ At(c, "saveCli") \/ At(c, "saveStatus")
        BY <3>4 DEF UpdateApplied, SaveUpdate, SaveEnabled, SaveCli, SaveStatus, Snap
      <4>. QED BY <1>3, <4>1 DEF At
    <3>. QED BY <3>1, <3>2, <3>3, <3>4
  <2>2. h \in SnapSteps => Snap(c).background = settings.background
    BY <1>3, SettingsAt DEF Owed
  <2>. QED BY <1>1, <2>1, <2>2 DEF SnapSteps, Settings
<1>5. /\ After(c) \subseteq Later(h) /\ ServiceOwed({h} \cup After(c), settings, excused)
  BY <1>3, ServiceAt
<1>6. \A x \in After(c) : x \notin {"stopUnit", "unregister"}
  BY <1>3, <1>5, LaterFacts
<1>7. h \notin {"bootstrap", "reconcile", "askService", "startUnit", "saveDisabled"}
  BY <1>3
<1>8. \E steps, snap : /\ Moved(c, steps, snap)
                       /\ Pending(After(c)) => Pending(steps)
                       /\ ServiceOwed(steps, settings, excused)
  <2>1. \A steps : (\A x \in steps : x \notin {"stopUnit", "unregister"})
                      => ServiceOwed(steps, settings, excused)
    BY DEF ServiceOwed
  <2>2. \A steps : After(c) \subseteq steps => (Pending(After(c)) => Pending(steps))
    BY DEF Pending
  <2>3. CASE Schedule(c) \/ SaveEnabled(c) \/ Copy(c) \/ SaveCli(c)
    <3>1. \E snap : Moved(c, After(c), snap)
      BY <2>3, RestOrReturn
    <3>. QED BY <1>6, <2>1, <3>1
  <2>4. ASSUME After(c) \cap {"bootstrap", "reconcile", "askService", "startUnit", "saveDisabled"} = {},
               NEW steps, NEW snap, Moved(c, steps, snap),
               \A x \in steps : x \in After(c) \/ x # "unregister",
               "stopUnit" \in steps => "stopUnit" \in After(c) \/ "startUnit" \in steps
        PROVE  \E st, sn : /\ Moved(c, st, sn)
                           /\ Pending(After(c)) => Pending(st)
                           /\ ServiceOwed(st, settings, excused)
    <3>1. ServiceOwed(steps, settings, excused)
      BY <1>6, <2>4 DEF ServiceOwed
    <3>. QED BY <2>4, <3>1 DEF Pending
  <2>5. CASE Api(c) \/ SaveTickCli(c) \/ UninstallCli(c) \/ SaveStatus(c)
    <3>1. Moved(c, After(c), Snap(c)) \/ Moved(c, {}, Snap(c))
      BY <2>5, RestOrReturn
    <3>2. At(c, "api") \/ At(c, "tickCli") \/ At(c, "uninstallCli") \/ At(c, "saveStatus")
      BY <2>5 DEF Api, SaveTickCli, UninstallCli, SaveStatus
    <3>3. After(c) \cap {"bootstrap", "reconcile", "askService", "startUnit", "saveDisabled"} = {}
      BY <3>2, ServiceAt, LaterFacts
    <3>. QED BY <2>4, <3>1, <3>3
  <2>6. CASE Repair(c) \/ CliStatus(c)
    <3>1. Moved(c, {"saveCli"}, settings) \/ Moved(c, {"saveStatus"}, settings)
      BY <2>6, FirstMoves
    <3>2. At(c, "repair") \/ At(c, "cliStatus")
      BY <2>6 DEF Repair, CliStatus
    <3>3. After(c) \cap {"bootstrap", "reconcile", "askService", "startUnit", "saveDisabled"} = {}
      BY <3>2, ServiceAt, LaterFacts
    <3>. QED BY <2>4, <3>1, <3>3
  <2>7. CASE Update(c) \/ UpdateApplied(c)
    <3>1. \E snap :
             \/ Moved(c, {"saveCli"} \cup After(c), snap)
             \/ Moved(c, After(c), snap)
             \/ Moved(c, {"stopUnit", "copy", "runInit", "startUnit", "saveUpdate"} \cup After(c), snap)
             \/ Moved(c, {"copy", "runInit", "saveUpdate"} \cup After(c), snap)
      BY <2>7, InsertMoves DEF SavedMove
    <3>2. At(c, "update") \/ At(c, "saveUpdate")
      BY <2>7 DEF Update, UpdateApplied
    <3>3. After(c) \cap {"bootstrap", "reconcile", "askService", "startUnit", "saveDisabled"} = {}
      BY <3>2, ServiceAt, LaterFacts
    <3>. QED BY <2>4, <3>1, <3>3
  <2>8. CASE Tick(c) \/ TickApplied(c)
    <3>1. \/ Moved(c, {"tickCli"}, Snap(c))
          \/ Moved(c, {}, Snap(c))
          \/ Moved(c, {"stopUnit", "copy", "runInit", "startUnit", "tickDone"}, Snap(c))
          \/ Moved(c, {"copy", "runInit", "tickDone"}, Snap(c))
      BY <2>8, InsertMoves DEF TickMove
    <3>2. At(c, "tick") \/ At(c, "tickDone")
      BY <2>8 DEF Tick, TickApplied
    <3>3. After(c) \cap {"bootstrap", "reconcile", "askService", "startUnit", "saveDisabled"} = {}
      BY <3>2, ServiceAt, LaterFacts
    <3>. QED BY <2>4, <3>1, <3>3
  <2>. QED BY <2>3, <2>5, <2>6, <2>7, <2>8
<1>9. Pending({h} \cup After(c)) => Pending(After(c))
  BY <1>7 DEF Pending
<1>. QED BY <1>2, <1>3, <1>4, <1>8, <1>9, ServiceQuiet

LEMMA ServiceOpened ==
    ASSUME TypeInv', NEW c \in Slots, NEW op \in UserCalls \cup {"tick", "bootstrap"},
           Opened(c, op), Ahead(c)' = {op}, \A d \in Slots : ~Busy(d)
    PROVE  \A d \in Slots : ServiceOwed(Ahead(d), settings, excused)'
<1>1. ASSUME NEW d \in Slots, d # c
      PROVE  Ahead(d)' = {}
  BY <1>1, NothingAheadNext DEF Opened, Busy
<1>2. op \notin {"stopUnit", "unregister"}
  BY DEF UserCalls
<1>. QED BY <1>1, <1>2 DEF ServiceOwed

LEMMA ServiceNext ==
    ASSUME CallsInv, ManagedInv, ServiceInv, [Next]_vars
    PROVE  ServiceInv'
<1>. USE CallsNext DEF CallsInv
<1>1. ASSUME NEW c \in Slots, Piece(c)
      PROVE  ServiceInv'
  <2>1. CASE overlapped
    BY <1>1, <2>1, PieceHistoryTyped DEF ServiceInv
  <2>2. CASE ~overlapped
    BY <1>1, <2>2, ServicePieces, ServiceRest DEF Piece
  <2>. QED BY <2>1, <2>2
<1>2. ASSUME NEW c \in Slots, NEW op \in UserCalls \cup {"tick"}, Begin(c, op)
      PROVE  ServiceInv'
  <2>. SUFFICES ASSUME ~overlapped' PROVE ServiceInv'
    BY DEF ServiceInv
  <2>1. ~overlapped /\ (\A d \in Slots : ~Busy(d)) /\ app.on
        /\ UNCHANGED <<settings, unit, node, excused>>
    BY <1>2, BeginFacts
  <2>2. \A d \in Slots : ~Pending(Ahead(d))
    BY <2>1, NothingAhead DEF Pending
  <2>3. \A d \in Slots : ServiceOwed(Ahead(d), settings, excused)'
    BY <1>2, <2>1, BeginFacts, ServiceOpened
  <2>. QED BY <2>1, <2>2, <2>3 DEF ServiceInv
<1>3. ASSUME NEW c \in Slots, Launch(c)
      PROVE  ServiceInv'
  <2>1. \A d \in Slots : ServiceOwed(Ahead(d), settings, excused)'
    BY <1>3, LaunchFacts, ServiceOpened
  <2>2. Pending(Ahead(c)')
    BY <1>3, LaunchFacts DEF Pending
  <2>. QED BY <2>1, <2>2 DEF ServiceInv
<1>4. ASSUME Ends
      PROVE  ServiceInv'
  <2>1. ~app'.on
    BY <1>4, EndTyped, ForgetTyped
  <2>2. \A d \in Slots : Ahead(d)' = {}
    BY <1>4, EndTyped, ForgetTyped, NothingAheadNext DEF NoCall, Busy
  <2>. QED BY <2>1, <2>2 DEF ServiceInv, ServiceOwed
<1>5. ASSUME NEW i \in Supervisors, Process(i) \/ NodeDies(i)
      PROVE  ServiceInv'
  <2>1. UNCHANGED <<app, settings, calls, overlapped>>
    BY <1>5, ProcessKeeps
  <2>2. /\ unit \in [registered : BOOLEAN, active : BOOLEAN]
        /\ node \in [Supervisors -> NodeStates]
    BY DEF TypeInv, ProcessesTyped, NodeStates
  <2>3. \A d \in Slots : Ahead(d)' = Ahead(d)
    BY <2>1 DEF Ahead
  <2>4. unit.active => unit'.active
    <3>1. unit' = unit \/ unit' = ControlBackground
      BY <1>5 DEF Process, InitExits, NodeStarts, NodeExits, NodeDies, service
    <3>. QED BY <2>2, <3>1 DEF ControlBackground
  <2>5. CASE NodeDies(i)
    <3>1. excused' = TRUE
      BY <2>5 DEF NodeDies
    <3>. QED BY <2>1, <2>3, <3>1 DEF ServiceInv, ServiceOwed
  <2>6. CASE Process(i)
    <3>1. excused' = excused
      BY <2>6 DEF Process, InitExits, NodeStarts, NodeExits, history
    <3>2. \A o \in Supervisors : node[o] = "serving" => node'[o] = "serving"
      <4>1. \/ node' = node
            \/ /\ node[i] \in {"starting", "stopping"}
               /\ \/ ChildExits(i, "stopped")
                  \/ node' = [node EXCEPT ![i] = "serving"]
        BY <2>6 DEF Process, InitExits, NodeStarts, NodeExits
      <4>. QED BY <2>2, <4>1, ChildExitsFacts
    <3>3. Answers(node) => Answers(node')
      BY <3>2 DEF Answers
    <3>. QED BY <2>1, <2>3, <2>4, <3>1, <3>3 DEF ServiceInv
  <2>. QED BY <1>5, <2>5, <2>6
<1>6. ASSUME Service \/ Upgrade \/ UNCHANGED vars
      PROVE  ServiceInv'
  <2>1. UNCHANGED <<settings, unit, node, calls, overlapped, excused>> /\ app'.on = app.on
    BY <1>6, RestKeeps
  <2>2. \A d \in Slots : Ahead(d)' = Ahead(d)
    BY <2>1 DEF Ahead
  <2>. QED BY <2>1, <2>2 DEF ServiceInv
<1>7. ASSUME Quit
      PROVE  ServiceInv'
  <2>1. /\ UNCHANGED <<settings, unit, calls, overlapped, excused>> /\ app.on
        /\ settings.background => node' = node
    BY <1>7, QuitFacts, StopTemporaryFacts
  <2>2. \A d \in Slots : Ahead(d)' = Ahead(d)
    BY <2>1 DEF Ahead
  <2>. QED BY <2>1, <2>2 DEF ServiceInv
<1>. QED BY <1>1, <1>2, <1>3, <1>4, <1>5, <1>6, <1>7 DEF Next, Ends

(* In background mode every call leaves the service active, or a node that *)
(* answers, unless an excuse holds or calls overlapped.                    *)
THEOREM ServiceKept == Spec => []ServiceStaysActive
<1>1. Init => CallsInv /\ ManagedInv /\ ServiceInv
  <2>. SUFFICES ASSUME Init PROVE CallsInv /\ ManagedInv /\ ServiceInv
    OBVIOUS
  <2>1. /\ CallsInv /\ (\A c \in Slots : ~Busy(c)) /\ ~app.on /\ osNode = "none"
    BY CallsInit DEF Init, Busy, NoCall
  <2>2. \A c \in Slots : Ahead(c) = {}
    BY <2>1, NothingAhead DEF CallsInv
  <2>. QED BY <2>1, <2>2 DEF ManagedInv, ServiceInv, ServiceOwed
<1>2. CallsInv /\ ManagedInv /\ ServiceInv /\ [Next]_vars => (CallsInv /\ ManagedInv /\ ServiceInv)'
  BY CallsNext, ManagedNext, ServiceNext DEF CallsInv
<1>3. CallsInv /\ ServiceInv => ServiceStaysActive
  <2>. SUFFICES ASSUME CallsInv, ServiceInv, app.on, Idle, settings.background, ~overlapped,
                       ~excused
                PROVE  unit.active \/ Reachable
    BY DEF ServiceStaysActive
  <2>1. \A c \in Slots : ~Pending(Ahead(c))
    BY NothingAhead DEF CallsInv, Idle, Free, Busy, Pending
  <2>2. Answers(node) => Reachable
    BY DEF Answers, Reachable
  <2>. QED BY <2>1, <2>2 DEF ServiceInv
<1>. QED BY <1>1, <1>2, <1>3, PTL DEF Spec

=============================================================================
