------------------------------ MODULE NodeRuntime ------------------------------
(***************************************************************************)
(* The commands on one runtime directory, run by any number of processes   *)
(* without a lock: start-local-node, with or without                       *)
(* --reset-creator-identity, shutdown-local-node and restart-local-node    *)
(* (local_startup.py, local_shutdown.py, local_restart.py, identity.py).   *)
(* A command is a sequence of reads and atomic file writes; it may fail or *)
(* die before each.  The node ID is derived from the hardware, which       *)
(* differs once the directory has been moved, and the creator is the node  *)
(* itself in every identity these commands write.                          *)
(***************************************************************************)
EXTENDS Naturals, Sequences, FiniteSets

CONSTANTS
    Processes,
    Nodes,        \* the node IDs of the machines the directory may be on
    Works,        \* files in work/inputs and work/in-progress
    None,
    MaxCalls,     \* bound: commands run
    MaxFaults,    \* bound: failures and deaths
    MaxMoves,     \* bound: moves to another machine
    MaxClock      \* bound: seconds that pass

VARIABLES
    machine,      \* the node ID the hardware yields
    config, identity, manifest,   \* what each file names, or None
    quarantine,   \* copies of identities, made before a reset replaces them
    resets,       \* receipts of identity resets
    receipts,     \* startup validation receipts
    lineage,      \* startup lineage records
    state,        \* shutdown-state.json, or None
    stopped,      \* shutdown-interrupted-work.json
    stops,        \* node.shutdown events of the local audit log
    restarts,     \* restart receipts
    stray,        \* there is a log, a temporary file or a file of finished work
    open,         \* work that has an input or is in progress, without output
    clock,        \* the second artifacts are stamped with
    call,         \* the command each process is in
    origin,       \* history: the first identity of the directory, or None
    overwritten,  \* history: identities that a copy was put over
    calls, faults, moves

identityFiles == <<config, identity, manifest>>
resetFiles == <<quarantine, resets>>
evidence == <<receipts, lineage>>
stopFiles == <<state, stopped, stops>>
history == <<origin, overwritten>>
bounds == <<calls, faults, moves>>
env == <<machine, open, clock>>
vars == <<identityFiles, resetFiles, evidence, stopFiles, restarts, stray,
          env, call, history, bounds>>

Names == [at : Nat, index : Nat]
NoName == [at |-> 0, index |-> 0]
Manifests == [node : Nodes, adverts : Nodes \cup {None}]
Copies == [of : Nodes, at : Nat, index : Nat]
Backups == [copy : Copies, node : Nodes]
Resets == [previous : Nodes, new : Nodes]
Receipts == [name : Names, node : Nodes]
Lineage == [name : Names, receipt : Names, node : Nodes]
States == [node : Nodes, interrupted : BOOLEAN]
Stops == [instance : Names, alone : BOOLEAN]
Restarts == [previous : Nodes, node : Nodes, receipt : Names,
             decisions : SUBSET Works, open : SUBSET Works, alone : BOOLEAN]

NodeAssumption ==
    /\ None \notin Nodes \cup Manifests \cup States
    /\ MaxCalls \in Nat /\ MaxFaults \in Nat /\ MaxMoves \in Nat /\ MaxClock \in Nat
ASSUME NodeAssumption

Kinds == {"start", "reset", "stop", "restart"}
Steps == {"idle",
          "preload", "compare", "quarantine", "copy", "saveIdentity", "readResets",
          "writeResets", "identity", "creator", "config", "createConfig", "manifest",
          "createManifest", "loadManifest", "upgrade", "receipt", "lineage", "log",
          "stopLog", "stopLoad", "stopWork", "stopState", "stopAudit", "stopAppend",
          "restartRead", "restartReceipt"}
Maybe(S) == S \cup {None}
Calls == [kind : Kinds, pc : Steps, config : Maybe(Nodes), existed : BOOLEAN,
          previous : Maybe(Nodes), copy : Maybe(Copies), resets : SUBSET Resets, node : Maybe(Nodes),
          manifest : Maybe(Manifests), at : Nat, receipt : Names, lineage : Names,
          stopping : Maybe(Nodes), work : SUBSET Works, instance : Names,
          open : SUBSET Works, alone : BOOLEAN]
NoCall == [kind |-> "start", pc |-> "idle", config |-> None, existed |-> FALSE,
           previous |-> None, copy |-> None, resets |-> {}, node |-> None,
           manifest |-> None, at |-> 0, receipt |-> NoName, lineage |-> NoName,
           stopping |-> None, work |-> {}, instance |-> NoName,
           open |-> {}, alone |-> TRUE]

(* An empty directory, or one started before, by a version that wrote no   *)
(* capability advertisements and perhaps on another machine.               *)
Started(node) ==
    LET first == [at |-> 0, index |-> 1]
    IN  /\ config = node /\ identity = node
        /\ manifest = [node |-> node, adverts |-> None]
        /\ receipts = {[name |-> first, node |-> node]}
        /\ lineage = {[name |-> first, receipt |-> first, node |-> node]}
        /\ origin = node /\ stray = TRUE
Empty ==
    /\ config = None /\ identity = None /\ manifest = None
    /\ receipts = {} /\ lineage = {}
    /\ origin = None /\ stray = FALSE

Init ==
    /\ machine \in Nodes
    /\ Empty \/ \E node \in Nodes : Started(node)
    /\ quarantine = {} /\ resets = {}
    /\ state = None /\ stopped = {} /\ stops = <<>>
    /\ restarts = {} /\ overwritten = {}
    /\ open = {} /\ clock = 0
    /\ call = [p \in Processes |-> NoCall]
    /\ calls = 0 /\ faults = 0 /\ moves = 0

-----------------------------------------------------------------------------
(* Calls. *)

At(p, step) == call[p].pc = step
Idle == \A p \in Processes : At(p, "idle")

Put(p, record) == call' = [call EXCEPT ![p] = record]
Go(p, to) == Put(p, [call[p] EXCEPT !.pc = to])
End(p) == Put(p, NoCall)

Resetting(p) == call[p].kind = "reset" /\ call[p].existed

(* A new call, and every call it overlaps, does not run alone. *)
Begin(p, kind) ==
    LET others == \E q \in Processes : ~At(q, "idle")
        first == IF kind \in {"start", "reset"} THEN "preload" ELSE "stopLog"
    IN  /\ At(p, "idle") /\ calls < MaxCalls
        /\ calls' = calls + 1
        /\ call' = [q \in Processes |->
              IF q = p THEN [NoCall EXCEPT !.kind = kind, !.pc = first,
                                           !.open = open, !.alone = ~others]
              ELSE IF At(q, "idle") THEN call[q]
              ELSE [call[q] EXCEPT !.alone = FALSE]]
        /\ UNCHANGED <<identityFiles, resetFiles, evidence, stopFiles, restarts,
                       stray, env, history, faults, moves>>

-----------------------------------------------------------------------------
(* Start: the checks. *)

(* Any file in the directory, that of work waiting or in progress too. *)
Artifacts == stray \/ open # {} \/ identity # None \/ manifest # None

(* No config but other files, a config but no identity, or an identity     *)
(* without a manifest and no reset to replace it.                          *)
Refusable(p) == \/ config = None /\ Artifacts
                \/ config # None /\ identity = None
                \/ identity # None /\ manifest = None /\ call[p].kind # "reset"

Preload(p) ==
    /\ At(p, "preload")
    /\ \/ Refusable(p) /\ End(p)
       \/ /\ ~Refusable(p)
          /\ Put(p, [call[p] EXCEPT !.pc = IF config = None THEN "identity" ELSE "compare",
                                    !.config = config, !.existed = identity # None])
    /\ UNCHANGED <<identityFiles, resetFiles, evidence, stopFiles, restarts,
                   stray, env, history, bounds>>

Compare(p) ==
    /\ At(p, "compare")
    /\ \/ identity # call[p].config /\ End(p)
       \/ /\ identity = call[p].config
          /\ Go(p, IF Resetting(p) THEN "quarantine" ELSE "identity")
    /\ UNCHANGED <<identityFiles, resetFiles, evidence, stopFiles, restarts,
                   stray, env, history, bounds>>

-----------------------------------------------------------------------------
(* Start: the identity and its reset. *)

(* The copy is named after the identity loaded, the second, and how many    *)
(* files there are of that name.                                           *)
CopyName ==
    [of |-> identity, at |-> clock,
     index |-> Cardinality({b \in quarantine : b.copy.of = identity /\ b.copy.at = clock})]

NameCopy(p) ==
    /\ At(p, "quarantine")
    /\ Put(p, [call[p] EXCEPT !.pc = "copy", !.previous = identity, !.copy = CopyName])
    /\ UNCHANGED <<identityFiles, resetFiles, evidence, stopFiles, restarts, stray,
                   env, history, bounds>>

NodesOf(backups) == {b.node : b \in backups}
CopiedTo(name) == {b \in quarantine : b.copy = name}

(* The identity there is now is copied, over a file that has appeared under *)
(* the name meanwhile.                                                     *)
Quarantine(p) ==
    /\ At(p, "copy")
    /\ quarantine' = (quarantine \ CopiedTo(call[p].copy))
                     \cup {[copy |-> call[p].copy, node |-> identity]}
    /\ overwritten' = overwritten \cup (NodesOf(CopiedTo(call[p].copy)) \ {identity})
    /\ Go(p, "saveIdentity")
    /\ UNCHANGED <<identityFiles, resets, evidence, stopFiles, restarts, stray,
                   env, origin, bounds>>

(* The identity document this machine would get: its node is its creator.  *)
NewIdentity == machine

SaveIdentity(p) ==
    /\ At(p, "saveIdentity")
    /\ identity' = NewIdentity
    /\ Go(p, "readResets")
    /\ UNCHANGED <<config, manifest, resetFiles, evidence, stopFiles, restarts,
                   stray, env, history, bounds>>

ReadResets(p) ==
    /\ At(p, "readResets")
    /\ Put(p, [call[p] EXCEPT !.pc = "writeResets", !.resets = resets])
    /\ UNCHANGED <<identityFiles, resetFiles, evidence, stopFiles, restarts,
                   stray, env, history, bounds>>

ResetReceipt(p) == [previous |-> call[p].previous, new |-> machine]

(* Mutant: the receipts of earlier resets are not read first. *)
WriteResetsAfresh(p) ==
    /\ At(p, "writeResets")
    /\ resets' = {ResetReceipt(p)}
    /\ Go(p, "identity")
    /\ UNCHANGED <<identityFiles, quarantine, evidence, stopFiles, restarts,
                   stray, env, history, bounds>>

WriteResets(p) ==
    /\ At(p, "writeResets")
    /\ resets' = call[p].resets \cup {ResetReceipt(p)}
    /\ Go(p, "identity")
    /\ UNCHANGED <<identityFiles, quarantine, evidence, stopFiles, restarts,
                   stray, env, history, bounds>>

(* The identity is loaded, or created: the winner's, if another call was   *)
(* faster.                                                                 *)
LoadIdentity(p) ==
    LET node == IF identity = None THEN NewIdentity ELSE identity
    IN  /\ At(p, "identity")
        /\ identity' = node
        /\ origin' = IF identity = None THEN node ELSE origin
        /\ Put(p, [call[p] EXCEPT !.pc = "creator", !.node = node])
        /\ UNCHANGED <<config, manifest, resetFiles, evidence, stopFiles, restarts,
                       stray, env, overwritten, bounds>>

(* The creator is read from the file again: the config will not match that *)
(* of another identity, but a reset writes whatever it has read.           *)
ReadCreator(p) ==
    /\ At(p, "creator")
    /\ \/ Resetting(p) /\ Go(p, "createConfig")
       \/ ~Resetting(p) /\ identity = call[p].node /\ Go(p, "config")
       \/ ~Resetting(p) /\ identity # call[p].node /\ End(p)
    /\ UNCHANGED <<identityFiles, resetFiles, evidence, stopFiles, restarts,
                   stray, env, history, bounds>>

-----------------------------------------------------------------------------
(* Start: config and manifest. *)

Stamped(p) == Put(p, [call[p] EXCEPT !.pc = "manifest", !.at = clock])

CheckConfig(p) ==
    /\ At(p, "config")
    /\ \/ config = None /\ Go(p, "createConfig")
       \/ config = call[p].node /\ Stamped(p)
       \/ config \notin {None, call[p].node} /\ End(p)
    /\ UNCHANGED <<identityFiles, resetFiles, evidence, stopFiles, restarts,
                   stray, env, history, bounds>>

(* Mutant: a reset keeps the config there is. *)
KeepConfig(p) ==
    /\ At(p, "createConfig")
    /\ config' = IF config = None THEN call[p].node ELSE config
    /\ Stamped(p)
    /\ UNCHANGED <<identity, manifest, resetFiles, evidence, stopFiles, restarts,
                   stray, env, history, bounds>>

(* Created without replacing one that has appeared, but for a reset. *)
WriteConfig(p) ==
    /\ At(p, "createConfig")
    /\ \/ /\ config = None \/ Resetting(p)
          /\ config' = call[p].node /\ Stamped(p)
       \/ config # None /\ ~Resetting(p) /\ End(p) /\ UNCHANGED config
    /\ UNCHANGED <<identity, manifest, resetFiles, evidence, stopFiles, restarts,
                   stray, env, history, bounds>>

CheckManifest(p) ==
    /\ At(p, "manifest")
    /\ Go(p, IF Resetting(p) \/ manifest = None THEN "createManifest" ELSE "loadManifest")
    /\ UNCHANGED <<identityFiles, resetFiles, evidence, stopFiles, restarts,
                   stray, env, history, bounds>>

Manifested(node) == [node |-> node, adverts |-> node]

WriteManifest(p) ==
    /\ At(p, "createManifest")
    /\ \/ /\ manifest = None \/ Resetting(p)
          /\ manifest' = Manifested(call[p].node) /\ Go(p, "loadManifest")
       \/ manifest # None /\ ~Resetting(p) /\ End(p) /\ UNCHANGED manifest
    /\ UNCHANGED <<config, identity, resetFiles, evidence, stopFiles, restarts,
                   stray, env, history, bounds>>

(* Receipt and lineage are named by second and by how many there are. *)
Named(p) == Put(p, [call[p] EXCEPT !.pc = "receipt", !.manifest = None,
    !.receipt = [at |-> call[p].at, index |-> Cardinality(receipts) + 1],
    !.lineage = [at |-> call[p].at, index |-> Cardinality(lineage) + 1]])

(* Mutant: the manifest is taken as it is. *)
LoadManifestUnvalidated(p) ==
    /\ At(p, "loadManifest")
    /\ \/ manifest.adverts = None /\ Put(p, [call[p] EXCEPT !.pc = "upgrade",
                                                            !.manifest = manifest])
       \/ manifest.adverts # None /\ Named(p)
    /\ UNCHANGED <<identityFiles, resetFiles, evidence, stopFiles, restarts,
                   stray, env, history, bounds>>

(* A manifest without advertisements is upgraded before it is validated. *)
LoadManifest(p) ==
    /\ At(p, "loadManifest")
    /\ \/ manifest.adverts = None /\ Put(p, [call[p] EXCEPT !.pc = "upgrade",
                                                            !.manifest = manifest])
       \/ manifest = Manifested(call[p].node) /\ Named(p)
       \/ manifest.adverts # None /\ manifest # Manifested(call[p].node) /\ End(p)
    /\ UNCHANGED <<identityFiles, resetFiles, evidence, stopFiles, restarts,
                   stray, env, history, bounds>>

UpgradeManifest(p) ==
    /\ At(p, "upgrade")
    /\ manifest' = [call[p].manifest EXCEPT !.adverts = call[p].node]
    /\ \/ call[p].manifest.node = call[p].node /\ Named(p)
       \/ call[p].manifest.node # call[p].node /\ End(p)
    /\ UNCHANGED <<config, identity, resetFiles, evidence, stopFiles, restarts,
                   stray, env, history, bounds>>

-----------------------------------------------------------------------------
(* Start: the evidence, each file created without replacing another. *)

Taken(name, records) == \E r \in records : r.name = name

(* Mutant: a receipt of the same name is replaced. *)
ReplaceReceipt(p) ==
    /\ At(p, "receipt")
    /\ receipts' = {r \in receipts : r.name # call[p].receipt}
                   \cup {[name |-> call[p].receipt, node |-> call[p].node]}
    /\ Go(p, "lineage")
    /\ UNCHANGED <<identityFiles, resetFiles, lineage, stopFiles, restarts,
                   stray, env, history, bounds>>

CreateReceipt(p) ==
    /\ At(p, "receipt")
    /\ \/ /\ ~Taken(call[p].receipt, receipts)
          /\ receipts' = receipts \cup {[name |-> call[p].receipt, node |-> call[p].node]}
          /\ Go(p, "lineage")
       \/ Taken(call[p].receipt, receipts) /\ End(p) /\ UNCHANGED receipts
    /\ UNCHANGED <<identityFiles, resetFiles, lineage, stopFiles, restarts,
                   stray, env, history, bounds>>

CreateLineage(p) ==
    /\ At(p, "lineage")
    /\ \/ /\ ~Taken(call[p].lineage, lineage)
          /\ lineage' = lineage \cup {[name |-> call[p].lineage,
                           receipt |-> call[p].receipt, node |-> call[p].node]}
          /\ Go(p, "log")
       \/ Taken(call[p].lineage, lineage) /\ End(p) /\ UNCHANGED lineage
    /\ UNCHANGED <<identityFiles, resetFiles, receipts, stopFiles, restarts,
                   stray, env, history, bounds>>

(* The startup is logged and the start returns; a restart goes on if the   *)
(* node is the one that was stopped.                                       *)
Log(p) ==
    /\ At(p, "log")
    /\ stray' = TRUE
    /\ IF call[p].kind = "restart" /\ call[p].stopping = call[p].node
       THEN Go(p, "restartReceipt") ELSE End(p)
    /\ UNCHANGED <<identityFiles, resetFiles, evidence, stopFiles, restarts,
                   env, history, bounds>>

-----------------------------------------------------------------------------
(* Shutdown. *)

(* The log is written before anything is read. *)
StopLog(p) ==
    /\ At(p, "stopLog")
    /\ stray' = TRUE
    /\ Put(p, [call[p] EXCEPT !.pc = "stopLoad", !.at = clock])
    /\ UNCHANGED <<identityFiles, resetFiles, evidence, stopFiles, restarts,
                   env, history, bounds>>

Bound == identity # None /\ manifest # None /\ manifest.node = identity

StopLoad(p) ==
    /\ At(p, "stopLoad")
    /\ \/ ~Bound /\ End(p)
       \/ /\ Bound
          /\ Put(p, [call[p] EXCEPT !.pc = IF open = {} THEN "stopState" ELSE "stopWork",
                                    !.stopping = identity, !.work = open])
    /\ UNCHANGED <<identityFiles, resetFiles, evidence, stopFiles, restarts,
                   stray, env, history, bounds>>

StopWork(p) ==
    /\ At(p, "stopWork")
    /\ stopped' = call[p].work
    /\ Go(p, "stopState")
    /\ UNCHANGED <<identityFiles, resetFiles, evidence, state, stops, restarts,
                   stray, env, history, bounds>>

(* The startup instance: the last lineage record by name, or this stop. *)
Later(a, b) == a.at > b.at \/ (a.at = b.at /\ a.index >= b.index)
Latest == {l \in lineage : \A k \in lineage : Later(l.name, k.name)}
Instance(p) == IF Latest = {} THEN [at |-> call[p].at, index |-> 0]
               ELSE (CHOOSE l \in Latest : TRUE).name

(* Mutant: the state does not refer to the interrupted work. *)
StopStateWithoutWork(p) ==
    /\ At(p, "stopState")
    /\ state' = [node |-> call[p].stopping, interrupted |-> FALSE]
    /\ Put(p, [call[p] EXCEPT !.pc = "stopAudit", !.instance = Instance(p)])
    /\ UNCHANGED <<identityFiles, resetFiles, evidence, stopped, stops, restarts,
                   stray, env, history, bounds>>

StopState(p) ==
    /\ At(p, "stopState")
    /\ state' = [node |-> call[p].stopping, interrupted |-> call[p].work # {}]
    /\ Put(p, [call[p] EXCEPT !.pc = "stopAudit", !.instance = Instance(p)])
    /\ UNCHANGED <<identityFiles, resetFiles, evidence, stopped, stops, restarts,
                   stray, env, history, bounds>>

StopDone(p) == IF call[p].kind = "restart" THEN Go(p, "restartRead") ELSE End(p)

(* Mutant: a repeated request is audited again. *)
StopAuditRepeated(p) ==
    /\ At(p, "stopAudit")
    /\ Go(p, "stopAppend")
    /\ UNCHANGED <<identityFiles, resetFiles, evidence, stopFiles, restarts,
                   stray, env, history, bounds>>

(* One event is appended for a startup instance, unless it is there. *)
StopAudit(p) ==
    /\ At(p, "stopAudit")
    /\ IF \E i \in DOMAIN stops : stops[i].instance = call[p].instance
       THEN StopDone(p) ELSE Go(p, "stopAppend")
    /\ UNCHANGED <<identityFiles, resetFiles, evidence, stopFiles, restarts,
                   stray, env, history, bounds>>

StopAppend(p) ==
    /\ At(p, "stopAppend")
    /\ stops' = Append(stops, [instance |-> call[p].instance, alone |-> call[p].alone])
    /\ StopDone(p)
    /\ UNCHANGED <<identityFiles, resetFiles, evidence, state, stopped, restarts,
                   stray, env, history, bounds>>

-----------------------------------------------------------------------------
(* Restart: a shutdown, then a start from what the shutdown left. *)

(* What was interrupted is left to retry, if the state refers to it: the   *)
(* file may be that of an earlier stop.                                    *)
Decisions == IF state.interrupted THEN stopped ELSE {}

RestartRead(p) ==
    /\ At(p, "restartRead")
    /\ Put(p, [call[p] EXCEPT !.pc = "preload", !.stopping = state.node, !.work = Decisions])
    /\ UNCHANGED <<identityFiles, resetFiles, evidence, stopFiles, restarts,
                   stray, env, history, bounds>>

(* The receipt says what is left to retry; a restart that overlaps may     *)
(* have taken its name.                                                    *)
RestartReceipt(p) ==
    /\ At(p, "restartReceipt")
    /\ \/ restarts' = restarts \cup
             {[previous |-> call[p].stopping, node |-> call[p].node,
               receipt |-> call[p].receipt, decisions |-> call[p].work,
               open |-> call[p].open, alone |-> call[p].alone]}
       \/ ~call[p].alone /\ restarts # {} /\ UNCHANGED restarts
    /\ End(p)
    /\ UNCHANGED <<identityFiles, resetFiles, evidence, stopFiles,
                   stray, env, history, bounds>>

-----------------------------------------------------------------------------
(* Failures. *)

Fault == faults < MaxFaults /\ faults' = faults + 1

Writes == {"saveIdentity", "writeResets", "identity", "createConfig",
           "createManifest", "upgrade", "receipt", "lineage",
           "stopWork", "stopState", "restartReceipt"}

(* The call raises or its process dies before the next step, in the middle *)
(* of an atomic write leaving the temporary file.                          *)
Fail(p) ==
    /\ ~At(p, "idle") /\ Fault
    /\ End(p)
    /\ \/ UNCHANGED stray
       \/ call[p].pc \in Writes /\ stray' = TRUE
    /\ UNCHANGED <<identityFiles, resetFiles, evidence, stopFiles, restarts,
                   env, history, calls, moves>>

(* The reset receipt cannot be written: the copy is put back and the start *)
(* refused.                                                                *)
RestoreIdentity(p) ==
    /\ call[p].pc \in {"readResets", "writeResets"} /\ Fault
    /\ identity' \in NodesOf(CopiedTo(call[p].copy))
    /\ overwritten' = overwritten \cup ({identity} \ {identity'})
    /\ End(p)
    /\ UNCHANGED <<config, manifest, resetFiles, evidence, stopFiles, restarts,
                   stray, env, origin, calls, moves>>

(* A shutdown goes on without its audit event. *)
StopUnaudited(p) ==
    /\ At(p, "stopAppend") /\ Fault
    /\ StopDone(p)
    /\ UNCHANGED <<identityFiles, resetFiles, evidence, stopFiles, restarts,
                   stray, env, history, calls, moves>>

-----------------------------------------------------------------------------
(* The environment. *)

Submit(w) ==
    /\ w \notin open /\ open' = open \cup {w}
    /\ UNCHANGED <<identityFiles, resetFiles, evidence, stopFiles, restarts,
                   stray, machine, clock, call, history, bounds>>

(* Work done meanwhile is not work a call has to decide about.  Its input  *)
(* stays beside its output, a file in progress may leave none.             *)
Complete(w) ==
    /\ w \in open /\ open' = open \ {w}
    /\ stray' \in {stray, TRUE}
    /\ call' = [p \in Processes |-> [call[p] EXCEPT !.open = @ \ {w}]]
    /\ UNCHANGED <<identityFiles, resetFiles, evidence, stopFiles, restarts,
                   machine, clock, history, bounds>>

Tick ==
    /\ clock < MaxClock /\ clock' = clock + 1
    /\ UNCHANGED <<identityFiles, resetFiles, evidence, stopFiles, restarts,
                   stray, machine, open, call, history, bounds>>

(* The directory is moved to another machine while no command runs. *)
Move(node) ==
    /\ Idle /\ moves < MaxMoves /\ node # machine
    /\ machine' = node /\ moves' = moves + 1
    /\ UNCHANGED <<identityFiles, resetFiles, evidence, stopFiles, restarts,
                   stray, open, clock, call, history, calls, faults>>

StartStep(p) == \/ Preload(p) \/ Compare(p)
                \/ NameCopy(p) \/ Quarantine(p) \/ SaveIdentity(p) \/ ReadResets(p) \/ WriteResets(p)
                \/ LoadIdentity(p) \/ ReadCreator(p) \/ CheckConfig(p) \/ WriteConfig(p)
                \/ CheckManifest(p) \/ WriteManifest(p) \/ LoadManifest(p)
                \/ UpgradeManifest(p) \/ CreateReceipt(p) \/ CreateLineage(p) \/ Log(p)
StopStep(p) == \/ StopLog(p) \/ StopLoad(p) \/ StopWork(p) \/ StopState(p)
               \/ StopAudit(p) \/ StopAppend(p)
RestartStep(p) == RestartRead(p) \/ RestartReceipt(p)
Failure(p) == Fail(p) \/ RestoreIdentity(p) \/ StopUnaudited(p)
Environment == \/ \E w \in Works : Submit(w) \/ Complete(w)
               \/ Tick
               \/ \E node \in Nodes : Move(node)

Next == \/ \E p \in Processes : \/ \E kind \in Kinds : Begin(p, kind)
                                \/ StartStep(p) \/ StopStep(p) \/ RestartStep(p)
                                \/ Failure(p)
        \/ Environment

Spec == Init /\ [][Next]_vars
=============================================================================
