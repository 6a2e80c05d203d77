------------------------- MODULE NodeRuntimeProperties -------------------------
(***************************************************************************)
(* What NodeRuntime is checked for.                                        *)
(***************************************************************************)
EXTENDS NodeViews

(* Files and calls keep their shape, and a receipt attests an identity the *)
(* directory has had.                                                      *)
TypeOK ==
    /\ machine \in Nodes
    /\ config \in Maybe(Nodes) /\ identity \in Maybe(Nodes)
    /\ manifest \in Maybe(Manifests)
    /\ quarantine \subseteq Backups /\ resets \subseteq Resets
    /\ receipts \subseteq Receipts /\ lineage \subseteq Lineage
    /\ state \in Maybe(States) /\ stopped \subseteq Works
    /\ stops \in Seq(Stops)
    /\ restarts \subseteq Restarts
    /\ stray \in BOOLEAN
    /\ open \subseteq Works /\ clock \in 0..MaxClock
    /\ call \in [Processes -> Calls]
    /\ origin \in Maybe(Nodes) /\ overwritten \subseteq Nodes
    /\ calls \in 0..MaxCalls /\ faults \in 0..MaxFaults /\ moves \in 0..MaxMoves

(* A start of this kind, alone, gets past every check: the directory is     *)
(* empty, or config and identity, and but for a reset the manifest, name    *)
(* one node.                                                                *)
Startable(kind) ==
    \/ config = None /\ ~Artifacts
    \/ /\ config # None /\ identity = config
       /\ kind = "reset" \/ manifest \in [node : {config}, adverts : {config, None}]

(* Identities that are in quarantine, or were until a copy was put over     *)
(* them.                                                                   *)
Replaced == NodesOf(quarantine) \cup overwritten

(* When every command has run to its end, a directory was started as a      *)
(* whole or not at all.  Before its first identity nothing in it names a    *)
(* node, and only logs, as of a shutdown, and files of work can make the    *)
(* first start refuse.  From then on the next start can succeed, unless an  *)
(* upgrade that overlapped a reset put the manifest of the replaced node    *)
(* back, which an inspection shows; a start that resets the identity can    *)
(* succeed even then.                                                       *)
CommandsLeaveStartable ==
    Idle /\ faults = 0 =>
        IF origin = None
        THEN /\ config = None /\ identity = None /\ manifest = None
             /\ ~stray /\ open = {} => Startable("start")
        ELSE /\ Startable("reset")
             /\ \/ Startable("start")
                \/ ~Inspection.matches /\ manifest.node \in Replaced

(* An identity a startup receipt attests is in use or in quarantine, unless *)
(* another reset put a copy over it: a failing one its backup over the file *)
(* in use, or one that chose the same name its copy over the copy.          *)
AttestedIsKept == \A r \in receipts : r.node \in {identity} \cup Replaced

(* An identity other than the first is attested only if the receipt of a    *)
(* reset introduced it, whatever failed or overlapped.                      *)
AttestedIsAudited ==
    \A r \in receipts : r.node = origin \/ \E x \in resets : x.new = r.node

(* The status never shows an identity as validated or as started that is    *)
(* neither in use nor one a reset put aside.                               *)
ShownIsKept ==
    Readable => {Status.validated, Status.attributed} \subseteq {None, identity} \cup Replaced

(* Whoever is attested can be accounted for: by a file and by a reset, and  *)
(* that file is there for whoever the status names.                        *)
AttestedIsAccounted == AttestedIsKept /\ AttestedIsAudited /\ ShownIsKept

(* A lineage record refers to the one receipt of its name, which attests    *)
(* the same node.                                                           *)
LineageIsAttested ==
    \A l \in lineage : \E r \in receipts :
        /\ r.node = l.node
        /\ \A q \in receipts : q.name = l.receipt <=> q = r

(* A restart receipt is written for a node that was started anew, the one   *)
(* that was stopped.                                                        *)
RestartKeepsNode ==
    \A r \in restarts :
        /\ r.node = r.previous
        /\ \E l \in lineage : l.receipt = r.receipt /\ l.node = r.node

(* A restart that ran alone decided all work that was open when it began    *)
(* and is not done since.                                                   *)
RestartDecidesOpenWork == \A r \in restarts : r.alone => r.open \subseteq r.decisions

(* A restart receipt tells the truth about node and work.                   *)
RestartIsTrue == RestartKeepsNode /\ RestartDecidesOpenWork

(* A startup instance is audited as stopped twice only by two overlapping   *)
(* commands.                                                                *)
StoppedOnce ==
    \A i, j \in DOMAIN stops :
        stops[i].instance = stops[j].instance /\ i # j => ~stops[i].alone
=============================================================================
