--------------------------- MODULE NodeRuntimeProofs ---------------------------
(***************************************************************************)
(* Proofs about NodeRuntime for all processes, nodes, work and bounds.     *)
(***************************************************************************)
EXTENDS NodeRuntimeProperties, FiniteSetTheorems, TLAPS

USE NodeAssumption DEF NodeAssumption

(***************************************************************************)
(* Type correctness.  Identity, manifest and shutdown state never          *)
(* disappear, so a call that has seen one may rely on it; the evidence is  *)
(* finite, so the next file can be numbered.                               *)
(***************************************************************************)
Identified == {"creator", "config", "createConfig", "manifest", "createManifest", "loadManifest",
               "upgrade", "receipt", "lineage", "log", "restartReceipt"}

(* What call c has, when i, m and s are identity, manifest and state. *)
Shape(c, i, m, s) ==
    /\ c.existed => i # None
    /\ c.pc = "quarantine" => c.existed
    /\ c.pc \in {"copy", "saveIdentity", "readResets", "writeResets"} =>
           c.previous \in Nodes /\ c.copy \in Copies /\ i # None
    /\ c.pc \in Identified => c.node \in Nodes
    /\ c.pc \in {"loadManifest", "upgrade"} => m # None
    /\ c.pc = "upgrade" => c.manifest \in Manifests
    /\ c.pc \in {"stopWork", "stopState"} => c.stopping \in Nodes
    /\ c.pc \in {"stopAudit", "stopAppend", "restartRead"} => s # None
    /\ c.pc = "restartReceipt" => c.stopping = c.node

Shaped == \A p \in Processes : Shape(call[p], identity, manifest, state)

FilesTyped ==
    /\ machine \in Nodes
    /\ config \in Maybe(Nodes) /\ identity \in Maybe(Nodes)
    /\ manifest \in Maybe(Manifests)
    /\ quarantine \subseteq Backups /\ resets \subseteq Resets
    /\ receipts \subseteq Receipts /\ lineage \subseteq Lineage
    /\ state \in Maybe(States) /\ stopped \subseteq Works
    /\ stops \in Seq(Stops)
    /\ restarts \subseteq Restarts
    /\ stray \in BOOLEAN
    /\ open \subseteq Works /\ clock \in 0..MaxClock
    /\ origin \in Maybe(Nodes) /\ overwritten \subseteq Nodes
    /\ calls \in 0..MaxCalls /\ faults \in 0..MaxFaults /\ moves \in 0..MaxMoves
    /\ IsFiniteSet(quarantine) /\ IsFiniteSet(receipts) /\ IsFiniteSet(lineage)

CallsTyped == call \in [Processes -> Calls]

TypeInv == FilesTyped /\ CallsTyped /\ Shaped

allFiles == <<identityFiles, resetFiles, evidence, stopFiles, restarts, stray,
              env, history, bounds>>

LEMMA TypeInvGivesTypeOK == TypeInv => TypeOK
BY DEF TypeInv, FilesTyped, CallsTyped, TypeOK

(* Each combination of fields that a step replaces. *)
LEMMA FieldsTyped ==
    ASSUME NEW c \in Calls, NEW pc \in Steps
    PROVE  /\ [c EXCEPT !.pc = pc] \in Calls
           /\ \A n \in Maybe(Nodes), b \in BOOLEAN :
                [c EXCEPT !.pc = pc, !.config = n, !.existed = b] \in Calls
           /\ \A n \in Maybe(Nodes), x \in Maybe(Copies) :
                [c EXCEPT !.pc = pc, !.previous = n, !.copy = x] \in Calls
           /\ \A n \in Maybe(Nodes) : [c EXCEPT !.pc = pc, !.node = n] \in Calls
           /\ \A R \in SUBSET Resets : [c EXCEPT !.pc = pc, !.resets = R] \in Calls
           /\ \A t \in Nat : [c EXCEPT !.pc = pc, !.at = t] \in Calls
           /\ \A m \in Maybe(Manifests) : [c EXCEPT !.pc = pc, !.manifest = m] \in Calls
           /\ \A a, b \in Names : [c EXCEPT !.pc = pc, !.manifest = None,
                                            !.receipt = a, !.lineage = b] \in Calls
           /\ \A n \in Maybe(Nodes), W \in SUBSET Works :
                [c EXCEPT !.pc = pc, !.stopping = n, !.work = W] \in Calls
           /\ \A a \in Names : [c EXCEPT !.pc = pc, !.instance = a] \in Calls
           /\ [c EXCEPT !.alone = FALSE] \in Calls
           /\ \A W \in SUBSET Works : [c EXCEPT !.open = W] \in Calls
<1>1. [c EXCEPT !.pc = pc] \in Calls
  BY DEF Calls
<1>2. ASSUME NEW n \in Maybe(Nodes), NEW b \in BOOLEAN
      PROVE  [c EXCEPT !.pc = pc, !.config = n, !.existed = b] \in Calls
  BY DEF Calls
<1>3. ASSUME NEW n \in Maybe(Nodes), NEW x \in Maybe(Copies)
      PROVE  [c EXCEPT !.pc = pc, !.previous = n, !.copy = x] \in Calls
  BY DEF Calls
<1>12. ASSUME NEW n \in Maybe(Nodes) PROVE [c EXCEPT !.pc = pc, !.node = n] \in Calls
  BY DEF Calls
<1>4. ASSUME NEW R \in SUBSET Resets PROVE [c EXCEPT !.pc = pc, !.resets = R] \in Calls
  BY DEF Calls
<1>5. ASSUME NEW t \in Nat PROVE [c EXCEPT !.pc = pc, !.at = t] \in Calls
  BY DEF Calls
<1>6. ASSUME NEW m \in Maybe(Manifests) PROVE [c EXCEPT !.pc = pc, !.manifest = m] \in Calls
  BY DEF Calls
<1>7. ASSUME NEW a \in Names, NEW b \in Names
      PROVE  [c EXCEPT !.pc = pc, !.manifest = None, !.receipt = a, !.lineage = b] \in Calls
  <2>1. None \in Maybe(Manifests)
    BY DEF Maybe
  <2>. QED BY <2>1 DEF Calls
<1>8. ASSUME NEW n \in Maybe(Nodes), NEW W \in SUBSET Works
      PROVE  [c EXCEPT !.pc = pc, !.stopping = n, !.work = W] \in Calls
  BY DEF Calls
<1>9. ASSUME NEW a \in Names PROVE [c EXCEPT !.pc = pc, !.instance = a] \in Calls
  BY DEF Calls
<1>10. [c EXCEPT !.alone = FALSE] \in Calls
  BY DEF Calls
<1>11. ASSUME NEW W \in SUBSET Works PROVE [c EXCEPT !.open = W] \in Calls
  BY DEF Calls
<1>. QED BY <1>1, <1>2, <1>3, <1>4, <1>5, <1>6, <1>7, <1>8, <1>9, <1>10, <1>11, <1>12, Zenon

LEMMA NoCallTyped == NoCall \in Calls /\ \A i, m, s : Shape(NoCall, i, m, s)
BY DEF NoCall, Calls, Kinds, Steps, Maybe, Names, NoName, Shape, Identified

LEMMA InitTypeInv == Init => TypeInv
<1>. SUFFICES ASSUME Init PROVE TypeInv
  OBVIOUS
<1>1. CallsTyped /\ Shaped
  BY NoCallTyped DEF Init, CallsTyped, Shaped
<1>2. CASE Empty
  <2>1. IsFiniteSet(quarantine) /\ IsFiniteSet(receipts) /\ IsFiniteSet(lineage)
    BY <1>2, FS_EmptySet DEF Init, Empty
  <2>2. /\ config \in Maybe(Nodes) /\ identity \in Maybe(Nodes)
        /\ manifest \in Maybe(Manifests) /\ origin \in Maybe(Nodes) /\ stray \in BOOLEAN
        /\ receipts \subseteq Receipts /\ lineage \subseteq Lineage
    BY <1>2 DEF Empty, Maybe
  <2>. QED BY <1>1, <2>1, <2>2 DEF Init, FilesTyped, TypeInv, Maybe
<1>3. CASE \E node \in Nodes : Started(node)
  <2>1. PICK node \in Nodes : Started(node)
    BY <1>3
  <2>2. /\ IsFiniteSet(receipts) /\ receipts \subseteq Receipts
        /\ IsFiniteSet(lineage) /\ lineage \subseteq Lineage
    <3>1. [at |-> 0, index |-> 1] \in Names
      BY DEF Names
    <3>. DEFINE first == [at |-> 0, index |-> 1]
    <3>. HIDE DEF first
    <3>2. [name |-> first, node |-> node] \in Receipts
      BY <3>1 DEF Receipts, first
    <3>3. [name |-> first, receipt |-> first, node |-> node] \in Lineage
      BY <3>1 DEF Lineage, first
    <3>4. /\ receipts = {[name |-> first, node |-> node]}
          /\ lineage = {[name |-> first, receipt |-> first, node |-> node]}
      BY <2>1 DEF Started, first
    <3>. QED BY <3>2, <3>3, <3>4, FS_Singleton
  <2>3. /\ config \in Maybe(Nodes) /\ identity \in Maybe(Nodes)
        /\ manifest \in Maybe(Manifests) /\ origin \in Maybe(Nodes) /\ stray \in BOOLEAN
    BY <2>1 DEF Started, Maybe, Manifests
  <2>4. IsFiniteSet(quarantine)
    BY FS_EmptySet DEF Init
  <2>. QED BY <1>1, <2>2, <2>3, <2>4 DEF Init, FilesTyped, TypeInv, Maybe
<1>. QED BY <1>2, <1>3 DEF Init

(* Process p replaces its call, and nothing a call relies on disappears. *)
LEMMA ReplacedTyped ==
    ASSUME TypeInv, NEW p \in Processes, NEW r \in Calls, Put(p, r),
           Shape(r, identity', manifest', state'),
           identity # None => identity' # None,
           manifest # None => manifest' # None,
           state # None => state' # None
    PROVE  CallsTyped' /\ Shaped'
<1>1. CallsTyped' /\ call'[p] = r /\ \A q \in Processes : q # p => call'[q] = call[q]
  BY DEF TypeInv, CallsTyped, Put
<1>2. ASSUME NEW q \in Processes PROVE Shape(call'[q], identity', manifest', state')
  <2>1. CASE q = p
    BY <1>1, <2>1
  <2>2. CASE q # p
    <3>1. Shape(call[q], identity, manifest, state)
      BY DEF TypeInv, Shaped
    <3>2. \A c : Shape(c, identity, manifest, state) => Shape(c, identity', manifest', state')
      BY DEF Shape
    <3>. QED BY <1>1, <2>2, <3>1, <3>2
  <2>. QED BY <2>1, <2>2
<1>. QED BY <1>1, <1>2 DEF Shaped

LEMMA QuietTyped ==
    ASSUME TypeInv, NEW p \in Processes, NEW r \in Calls, Put(p, r), UNCHANGED allFiles,
           Shape(r, identity, manifest, state)
    PROVE  TypeInv'
<1>1. /\ identity' = identity /\ manifest' = manifest /\ state' = state
  BY DEF allFiles, identityFiles, stopFiles
<1>2. CallsTyped' /\ Shaped'
  BY <1>1, ReplacedTyped
<1>3. FilesTyped'
  BY DEF TypeInv, FilesTyped, allFiles, identityFiles, resetFiles, evidence, stopFiles,
         env, history, bounds
<1>. QED BY <1>2, <1>3 DEF TypeInv

LEMMA EndTyped ==
    ASSUME TypeInv, NEW p \in Processes, End(p), UNCHANGED allFiles
    PROVE  TypeInv'
BY NoCallTyped, QuietTyped DEF End

(* The fields of a call that a step may pass on. *)
LEMMA CallTyped ==
    ASSUME TypeInv, NEW p \in Processes
    PROVE  /\ call[p] \in Calls /\ Shape(call[p], identity, manifest, state)
           /\ call[p].config \in Maybe(Nodes) /\ call[p].node \in Maybe(Nodes)
           /\ call[p].previous \in Maybe(Nodes) /\ call[p].copy \in Maybe(Copies)
           /\ call[p].stopping \in Maybe(Nodes)
           /\ call[p].resets \subseteq Resets /\ call[p].manifest \in Maybe(Manifests)
           /\ call[p].at \in Nat /\ call[p].receipt \in Names /\ call[p].lineage \in Names
           /\ call[p].work \subseteq Works /\ call[p].open \subseteq Works
           /\ call[p].instance \in Names /\ call[p].alone \in BOOLEAN
           /\ call[p].existed \in BOOLEAN
BY DEF TypeInv, CallsTyped, Shaped, Calls

LEMMA GoTyped ==
    ASSUME TypeInv, NEW p \in Processes, NEW to \in Steps, Go(p, to), UNCHANGED allFiles,
           Shape([call[p] EXCEPT !.pc = to], identity, manifest, state)
    PROVE  TypeInv'
<1>1. [call[p] EXCEPT !.pc = to] \in Calls
  BY CallTyped, FieldsTyped
<1>. QED BY <1>1, QuietTyped DEF Go

(* The call that has chosen the names of its evidence. *)
NamedCall(p) ==
    [call[p] EXCEPT !.pc = "receipt", !.manifest = None,
        !.receipt = [at |-> call[p].at, index |-> Cardinality(receipts) + 1],
        !.lineage = [at |-> call[p].at, index |-> Cardinality(lineage) + 1]]

LEMMA NamedTyped ==
    ASSUME TypeInv, NEW p \in Processes
    PROVE  NamedCall(p) \in Calls
<1>. DEFINE a == [at |-> call[p].at, index |-> Cardinality(receipts) + 1]
            b == [at |-> call[p].at, index |-> Cardinality(lineage) + 1]
<1>1. a \in Names /\ b \in Names
  <2>1. Cardinality(receipts) \in Nat /\ Cardinality(lineage) \in Nat
    BY FS_CardinalityType DEF TypeInv, FilesTyped
  <2>. QED BY <2>1, CallTyped DEF Names
<1>2. "receipt" \in Steps
  BY DEF Steps
<1>3. NamedCall(p) = [call[p] EXCEPT !.pc = "receipt", !.manifest = None,
                                     !.receipt = a, !.lineage = b]
  BY DEF NamedCall
<1>4. \A x, y \in Names : [call[p] EXCEPT !.pc = "receipt", !.manifest = None,
                                        !.receipt = x, !.lineage = y] \in Calls
  BY <1>2, CallTyped, FieldsTyped
<1>. HIDE DEF a, b
<1>. QED BY <1>1, <1>3, <1>4, Zenon

LEMMA StopDoneTyped ==
    ASSUME TypeInv, NEW p \in Processes, call[p].pc \in {"stopAudit", "stopAppend"},
           StopDone(p), UNCHANGED allFiles
    PROVE  TypeInv'
<1>1. CASE Go(p, "restartRead")
  <2>1. Shape([call[p] EXCEPT !.pc = "restartRead"], identity, manifest, state)
    BY CallTyped DEF Shape, Identified, Calls
  <2>2. "restartRead" \in Steps
    BY DEF Steps
  <2>. QED BY <1>1, <2>1, <2>2, GoTyped
<1>2. CASE End(p)
  BY <1>2, EndTyped
<1>. QED BY <1>1, <1>2 DEF StopDone

(* Steps that only read. *)
LEMMA CopyNameTyped ==
    ASSUME TypeInv, identity \in Nodes
    PROVE  CopyName \in Copies
<1>. DEFINE named == {b \in quarantine : b.copy.of = identity /\ b.copy.at = clock}
<1>1. IsFiniteSet(named)
  BY FS_Subset DEF TypeInv, FilesTyped
<1>2. Cardinality(named) \in Nat
  BY <1>1, FS_CardinalityType
<1>3. clock \in Nat
  BY DEF TypeInv, FilesTyped
<1>. HIDE DEF named
<1>4. [of |-> identity, at |-> clock, index |-> Cardinality(named)] \in Copies
  BY <1>2, <1>3 DEF Copies
<1>. QED BY <1>4 DEF CopyName, named

LEMMA ReadsTyped ==
    ASSUME TypeInv, NEW p \in Processes,
           \/ Preload(p) \/ Compare(p) \/ NameCopy(p) \/ ReadResets(p)
           \/ ReadCreator(p) \/ CheckConfig(p)
           \/ CheckManifest(p) \/ LoadManifest(p) \/ StopLoad(p) \/ StopAudit(p)
           \/ RestartRead(p)
    PROVE  TypeInv'
<1>. DEFINE c == call[p]
<1>. USE CallTyped
<1>1. UNCHANGED allFiles
  BY DEF allFiles, Preload, Compare, NameCopy, ReadResets, ReadCreator, CheckConfig,
         CheckManifest, LoadManifest,
         StopLoad, StopAudit, RestartRead
<1>2. CASE Preload(p)
  <2>1. ASSUME NEW to \in {"identity", "compare"}
        PROVE  LET r == [c EXCEPT !.pc = to, !.config = config, !.existed = identity # None]
               IN  r \in Calls /\ Shape(r, identity, manifest, state)
    <3>1. /\ to \in Steps /\ config \in Maybe(Nodes) /\ (identity # None) \in BOOLEAN
      BY DEF Steps, TypeInv, FilesTyped
    <3>2. [c EXCEPT !.pc = to, !.config = config, !.existed = identity # None] \in Calls
      BY <3>1, FieldsTyped
    <3>3. Shape([c EXCEPT !.pc = to, !.config = config, !.existed = identity # None],
                identity, manifest, state)
      BY DEF Shape, Identified, Calls
    <3>. QED BY <3>2, <3>3
  <2>2. CASE End(p)
    BY <1>1, <2>2, EndTyped
  <2>3. CASE Put(p, [c EXCEPT !.pc = IF config = None THEN "identity" ELSE "compare",
                              !.config = config, !.existed = identity # None])
    BY <1>1, <2>1, <2>3, QuietTyped
  <2>. QED BY <1>2, <2>2, <2>3 DEF Preload
<1>3. CASE Compare(p)
  <2>1. CASE End(p)
    BY <1>1, <2>1, EndTyped
  <2>2. CASE Go(p, IF Resetting(p) THEN "quarantine" ELSE "identity")
    <3>1. Resetting(p) => Shape([c EXCEPT !.pc = "quarantine"], identity, manifest, state)
      BY DEF Resetting, Shape, Identified, Calls
    <3>2. Shape([c EXCEPT !.pc = "identity"], identity, manifest, state)
      BY DEF Shape, Identified, Calls
    <3>3. "quarantine" \in Steps /\ "identity" \in Steps
      BY DEF Steps
    <3>. QED BY <1>1, <2>2, <3>1, <3>2, <3>3, GoTyped
  <2>. QED BY <1>3, <2>1, <2>2 DEF Compare
<1>4. CASE ReadResets(p)
  <2>1. "writeResets" \in Steps /\ resets \in SUBSET Resets
    BY DEF Steps, TypeInv, FilesTyped
  <2>2. [c EXCEPT !.pc = "writeResets", !.resets = resets] \in Calls
    BY <2>1, FieldsTyped
  <2>3. Shape([c EXCEPT !.pc = "writeResets", !.resets = resets], identity, manifest, state)
    BY <1>4 DEF ReadResets, At, Shape, Identified, Calls
  <2>. QED BY <1>1, <1>4, <2>2, <2>3, QuietTyped DEF ReadResets
<1>5. CASE CheckConfig(p)
  <2>1. CASE Go(p, "createConfig")
    <3>1. Shape([c EXCEPT !.pc = "createConfig"], identity, manifest, state)
      BY <1>5 DEF CheckConfig, At, Shape, Identified, Calls
    <3>2. "createConfig" \in Steps
      BY DEF Steps
    <3>. QED BY <1>1, <2>1, <3>1, <3>2, GoTyped
  <2>2. CASE Stamped(p)
    <3>1. "manifest" \in Steps /\ clock \in Nat
      BY DEF Steps, TypeInv, FilesTyped
    <3>2. [c EXCEPT !.pc = "manifest", !.at = clock] \in Calls
      BY <3>1, FieldsTyped
    <3>3. Shape([c EXCEPT !.pc = "manifest", !.at = clock], identity, manifest, state)
      BY <1>5 DEF CheckConfig, At, Shape, Identified, Calls
    <3>. QED BY <1>1, <2>2, <3>2, <3>3, QuietTyped DEF Stamped
  <2>3. CASE End(p)
    BY <1>1, <2>3, EndTyped
  <2>. QED BY <1>5, <2>1, <2>2, <2>3 DEF CheckConfig
<1>6. CASE CheckManifest(p)
  <2>1. manifest # None => Shape([c EXCEPT !.pc = "loadManifest"], identity, manifest, state)
    BY <1>6 DEF CheckManifest, At, Shape, Identified, Calls
  <2>2. Shape([c EXCEPT !.pc = "createManifest"], identity, manifest, state)
    BY <1>6 DEF CheckManifest, At, Shape, Identified, Calls
  <2>3. "loadManifest" \in Steps /\ "createManifest" \in Steps
    BY DEF Steps
  <2>. QED BY <1>1, <1>6, <2>1, <2>2, <2>3, GoTyped DEF CheckManifest
<1>7. CASE LoadManifest(p)
  <2>1. CASE Put(p, [c EXCEPT !.pc = "upgrade", !.manifest = manifest])
    <3>1. "upgrade" \in Steps /\ manifest \in Maybe(Manifests)
      BY DEF Steps, TypeInv, FilesTyped
    <3>2. [c EXCEPT !.pc = "upgrade", !.manifest = manifest] \in Calls
      BY <3>1, FieldsTyped
    <3>3. Shape([c EXCEPT !.pc = "upgrade", !.manifest = manifest], identity, manifest, state)
      BY <1>7, <3>1 DEF LoadManifest, At, Shape, Identified, Calls, Maybe
    <3>. QED BY <1>1, <2>1, <3>2, <3>3, QuietTyped
  <2>2. CASE Named(p)
    <3>1. NamedCall(p) \in Calls
      BY NamedTyped
    <3>2. Shape(NamedCall(p), identity, manifest, state)
      BY <1>7 DEF LoadManifest, NamedCall, At, Shape, Identified, Calls
    <3>. QED BY <1>1, <2>2, <3>1, <3>2, QuietTyped DEF Named, NamedCall
  <2>3. CASE End(p)
    BY <1>1, <2>3, EndTyped
  <2>. QED BY <1>7, <2>1, <2>2, <2>3 DEF LoadManifest
<1>8. CASE StopLoad(p)
  <2>1. CASE End(p)
    BY <1>1, <2>1, EndTyped
  <2>2. CASE Bound /\ Put(p, [c EXCEPT !.pc = IF open = {} THEN "stopState" ELSE "stopWork",
                                       !.stopping = identity, !.work = open])
    <3>1. identity \in Nodes /\ open \in SUBSET Works /\ identity \in Maybe(Nodes)
      BY <2>2 DEF Bound, TypeInv, FilesTyped, Maybe
    <3>2. ASSUME NEW to \in {"stopState", "stopWork"}
          PROVE  LET r == [c EXCEPT !.pc = to, !.stopping = identity, !.work = open]
                 IN  r \in Calls /\ Shape(r, identity, manifest, state)
      <4>1. to \in Steps
        BY DEF Steps
      <4>2. [c EXCEPT !.pc = to, !.stopping = identity, !.work = open] \in Calls
        BY <3>1, <4>1, FieldsTyped
      <4>3. Shape([c EXCEPT !.pc = to, !.stopping = identity, !.work = open],
                  identity, manifest, state)
        BY <3>1 DEF Shape, Identified, Calls
      <4>. QED BY <4>2, <4>3
    <3>. QED BY <1>1, <2>2, <3>2, QuietTyped
  <2>. QED BY <1>8, <2>1, <2>2 DEF StopLoad
<1>9. CASE StopAudit(p)
  <2>1. CASE Go(p, "stopAppend")
    <3>1. Shape([c EXCEPT !.pc = "stopAppend"], identity, manifest, state)
      BY <1>9 DEF StopAudit, At, Shape, Identified, Calls
    <3>2. "stopAppend" \in Steps
      BY DEF Steps
    <3>. QED BY <1>1, <2>1, <3>1, <3>2, GoTyped
  <2>2. CASE StopDone(p)
    BY <1>1, <1>9, <2>2, StopDoneTyped DEF StopAudit, At
  <2>. QED BY <1>9, <2>1, <2>2 DEF StopAudit
<1>10. CASE RestartRead(p)
  <2>1. state \in States
    BY <1>10 DEF RestartRead, At, Shape, TypeInv, FilesTyped, Maybe
  <2>2. ASSUME NEW W \in SUBSET Works
        PROVE  LET r == [c EXCEPT !.pc = "preload", !.stopping = state.node, !.work = W]
               IN  r \in Calls /\ Shape(r, identity, manifest, state)
    <3>1. "preload" \in Steps /\ state.node \in Maybe(Nodes)
      BY <2>1 DEF Steps, States, Maybe
    <3>2. [c EXCEPT !.pc = "preload", !.stopping = state.node, !.work = W] \in Calls
      BY <3>1, FieldsTyped
    <3>3. Shape([c EXCEPT !.pc = "preload", !.stopping = state.node, !.work = W],
                identity, manifest, state)
      BY DEF Shape, Identified, Calls
    <3>. QED BY <3>2, <3>3
  <2>3. stopped \in SUBSET Works /\ {} \in SUBSET Works
    BY DEF TypeInv, FilesTyped
  <2>. QED BY <1>1, <1>10, <2>2, <2>3, QuietTyped DEF RestartRead, Decisions
<1>11. CASE NameCopy(p)
  <2>1. identity \in Nodes
    BY <1>11 DEF NameCopy, At, Shape, TypeInv, FilesTyped, Maybe
  <2>2. CopyName \in Copies
    BY <2>1, CopyNameTyped
  <2>. DEFINE r == [c EXCEPT !.pc = "copy", !.previous = identity, !.copy = CopyName]
  <2>3. r \in Calls
    <3>1. "copy" \in Steps /\ identity \in Maybe(Nodes) /\ CopyName \in Maybe(Copies)
      BY <2>1, <2>2 DEF Steps, Maybe
    <3>. QED BY <3>1, FieldsTyped
  <2>4. Shape(r, identity, manifest, state)
    <3>1. \A d \in Calls : \A n, x : LET e == [d EXCEPT !.pc = "copy", !.previous = n, !.copy = x]
            IN  e.pc = "copy" /\ e.previous = n /\ e.copy = x /\ e.existed = d.existed
      BY DEF Calls
    <3>2. r.pc = "copy" /\ r.previous = identity /\ r.copy = CopyName /\ r.existed = c.existed
      BY <3>1
    <3>3. Shape(c, identity, manifest, state) /\ identity # None
      BY <2>1
    <3>. HIDE DEF r, c
    <3>. QED BY <2>1, <2>2, <3>2, <3>3 DEF Shape, Identified
  <2>. QED BY <1>1, <1>11, <2>3, <2>4, QuietTyped DEF NameCopy
<1>12. CASE ReadCreator(p)
  <2>1. ASSUME NEW to \in {"createConfig", "config"}, Go(p, to) PROVE TypeInv'
    <3>1. Shape([c EXCEPT !.pc = to], identity, manifest, state)
      BY <1>12 DEF ReadCreator, At, Shape, Identified, Calls
    <3>2. to \in Steps
      BY DEF Steps
    <3>. QED BY <1>1, <2>1, <3>1, <3>2, GoTyped
  <2>2. CASE End(p)
    BY <1>1, <2>2, EndTyped
  <2>. QED BY <1>12, <2>1, <2>2 DEF ReadCreator
<1>. QED BY <1>2, <1>3, <1>4, <1>5, <1>6, <1>7, <1>8, <1>9, <1>10, <1>11, <1>12

(* A call goes on after writing: with the file typed, so is the rest. *)
LEMMA WriteTyped ==
    ASSUME TypeInv, NEW p \in Processes, NEW r \in Calls, Put(p, r),
           Shape(r, identity', manifest', state'), FilesTyped',
           identity # None => identity' # None,
           manifest # None => manifest' # None,
           state # None => state' # None
    PROVE  TypeInv'
BY ReplacedTyped DEF TypeInv

LEMMA ResetTyped ==
    ASSUME TypeInv, NEW p \in Processes,
           Quarantine(p) \/ SaveIdentity(p) \/ WriteResets(p) \/ RestoreIdentity(p)
    PROVE  TypeInv'
<1>. DEFINE c == call[p]
<1>. USE CallTyped
<1>1. CASE Quarantine(p)
  <2>1. identity \in Nodes /\ c.copy \in Copies
    BY <1>1 DEF Quarantine, At, Shape, TypeInv, FilesTyped, Maybe
  <2>2. [c EXCEPT !.pc = "saveIdentity"] \in Calls
    <3>1. "saveIdentity" \in Steps
      BY DEF Steps
    <3>. QED BY <3>1, FieldsTyped
  <2>3. UNCHANGED <<identity, manifest, state>>
    BY <1>1 DEF Quarantine, identityFiles, stopFiles
  <2>4. Shape([c EXCEPT !.pc = "saveIdentity"], identity', manifest', state')
    BY <1>1, <2>3 DEF Quarantine, At, Shape, Identified, Calls
  <2>5. quarantine' \subseteq Backups /\ IsFiniteSet(quarantine') /\ overwritten' \subseteq Nodes
    <3>. DEFINE new == [copy |-> c.copy, node |-> identity]
                kept == quarantine \ CopiedTo(c.copy)
    <3>1. new \in Backups
      BY <2>1 DEF Backups
    <3>2. IsFiniteSet(kept)
      BY FS_Subset DEF TypeInv, FilesTyped
    <3>3. \A b \in quarantine : b.node \in Nodes
      BY DEF TypeInv, FilesTyped, Backups
    <3>4. overwritten' \subseteq Nodes
      BY <1>1, <3>3 DEF Quarantine, NodesOf, CopiedTo, TypeInv, FilesTyped
    <3>5. quarantine' = kept \cup {new} /\ kept \subseteq quarantine
      BY <1>1 DEF Quarantine
    <3>. HIDE DEF new, kept
    <3>6. IsFiniteSet(kept \cup {new})
      BY <3>2, FS_AddElement
    <3>7. kept \cup {new} \subseteq Backups
      BY <3>1, <3>5 DEF TypeInv, FilesTyped
    <3>. QED BY <3>4, <3>5, <3>6, <3>7
  <2>6. FilesTyped'
    BY <1>1, <2>3, <2>5 DEF Quarantine, TypeInv, FilesTyped, identityFiles, evidence,
                      stopFiles, env, bounds
  <2>. QED BY <1>1, <2>2, <2>3, <2>4, <2>6, WriteTyped DEF Quarantine, Go
<1>2. CASE SaveIdentity(p)
  <2>1. identity' \in Nodes /\ identity' \in Maybe(Nodes) /\ UNCHANGED <<manifest, state>>
    BY <1>2 DEF SaveIdentity, NewIdentity, TypeInv, FilesTyped, Maybe, stopFiles
  <2>2. [c EXCEPT !.pc = "readResets"] \in Calls
    <3>1. "readResets" \in Steps
      BY DEF Steps
    <3>. QED BY <3>1, FieldsTyped
  <2>3. Shape([c EXCEPT !.pc = "readResets"], identity', manifest', state')
    BY <1>2, <2>1 DEF SaveIdentity, At, Shape, Identified, Calls
  <2>4. FilesTyped'
    BY <1>2, <2>1 DEF SaveIdentity, TypeInv, FilesTyped, resetFiles, evidence, stopFiles,
                      env, history, bounds
  <2>. QED BY <1>2, <2>1, <2>2, <2>3, <2>4, WriteTyped DEF SaveIdentity, Go
<1>3. CASE WriteResets(p)
  <2>1. UNCHANGED <<identity, manifest, state>>
    BY <1>3 DEF WriteResets, identityFiles, stopFiles
  <2>2. [c EXCEPT !.pc = "identity"] \in Calls
    <3>1. "identity" \in Steps
      BY DEF Steps
    <3>. QED BY <3>1, FieldsTyped
  <2>3. Shape([c EXCEPT !.pc = "identity"], identity', manifest', state')
    BY <1>3, <2>1 DEF Shape, Identified, Calls
  <2>4. resets' \subseteq Resets
    <3>1. c.previous \in Nodes /\ machine \in Nodes
      BY <1>3 DEF WriteResets, At, Shape, TypeInv, FilesTyped
    <3>2. ResetReceipt(p) \in Resets
      BY <3>1 DEF ResetReceipt, Resets
    <3>. QED BY <1>3, <3>2 DEF WriteResets
  <2>5. FilesTyped'
    BY <1>3, <2>4 DEF WriteResets, TypeInv, FilesTyped, identityFiles, evidence, stopFiles,
                      env, history, bounds
  <2>. QED BY <1>3, <2>1, <2>2, <2>3, <2>5, WriteTyped DEF WriteResets, Go
<1>4. CASE RestoreIdentity(p)
  <2>1. identity' \in Nodes /\ identity' \in Maybe(Nodes) /\ UNCHANGED <<manifest, state>>
    <3>1. \A b \in quarantine : b.node \in Nodes
      BY DEF TypeInv, FilesTyped, Backups
    <3>. QED BY <1>4, <3>1 DEF RestoreIdentity, NodesOf, CopiedTo, Maybe, stopFiles
  <2>2. overwritten' \subseteq Nodes
    <3>1. identity # None
      BY <1>4 DEF RestoreIdentity, Shape
    <3>. QED BY <1>4, <3>1 DEF RestoreIdentity, TypeInv, FilesTyped, Maybe
  <2>3. FilesTyped'
    BY <1>4, <2>1, <2>2 DEF RestoreIdentity, Fault, TypeInv, FilesTyped, resetFiles, evidence,
                            stopFiles, env
  <2>. QED BY <1>4, <2>1, <2>3, NoCallTyped, WriteTyped DEF RestoreIdentity, End
<1>. QED BY <1>1, <1>2, <1>3, <1>4

LEMMA StartWritesTyped ==
    ASSUME TypeInv, NEW p \in Processes,
           LoadIdentity(p) \/ WriteConfig(p) \/ WriteManifest(p) \/ UpgradeManifest(p)
    PROVE  TypeInv'
<1>. DEFINE c == call[p]
<1>. USE CallTyped
<1>1. CASE LoadIdentity(p)
  <2>. DEFINE node == IF identity = None THEN NewIdentity ELSE identity
  <2>1. node \in Nodes /\ node \in Maybe(Nodes)
    BY DEF NewIdentity, TypeInv, FilesTyped, Maybe
  <2>2. identity' = node /\ identity' # None /\ UNCHANGED <<manifest, state>>
    BY <1>1, <2>1 DEF LoadIdentity, stopFiles
  <2>3. /\ [c EXCEPT !.pc = "creator", !.node = node] \in Calls
        /\ Shape([c EXCEPT !.pc = "creator", !.node = node], identity', manifest', state')
    <3>1. "creator" \in Steps
      BY DEF Steps
    <3>2. [c EXCEPT !.pc = "creator", !.node = node] \in Calls
      BY <2>1, <3>1, FieldsTyped
    <3>. HIDE DEF node
    <3>3. Shape([c EXCEPT !.pc = "creator", !.node = node], identity', manifest', state')
      BY <2>1, <2>2 DEF Shape, Identified, Calls
    <3>. QED BY <3>2, <3>3
  <2>4. FilesTyped'
    <3>1. identity' \in Maybe(Nodes) /\ origin' \in Maybe(Nodes)
      BY <1>1, <2>1, <2>2 DEF LoadIdentity, TypeInv, FilesTyped
    <3>. QED BY <1>1, <3>1 DEF LoadIdentity, TypeInv, FilesTyped, resetFiles, evidence,
                               stopFiles, env, bounds
  <2>5. Put(p, [c EXCEPT !.pc = "creator", !.node = node])
    BY <1>1 DEF LoadIdentity
  <2>. HIDE DEF node
  <2>. QED BY <2>2, <2>3, <2>4, <2>5, WriteTyped
<1>2. CASE WriteConfig(p)
  <2>1. c.node \in Nodes /\ UNCHANGED <<identity, manifest, state>>
    BY <1>2 DEF WriteConfig, At, Shape, Identified, stopFiles
  <2>2. config' \in Maybe(Nodes)
    BY <1>2, <2>1 DEF WriteConfig, TypeInv, FilesTyped
  <2>3. FilesTyped'
    BY <1>2, <2>1, <2>2 DEF WriteConfig, TypeInv, FilesTyped, resetFiles, evidence,
                            stopFiles, env, history, bounds
  <2>4. CASE Stamped(p)
    <3>1. "manifest" \in Steps /\ clock \in Nat
      BY DEF Steps, TypeInv, FilesTyped
    <3>2. [c EXCEPT !.pc = "manifest", !.at = clock] \in Calls
      BY <3>1, FieldsTyped
    <3>3. Shape([c EXCEPT !.pc = "manifest", !.at = clock], identity', manifest', state')
      BY <2>1 DEF Shape, Identified, Calls
    <3>. QED BY <2>1, <2>3, <2>4, <3>2, <3>3, WriteTyped DEF Stamped
  <2>5. CASE End(p)
    BY <2>1, <2>3, <2>5, NoCallTyped, WriteTyped DEF End
  <2>. QED BY <1>2, <2>4, <2>5 DEF WriteConfig
<1>3. CASE WriteManifest(p)
  <2>1. c.node \in Nodes /\ UNCHANGED <<identity, state>>
    BY <1>3 DEF WriteManifest, At, Shape, Identified, stopFiles
  <2>2. Manifested(c.node) \in Manifests /\ Manifested(c.node) # None
    BY <2>1 DEF Manifested, Manifests
  <2>3. manifest' \in Maybe(Manifests) /\ manifest' # None
    BY <1>3, <2>2 DEF WriteManifest, TypeInv, FilesTyped, Maybe
  <2>4. FilesTyped'
    BY <1>3, <2>1, <2>3 DEF WriteManifest, TypeInv, FilesTyped, resetFiles, evidence,
                            stopFiles, env, history, bounds
  <2>5. CASE Go(p, "loadManifest")
    <3>1. "loadManifest" \in Steps
      BY DEF Steps
    <3>2. [c EXCEPT !.pc = "loadManifest"] \in Calls
      BY <3>1, FieldsTyped
    <3>3. Shape([c EXCEPT !.pc = "loadManifest"], identity', manifest', state')
      BY <2>1, <2>3 DEF Shape, Identified, Calls
    <3>. QED BY <2>1, <2>3, <2>4, <2>5, <3>2, <3>3, WriteTyped DEF Go
  <2>6. CASE End(p)
    BY <2>1, <2>3, <2>4, <2>6, NoCallTyped, WriteTyped DEF End
  <2>. QED BY <1>3, <2>5, <2>6 DEF WriteManifest
<1>4. CASE UpgradeManifest(p)
  <2>1. c.node \in Nodes /\ c.manifest \in Manifests /\ UNCHANGED <<identity, state>>
    BY <1>4 DEF UpgradeManifest, At, Shape, Identified, stopFiles
  <2>2. manifest' \in Manifests
    BY <1>4, <2>1 DEF UpgradeManifest, Manifests
  <2>3. manifest' \in Maybe(Manifests) /\ manifest' # None
    BY <1>4, <2>2 DEF UpgradeManifest, Maybe, Manifests
  <2>4. FilesTyped'
    BY <1>4, <2>1, <2>3 DEF UpgradeManifest, TypeInv, FilesTyped, resetFiles, evidence,
                            stopFiles, env, history, bounds
  <2>5. CASE Named(p)
    <3>1. NamedCall(p) \in Calls
      BY NamedTyped
    <3>2. Shape(NamedCall(p), identity', manifest', state')
      BY <2>1, <2>3 DEF NamedCall, Shape, Identified, Calls
    <3>. QED BY <2>1, <2>3, <2>4, <2>5, <3>1, <3>2, WriteTyped DEF Named, NamedCall
  <2>6. CASE End(p)
    BY <2>1, <2>3, <2>4, <2>6, NoCallTyped, WriteTyped DEF End
  <2>. QED BY <1>4, <2>5, <2>6 DEF UpgradeManifest
<1>. QED BY <1>1, <1>2, <1>3, <1>4

LEMMA EvidenceTyped ==
    ASSUME TypeInv, NEW p \in Processes,
           CreateReceipt(p) \/ CreateLineage(p) \/ Log(p) \/ RestartReceipt(p)
    PROVE  TypeInv'
<1>. DEFINE c == call[p]
<1>. USE CallTyped
<1>1. UNCHANGED <<identity, manifest, state>>
  BY DEF CreateReceipt, CreateLineage, Log, RestartReceipt, identityFiles, stopFiles
<1>2. c.node \in Nodes
  BY DEF CreateReceipt, CreateLineage, Log, RestartReceipt, At, Shape, Identified
<1>3. ASSUME End(p), FilesTyped' PROVE TypeInv'
  BY <1>1, <1>3, NoCallTyped, WriteTyped DEF End
<1>4. CASE CreateReceipt(p)
  <2>1. [name |-> c.receipt, node |-> c.node] \in Receipts
    BY <1>2 DEF Receipts
  <2>2. receipts' \subseteq Receipts /\ IsFiniteSet(receipts')
    <3>. DEFINE x == [name |-> c.receipt, node |-> c.node]
    <3>1. receipts \subseteq Receipts /\ IsFiniteSet(receipts)
      BY DEF TypeInv, FilesTyped
    <3>2. IsFiniteSet(receipts \cup {x})
      BY <3>1, FS_AddElement
    <3>3. receipts' = receipts \cup {x} \/ receipts' = receipts
      BY <1>4 DEF CreateReceipt
    <3>. HIDE DEF x
    <3>. QED BY <2>1, <3>1, <3>2, <3>3 DEF x
  <2>3. FilesTyped'
    BY <1>4, <2>2 DEF CreateReceipt, TypeInv, FilesTyped, identityFiles, resetFiles,
                      stopFiles, env, history, bounds
  <2>4. CASE Go(p, "lineage")
    <3>1. "lineage" \in Steps
      BY DEF Steps
    <3>2. [c EXCEPT !.pc = "lineage"] \in Calls
      BY <3>1, FieldsTyped
    <3>3. Shape([c EXCEPT !.pc = "lineage"], identity', manifest', state')
      BY <1>1, <1>2 DEF Shape, Identified, Calls
    <3>. QED BY <1>1, <2>3, <2>4, <3>2, <3>3, WriteTyped DEF Go
  <2>. QED BY <1>3, <1>4, <2>3, <2>4 DEF CreateReceipt
<1>5. CASE CreateLineage(p)
  <2>1. [name |-> c.lineage, receipt |-> c.receipt, node |-> c.node] \in Lineage
    BY <1>2 DEF Lineage
  <2>2. lineage' \subseteq Lineage /\ IsFiniteSet(lineage')
    <3>. DEFINE x == [name |-> c.lineage, receipt |-> c.receipt, node |-> c.node]
    <3>1. lineage \subseteq Lineage /\ IsFiniteSet(lineage)
      BY DEF TypeInv, FilesTyped
    <3>2. IsFiniteSet(lineage \cup {x})
      BY <3>1, FS_AddElement
    <3>3. lineage' = lineage \cup {x} \/ lineage' = lineage
      BY <1>5 DEF CreateLineage
    <3>. HIDE DEF x
    <3>. QED BY <2>1, <3>1, <3>2, <3>3 DEF x
  <2>3. FilesTyped'
    BY <1>5, <2>2 DEF CreateLineage, TypeInv, FilesTyped, identityFiles, resetFiles,
                      stopFiles, env, history, bounds
  <2>4. CASE Go(p, "log")
    <3>1. "log" \in Steps
      BY DEF Steps
    <3>2. [c EXCEPT !.pc = "log"] \in Calls
      BY <3>1, FieldsTyped
    <3>3. Shape([c EXCEPT !.pc = "log"], identity', manifest', state')
      BY <1>1, <1>2 DEF Shape, Identified, Calls
    <3>. QED BY <1>1, <2>3, <2>4, <3>2, <3>3, WriteTyped DEF Go
  <2>. QED BY <1>3, <1>5, <2>3, <2>4 DEF CreateLineage
<1>6. CASE Log(p)
  <2>1. FilesTyped'
    BY <1>6 DEF Log, TypeInv, FilesTyped, identityFiles, resetFiles, evidence,
                stopFiles, env, history, bounds
  <2>2. CASE c.stopping = c.node /\ Go(p, "restartReceipt")
    <3>1. "restartReceipt" \in Steps
      BY DEF Steps
    <3>2. [c EXCEPT !.pc = "restartReceipt"] \in Calls
      BY <3>1, FieldsTyped
    <3>3. Shape([c EXCEPT !.pc = "restartReceipt"], identity', manifest', state')
      BY <1>1, <1>2, <2>2 DEF Shape, Identified, Calls
    <3>. QED BY <1>1, <2>1, <2>2, <3>2, <3>3, WriteTyped DEF Go
  <2>. QED BY <1>3, <1>6, <2>1, <2>2 DEF Log
<1>7. CASE RestartReceipt(p)
  <2>1. c.stopping = c.node
    BY <1>7 DEF RestartReceipt, At, Shape
  <2>2. [previous |-> c.stopping, node |-> c.node, receipt |-> c.receipt,
         decisions |-> c.work, open |-> c.open, alone |-> c.alone] \in Restarts
    BY <1>2, <2>1 DEF Restarts
  <2>3. restarts' \subseteq Restarts
    BY <1>7, <2>2 DEF RestartReceipt, TypeInv, FilesTyped
  <2>4. FilesTyped'
    BY <1>7, <2>3 DEF RestartReceipt, TypeInv, FilesTyped, identityFiles, resetFiles,
                      evidence, stopFiles, env, history, bounds
  <2>. QED BY <1>3, <1>7, <2>4 DEF RestartReceipt
<1>. QED BY <1>4, <1>5, <1>6, <1>7

LEMMA StopTyped ==
    ASSUME TypeInv, NEW p \in Processes,
           StopLog(p) \/ StopWork(p) \/ StopState(p) \/ StopAppend(p) \/ StopUnaudited(p)
    PROVE  TypeInv'
<1>. DEFINE c == call[p]
<1>. USE CallTyped
<1>1. UNCHANGED <<identity, manifest>>
  BY DEF StopLog, StopWork, StopState, StopAppend, StopUnaudited, identityFiles
<1>2. CASE StopLog(p)
  <2>1. "stopLoad" \in Steps /\ clock \in Nat
    BY DEF Steps, TypeInv, FilesTyped
  <2>2. [c EXCEPT !.pc = "stopLoad", !.at = clock] \in Calls
    BY <2>1, FieldsTyped
  <2>3. UNCHANGED state
    BY <1>2 DEF StopLog, stopFiles
  <2>4. Shape([c EXCEPT !.pc = "stopLoad", !.at = clock], identity', manifest', state')
    BY <1>1, <2>3 DEF Shape, Identified, Calls
  <2>5. FilesTyped'
    BY <1>2 DEF StopLog, TypeInv, FilesTyped, identityFiles, resetFiles, evidence,
                stopFiles, env, history, bounds
  <2>. QED BY <1>1, <1>2, <2>2, <2>3, <2>4, <2>5, WriteTyped DEF StopLog
<1>3. CASE StopWork(p)
  <2>1. "stopState" \in Steps
    BY DEF Steps
  <2>2. [c EXCEPT !.pc = "stopState"] \in Calls
    BY <2>1, FieldsTyped
  <2>3. UNCHANGED state
    BY <1>3 DEF StopWork
  <2>4. Shape([c EXCEPT !.pc = "stopState"], identity', manifest', state')
    BY <1>1, <1>3, <2>3 DEF StopWork, At, Shape, Identified, Calls
  <2>5. FilesTyped'
    BY <1>3 DEF StopWork, TypeInv, FilesTyped, identityFiles, resetFiles, evidence,
                env, history, bounds
  <2>. QED BY <1>1, <1>3, <2>2, <2>3, <2>4, <2>5, WriteTyped DEF StopWork, Go
<1>4. CASE StopState(p)
  <2>1. Instance(p) \in Names
    <3>1. c.at \in Nat /\ lineage \subseteq Lineage
      BY DEF TypeInv, FilesTyped
    <3>2. CASE Latest = {}
      BY <3>1, <3>2 DEF Instance, Names
    <3>3. CASE Latest # {}
      <4>1. (CHOOSE l \in Latest : TRUE) \in Latest
        BY <3>3
      <4>2. (CHOOSE l \in Latest : TRUE) \in Lineage
        BY <3>1, <4>1 DEF Latest
      <4>. QED BY <3>3, <4>2 DEF Instance, Lineage
    <3>. QED BY <3>2, <3>3
  <2>2. "stopAudit" \in Steps
    BY DEF Steps
  <2>3. [c EXCEPT !.pc = "stopAudit", !.instance = Instance(p)] \in Calls
    BY <2>1, <2>2, FieldsTyped
  <2>4. state' \in States
    <3>1. c.stopping \in Nodes
      BY <1>4 DEF StopState, At, Shape
    <3>. QED BY <1>4, <3>1 DEF StopState, States
  <2>5. state' # None /\ state' \in Maybe(States)
    BY <2>4 DEF Maybe
  <2>6. Shape([c EXCEPT !.pc = "stopAudit", !.instance = Instance(p)],
              identity', manifest', state')
    BY <1>1, <2>5 DEF Shape, Identified, Calls
  <2>7. FilesTyped'
    BY <1>4, <2>5 DEF StopState, TypeInv, FilesTyped, identityFiles, resetFiles, evidence,
                      env, history, bounds
  <2>. QED BY <1>1, <1>4, <2>3, <2>5, <2>6, <2>7, WriteTyped DEF StopState
<1>5. CASE StopAppend(p) \/ StopUnaudited(p)
  <2>1. UNCHANGED state /\ c.pc = "stopAppend" /\ StopDone(p)
    BY <1>5 DEF StopAppend, StopUnaudited, stopFiles, At
  <2>2. stops' \in Seq(Stops)
    <3>1. [instance |-> c.instance, alone |-> c.alone] \in Stops
      BY DEF Stops
    <3>. QED BY <1>5, <3>1 DEF StopAppend, StopUnaudited, stopFiles, TypeInv, FilesTyped
  <2>3. calls' \in 0..MaxCalls /\ faults' \in 0..MaxFaults /\ moves' \in 0..MaxMoves
    BY <1>5 DEF StopAppend, StopUnaudited, Fault, TypeInv, FilesTyped, bounds
  <2>4. FilesTyped'
    BY <1>5, <2>2, <2>3 DEF StopAppend, StopUnaudited, TypeInv, FilesTyped, identityFiles,
                            resetFiles, evidence, stopFiles, env, history
  <2>5. CASE Go(p, "restartRead")
    <3>1. "restartRead" \in Steps
      BY DEF Steps
    <3>2. [c EXCEPT !.pc = "restartRead"] \in Calls
      BY <3>1, FieldsTyped
    <3>3. Shape([c EXCEPT !.pc = "restartRead"], identity', manifest', state')
      BY <1>1, <2>1 DEF Shape, Identified, Calls
    <3>. QED BY <1>1, <2>1, <2>4, <2>5, <3>2, <3>3, WriteTyped DEF Go
  <2>6. CASE End(p)
    BY <1>1, <2>1, <2>4, <2>6, NoCallTyped, WriteTyped DEF End
  <2>. QED BY <2>1, <2>5, <2>6 DEF StopDone
<1>. QED BY <1>2, <1>3, <1>4, <1>5

LEMMA FailTyped ==
    ASSUME TypeInv, NEW p \in Processes, Fail(p)
    PROVE  TypeInv'
<1>1. UNCHANGED <<identity, manifest, state>>
  BY DEF Fail, identityFiles, stopFiles
<1>2. FilesTyped'
  <2>1. stray' \in BOOLEAN
    <3>1. stray' = stray \/ stray' = TRUE
      BY Zenon DEF Fail
    <3>2. stray \in BOOLEAN
      BY DEF TypeInv, FilesTyped
    <3>. QED BY <3>1, <3>2, Zenon
  <2>2. faults' \in 0..MaxFaults
    BY DEF Fail, Fault, TypeInv, FilesTyped
  <2>3. UNCHANGED <<identityFiles, resetFiles, evidence, stopFiles, restarts,
                    env, history, calls, moves>>
    BY DEF Fail
  <2>. QED BY <2>1, <2>2, <2>3 DEF TypeInv, FilesTyped, identityFiles, resetFiles, evidence,
                       stopFiles, env, history
<1>. QED BY <1>1, <1>2, NoCallTyped, WriteTyped DEF Fail, End

LEMMA BeginTyped ==
    ASSUME TypeInv, NEW p \in Processes, NEW kind \in Kinds, Begin(p, kind)
    PROVE  TypeInv'
<1>. DEFINE first == IF kind \in {"start", "reset"} THEN "preload" ELSE "stopLog"
            others == \E q \in Processes : ~At(q, "idle")
            new == [NoCall EXCEPT !.kind = kind, !.pc = first, !.open = open,
                                  !.alone = ~others]
<1>1. UNCHANGED <<identity, manifest, state>>
  BY DEF Begin, identityFiles, stopFiles
<1>2. first \in {"preload", "stopLog"} /\ (~others) \in BOOLEAN /\ open \subseteq Works
  <2>1. (~others) \in BOOLEAN
    OBVIOUS
  <2>2. first \in {"preload", "stopLog"} /\ open \subseteq Works
    BY DEF TypeInv, FilesTyped
  <2>. QED BY <2>1, <2>2, Zenon
<1>3. new \in Calls /\ Shape(new, identity', manifest', state')
  <2>1. first \in Steps
    BY <1>2 DEF Steps
  <2>. HIDE DEF others, first
  <2>2. new \in Calls /\ new.pc = first /\ ~new.existed
    BY <1>2, <2>1, NoCallTyped DEF Calls, NoCall
  <2>. HIDE DEF new
  <2>. QED BY <1>2, <2>2 DEF Shape, Identified
<1>4. ASSUME NEW q \in Processes
      PROVE  call'[q] \in Calls /\ Shape(call'[q], identity', manifest', state')
  <2>. USE CallTyped
  <2>1. call'[q] = IF q = p THEN new ELSE IF At(q, "idle") THEN call[q]
                   ELSE [call[q] EXCEPT !.alone = FALSE]
    BY DEF Begin
  <2>. HIDE DEF new
  <2>2. [call[q] EXCEPT !.alone = FALSE] \in Calls
    <3>1. call[q] \in Calls /\ "idle" \in Steps
      BY DEF Steps
    <3>. QED BY <3>1, FieldsTyped
  <2>3. Shape(call[q], identity', manifest', state')
    BY <1>1
  <2>4. Shape([call[q] EXCEPT !.alone = FALSE], identity', manifest', state')
    BY <2>3 DEF Shape, Identified, Calls
  <2>. QED BY <1>3, <2>1, <2>2, <2>3, <2>4
<1>5. \E f : call' = [q \in Processes |-> f[q]]
  <2>1. call' = [q \in Processes |-> IF q = p THEN new ELSE IF At(q, "idle") THEN call[q]
                   ELSE [call[q] EXCEPT !.alone = FALSE]]
    BY DEF Begin
  <2>. DEFINE f == [q \in Processes |-> IF q = p THEN new ELSE IF At(q, "idle") THEN call[q]
                   ELSE [call[q] EXCEPT !.alone = FALSE]]
  <2>2. f = [q \in Processes |-> f[q]]
    BY Zenon
  <2>. HIDE DEF f
  <2>. QED BY <2>1, <2>2 DEF f
<1>6. CallsTyped' /\ Shaped'
  BY <1>4, <1>5 DEF CallsTyped, Shaped
<1>7. FilesTyped'
  <2>1. /\ calls < MaxCalls /\ calls' = calls + 1
        /\ UNCHANGED <<identityFiles, resetFiles, evidence, stopFiles, restarts,
                       stray, env, history, faults, moves>>
    BY DEF Begin
  <2>2. calls' \in 0..MaxCalls
    BY <2>1 DEF TypeInv, FilesTyped
  <2>. QED BY <2>1, <2>2 DEF TypeInv, FilesTyped, identityFiles, resetFiles, evidence,
                             stopFiles, env, history
<1>. QED BY <1>6, <1>7 DEF TypeInv

LEMMA EnvironmentTyped ==
    ASSUME TypeInv, Environment
    PROVE  TypeInv'
<1>1. UNCHANGED <<identity, manifest, state>>
  BY DEF Environment, Submit, Complete, Tick, Move, identityFiles, stopFiles
<1>2. FilesTyped'
  <2>1. /\ machine' \in Nodes /\ open' \subseteq Works /\ clock' \in 0..MaxClock
        /\ calls' \in 0..MaxCalls /\ faults' \in 0..MaxFaults /\ moves' \in 0..MaxMoves
    <3>1. ASSUME NEW w \in Works, Submit(w) \/ Complete(w)
          PROVE  open' \subseteq Works /\ UNCHANGED <<machine, clock, bounds>>
      BY <3>1 DEF Submit, Complete, TypeInv, FilesTyped
    <3>2. CASE Tick
      BY <3>2 DEF Tick, TypeInv, FilesTyped, bounds
    <3>3. ASSUME NEW n \in Nodes, Move(n)
          PROVE  machine' = n /\ moves' \in 0..MaxMoves /\ UNCHANGED <<open, clock, calls, faults>>
      BY <3>3 DEF Move, TypeInv, FilesTyped
    <3>. QED BY <3>1, <3>2, <3>3 DEF Environment, TypeInv, FilesTyped, bounds
  <2>2. UNCHANGED <<identityFiles, resetFiles, evidence, stopFiles, restarts, history>>
    BY DEF Environment, Submit, Complete, Tick, Move
  <2>3. stray' \in BOOLEAN
    <3>1. stray' \in {stray, TRUE}
      BY Zenon DEF Environment, Submit, Complete, Tick, Move
    <3>2. stray \in BOOLEAN
      BY DEF TypeInv, FilesTyped
    <3>. QED BY <3>1, <3>2, Zenon
  <2>. QED BY <2>1, <2>2, <2>3 DEF TypeInv, FilesTyped, identityFiles, resetFiles, evidence,
                             stopFiles, history
<1>3. CASE \E w \in Works : Complete(w)
  <2>1. PICK w \in Works : Complete(w)
    BY <1>3
  <2>2. call' = [p \in Processes |-> [call[p] EXCEPT !.open = @ \ {w}]]
    BY <2>1 DEF Complete
  <2>3. ASSUME NEW p \in Processes
        PROVE  /\ [call[p] EXCEPT !.open = @ \ {w}] \in Calls
               /\ Shape([call[p] EXCEPT !.open = @ \ {w}], identity, manifest, state)
    <3>. USE CallTyped
    <3>1. call[p].open \ {w} \in SUBSET Works
      OBVIOUS
    <3>2. [call[p] EXCEPT !.open = call[p].open \ {w}] \in Calls
      <4>1. call[p] \in Calls /\ "idle" \in Steps
        BY DEF Steps
      <4>. QED BY <3>1, <4>1, FieldsTyped
    <3>3. Shape([call[p] EXCEPT !.open = call[p].open \ {w}], identity, manifest, state)
      BY DEF Shape, Identified, Calls
    <3>. QED BY <3>2, <3>3
  <2>4. CallsTyped' /\ Shaped'
    BY <1>1, <2>2, <2>3 DEF CallsTyped, Shaped
  <2>. QED BY <1>2, <2>4 DEF TypeInv
<1>4. CASE call' = call
  BY <1>1, <1>2, <1>4 DEF TypeInv, CallsTyped, Shaped
<1>. QED BY <1>3, <1>4 DEF Environment, Submit, Tick, Move

LEMMA StepTypeInv == TypeInv /\ [Next]_vars => TypeInv'
<1>. SUFFICES ASSUME TypeInv, [Next]_vars PROVE TypeInv'
  OBVIOUS
<1>1. ASSUME NEW p \in Processes, NEW kind \in Kinds, Begin(p, kind) PROVE TypeInv'
  BY <1>1, BeginTyped
<1>2. ASSUME NEW p \in Processes, StartStep(p) PROVE TypeInv'
  BY <1>2, ReadsTyped, ResetTyped, StartWritesTyped, EvidenceTyped DEF StartStep
<1>3. ASSUME NEW p \in Processes, StopStep(p) \/ RestartStep(p) PROVE TypeInv'
  BY <1>3, ReadsTyped, StopTyped, EvidenceTyped DEF StopStep, RestartStep
<1>4. ASSUME NEW p \in Processes, Failure(p) PROVE TypeInv'
  BY <1>4, FailTyped, ResetTyped, StopTyped DEF Failure
<1>5. CASE Environment
  BY <1>5, EnvironmentTyped
<1>6. CASE UNCHANGED vars
  BY <1>6 DEF vars, TypeInv, FilesTyped, CallsTyped, Shaped, identityFiles, resetFiles,
              evidence, stopFiles, env, history, bounds
<1>. QED BY <1>1, <1>2, <1>3, <1>4, <1>5, <1>6 DEF Next

LEMMA NodeTypeInv == Spec => []TypeInv
BY InitTypeInv, StepTypeInv, PTL DEF Spec

(* Files and calls keep their shape, whatever overlaps or fails: every      *)
(* receipt, record and state names a node that was identified.              *)
THEOREM NodeTypeCorrect == Spec => []TypeOK
BY NodeTypeInv, TypeInvGivesTypeOK, PTL

(***************************************************************************)
(* What a step does to the calls.                                          *)
(***************************************************************************)
LEMMA PutCall ==
    ASSUME TypeInv, NEW p \in Processes, NEW r, Put(p, r)
    PROVE  call'[p] = r /\ \A q \in Processes : q # p => call'[q] = call[q]
BY DEF TypeInv, CallsTyped, Put

LEMMA GoCall ==
    ASSUME TypeInv, NEW p \in Processes, NEW to, Go(p, to)
    PROVE  /\ call'[p] = [call[p] EXCEPT !.pc = to] /\ call'[p].pc = to
           /\ \A q \in Processes : q # p => call'[q] = call[q]
BY PutCall, CallTyped DEF Go, Calls

LEMMA GoKeeps ==
    ASSUME TypeInv, NEW p \in Processes, NEW to, Go(p, to)
    PROVE  /\ call'[p].node = call[p].node /\ call'[p].receipt = call[p].receipt
           /\ call'[p].work = call[p].work /\ call'[p].open = call[p].open
           /\ call'[p].alone = call[p].alone /\ call'[p].instance = call[p].instance
           /\ call'[p].kind = call[p].kind /\ call'[p].existed = call[p].existed
           /\ call'[p].config = call[p].config /\ call'[p].previous = call[p].previous
           /\ call'[p].resets = call[p].resets /\ call'[p].copy = call[p].copy
<1>1. call'[p] = [call[p] EXCEPT !.pc = to] /\ call[p] \in Calls
  BY GoCall, CallTyped
<1>2. \A c \in Calls : LET d == [c EXCEPT !.pc = to] IN
         /\ d.node = c.node /\ d.receipt = c.receipt /\ d.work = c.work /\ d.open = c.open
         /\ d.alone = c.alone /\ d.instance = c.instance /\ d.kind = c.kind
         /\ d.existed = c.existed /\ d.config = c.config /\ d.previous = c.previous
         /\ d.resets = c.resets /\ d.copy = c.copy
  BY DEF Calls
<1>. QED BY <1>1, <1>2

LEMMA EndCall ==
    ASSUME TypeInv, NEW p \in Processes, End(p)
    PROVE  /\ call'[p] = NoCall /\ call'[p].pc = "idle"
           /\ \A q \in Processes : q # p => call'[q] = call[q]
BY PutCall DEF End, NoCall

LEMMA StampedCall ==
    ASSUME TypeInv, NEW p \in Processes, Stamped(p)
    PROVE  /\ call'[p] = [call[p] EXCEPT !.pc = "manifest", !.at = clock]
           /\ call'[p].pc = "manifest"
           /\ \A q \in Processes : q # p => call'[q] = call[q]
<1>1. call \in [Processes -> Calls]
  BY DEF TypeInv, CallsTyped
<1>. QED BY <1>1 DEF Stamped, Put, Calls

LEMMA NamedIs ==
    ASSUME TypeInv, NEW p \in Processes, Named(p)
    PROVE  /\ call'[p] = NamedCall(p) /\ call'[p].pc = "receipt"
           /\ \A q \in Processes : q # p => call'[q] = call[q]
<1>1. call \in [Processes -> Calls]
  BY DEF TypeInv, CallsTyped
<1>2. call'[p] = NamedCall(p) /\ \A q \in Processes : q # p => call'[q] = call[q]
  BY <1>1 DEF Named, NamedCall, Put
<1>3. NamedCall(p).pc = "receipt"
  BY <1>1 DEF NamedCall, Calls
<1>. QED BY <1>2, <1>3

(* The steps of a call p, and where each may take it. *)
Leads(p, S) == /\ call'[p].pc \in S
               /\ \A q \in Processes : q # p => call'[q] = call[q]

LEMMA StartLeads ==
    ASSUME TypeInv, NEW p \in Processes
    PROVE  /\ Preload(p) => Leads(p, {"idle", "identity", "compare"})
           /\ Compare(p) => Leads(p, {"idle", "quarantine", "identity"})
           /\ NameCopy(p) => Leads(p, {"copy"})
           /\ Quarantine(p) => Leads(p, {"saveIdentity"})
           /\ SaveIdentity(p) => Leads(p, {"readResets"})
           /\ ReadResets(p) => Leads(p, {"writeResets"})
           /\ WriteResets(p) => Leads(p, {"identity"})
           /\ LoadIdentity(p) => Leads(p, {"creator"})
           /\ ReadCreator(p) => Leads(p, {"idle", "createConfig", "config"})
           /\ CheckConfig(p) => Leads(p, {"idle", "createConfig", "manifest"})
           /\ WriteConfig(p) => Leads(p, {"idle", "manifest"})
           /\ CheckManifest(p) => Leads(p, {"createManifest", "loadManifest"})
           /\ WriteManifest(p) => Leads(p, {"idle", "loadManifest"})
           /\ LoadManifest(p) => Leads(p, {"idle", "upgrade", "receipt"})
           /\ UpgradeManifest(p) => Leads(p, {"idle", "receipt"})
           /\ CreateReceipt(p) => Leads(p, {"idle", "lineage"})
           /\ CreateLineage(p) => Leads(p, {"idle", "log"})
           /\ Log(p) => Leads(p, {"idle", "restartReceipt"})
<1>0. call \in [Processes -> Calls]
  BY DEF TypeInv, CallsTyped
<1>. USE <1>0, GoCall, EndCall DEF Leads
<1>1. Preload(p) => Leads(p, {"idle", "identity", "compare"})
  <2>1. ASSUME NEW to, Put(p, [call[p] EXCEPT !.pc = to, !.config = config,
                                              !.existed = identity # None])
        PROVE  Leads(p, {to})
    BY <2>1 DEF Put, Calls
  <2>. QED BY <2>1 DEF Preload
<1>2. Compare(p) => Leads(p, {"idle", "quarantine", "identity"})
  BY DEF Compare
<1>3. NameCopy(p) => Leads(p, {"copy"})
  BY DEF NameCopy, Put, Calls
<1>17. Quarantine(p) => Leads(p, {"saveIdentity"})
  BY DEF Quarantine
<1>18. ReadCreator(p) => Leads(p, {"idle", "createConfig", "config"})
  BY DEF ReadCreator
<1>4. SaveIdentity(p) => Leads(p, {"readResets"})
  BY DEF SaveIdentity
<1>5. ReadResets(p) => Leads(p, {"writeResets"})
  BY DEF ReadResets, Put, Calls
<1>6. WriteResets(p) => Leads(p, {"identity"})
  BY DEF WriteResets
<1>7. LoadIdentity(p) => Leads(p, {"creator"})
  BY DEF LoadIdentity, Put, Calls
<1>8. CheckConfig(p) => Leads(p, {"idle", "createConfig", "manifest"})
  BY StampedCall DEF CheckConfig
<1>9. WriteConfig(p) => Leads(p, {"idle", "manifest"})
  BY StampedCall DEF WriteConfig
<1>10. CheckManifest(p) => Leads(p, {"createManifest", "loadManifest"})
  BY DEF CheckManifest
<1>11. WriteManifest(p) => Leads(p, {"idle", "loadManifest"})
  BY DEF WriteManifest
<1>12. LoadManifest(p) => Leads(p, {"idle", "upgrade", "receipt"})
  <2>1. ASSUME Put(p, [call[p] EXCEPT !.pc = "upgrade", !.manifest = manifest])
        PROVE  Leads(p, {"upgrade"})
    BY <2>1 DEF Put, Calls
  <2>. QED BY <2>1, NamedIs DEF LoadManifest
<1>13. UpgradeManifest(p) => Leads(p, {"idle", "receipt"})
  BY NamedIs DEF UpgradeManifest
<1>14. CreateReceipt(p) => Leads(p, {"idle", "lineage"})
  BY DEF CreateReceipt
<1>15. CreateLineage(p) => Leads(p, {"idle", "log"})
  BY DEF CreateLineage
<1>16. Log(p) => Leads(p, {"idle", "restartReceipt"})
  BY DEF Log
<1>. QED BY <1>1, <1>2, <1>3, <1>4, <1>5, <1>6, <1>7, <1>8, <1>9, <1>10, <1>11, <1>12,
            <1>13, <1>14, <1>15, <1>16, <1>17, <1>18, Zenon

LEMMA StopLeads ==
    ASSUME TypeInv, NEW p \in Processes
    PROVE  /\ StopLog(p) => Leads(p, {"stopLoad"})
           /\ StopLoad(p) => Leads(p, {"idle", "stopWork", "stopState"})
           /\ StopWork(p) => Leads(p, {"stopState"})
           /\ StopState(p) => Leads(p, {"stopAudit"})
           /\ StopAudit(p) => Leads(p, {"idle", "stopAppend", "restartRead"})
           /\ StopAppend(p) => Leads(p, {"idle", "restartRead"})
           /\ RestartRead(p) => Leads(p, {"preload"})
           /\ RestartReceipt(p) => Leads(p, {"idle"})
           /\ Fail(p) => Leads(p, {"idle"})
           /\ RestoreIdentity(p) => Leads(p, {"idle"})
           /\ StopUnaudited(p) => Leads(p, {"idle", "restartRead"})
<1>0. call \in [Processes -> Calls]
  BY DEF TypeInv, CallsTyped
<1>. USE <1>0, GoCall, EndCall DEF Leads
<1>1. StopLog(p) => Leads(p, {"stopLoad"})
  BY DEF StopLog, Put, Calls
<1>2. StopLoad(p) => Leads(p, {"idle", "stopWork", "stopState"})
  <2>1. ASSUME NEW to, Put(p, [call[p] EXCEPT !.pc = to, !.stopping = identity, !.work = open])
        PROVE  Leads(p, {to})
    BY <2>1 DEF Put, Calls
  <2>. QED BY <2>1 DEF StopLoad
<1>3. StopWork(p) => Leads(p, {"stopState"})
  BY DEF StopWork
<1>4. StopState(p) => Leads(p, {"stopAudit"})
  BY DEF StopState, Put, Calls
<1>5. StopAudit(p) => Leads(p, {"idle", "stopAppend", "restartRead"})
  BY DEF StopAudit, StopDone
<1>6. StopAppend(p) => Leads(p, {"idle", "restartRead"})
  BY DEF StopAppend, StopDone
<1>7. RestartRead(p) => Leads(p, {"preload"})
  BY DEF RestartRead, Put, Calls
<1>8. /\ RestartReceipt(p) => Leads(p, {"idle"})
      /\ Fail(p) => Leads(p, {"idle"})
      /\ RestoreIdentity(p) => Leads(p, {"idle"})
  BY DEF RestartReceipt, Fail, RestoreIdentity
<1>9. StopUnaudited(p) => Leads(p, {"idle", "restartRead"})
  BY DEF StopUnaudited, StopDone
<1>. QED BY <1>1, <1>2, <1>3, <1>4, <1>5, <1>6, <1>7, <1>8, <1>9, Zenon

(* What begins, or goes on while others begin or work is done. *)
LEMMA BeginCall ==
    ASSUME TypeInv, NEW p \in Processes, NEW kind \in Kinds, Begin(p, kind)
    PROVE  /\ call[p].pc = "idle"
           /\ call'[p].pc \in {"preload", "stopLog"} /\ call'[p].open = open
           /\ call'[p].pc = "preload" => call'[p].kind # "restart"
           /\ call'[p].alone => \A q \in Processes : q # p => call[q].pc = "idle"
           /\ \A q \in Processes : q # p =>
                 /\ call'[q] \in {call[q], [call[q] EXCEPT !.alone = FALSE]}
                 /\ call[q].pc # "idle" => ~call'[q].alone
<1>. DEFINE others == \E q \in Processes : ~At(q, "idle")
            first == IF kind \in {"start", "reset"} THEN "preload" ELSE "stopLog"
            new == [NoCall EXCEPT !.kind = kind, !.pc = first, !.open = open,
                                  !.alone = ~others]
<1>1. \A q \in Processes :
        call'[q] = IF q = p THEN new ELSE IF At(q, "idle") THEN call[q]
                   ELSE [call[q] EXCEPT !.alone = FALSE]
  BY DEF Begin
<1>2. new.pc = first /\ new.open = open /\ new.alone = ~others /\ new.kind = kind
  <2>. HIDE DEF others, first
  <2>. QED BY DEF NoCall
<1>3. call'[p] = new
  BY <1>1
<1>4. first \in {"preload", "stopLog"} /\ (first = "preload" => kind # "restart")
  OBVIOUS
<1>5. call[p].pc = "idle"
  BY DEF Begin, At
<1>6. new.alone => \A q \in Processes : q # p => call[q].pc = "idle"
  BY <1>2, Zenon DEF At
<1>. HIDE DEF new, first, others
<1>7. ASSUME NEW q \in Processes, q # p
      PROVE  /\ call'[q] \in {call[q], [call[q] EXCEPT !.alone = FALSE]}
             /\ call[q].pc # "idle" => ~call'[q].alone
  BY <1>1, <1>7, CallTyped DEF At, Calls
<1>. QED BY <1>2, <1>3, <1>4, <1>5, <1>6, <1>7

LEMMA CompleteCall ==
    ASSUME TypeInv, NEW w \in Works, Complete(w), NEW q \in Processes
    PROVE  call'[q] = [call[q] EXCEPT !.open = call[q].open \ {w}]
BY DEF Complete

LEMMA EnvironmentCall ==
    ASSUME TypeInv, Environment, NEW q \in Processes
    PROVE  \/ call'[q] = call[q] /\ open \subseteq open'
           \/ \E w \in Works : /\ call'[q] = [call[q] EXCEPT !.open = call[q].open \ {w}]
                              /\ open' = open \ {w}
BY CompleteCall DEF Environment, Submit, Complete, Tick, Move

(***************************************************************************)
(* The evidence.  A call that has written its receipt or lineage record    *)
(* may rely on it: files are created without replacing others.             *)
(***************************************************************************)
Attested(c, R, L) ==
    /\ c.pc = "lineage" => \E r \in R : r.name = c.receipt /\ r.node = c.node
    /\ c.pc \in {"log", "restartReceipt"} =>
          \E l \in L : l.receipt = c.receipt /\ l.node = c.node

EvidenceInv ==
    /\ \A r, q \in receipts : r.name = q.name => r = q
    /\ LineageIsAttested
    /\ RestartKeepsNode
    /\ \A p \in Processes : Attested(call[p], receipts, lineage)

LEMMA InitEvidence == Init => EvidenceInv
<1>. SUFFICES ASSUME Init PROVE EvidenceInv
  OBVIOUS
<1>1. \A p \in Processes : Attested(call[p], receipts, lineage)
  BY DEF Init, NoCall, Attested
<1>2. RestartKeepsNode
  BY DEF Init, RestartKeepsNode
<1>3. (\A r, q \in receipts : r.name = q.name => r = q) /\ LineageIsAttested
  <2>1. CASE Empty
    BY <2>1 DEF Empty, LineageIsAttested
  <2>2. ASSUME NEW node \in Nodes, Started(node)
        PROVE  (\A r, q \in receipts : r.name = q.name => r = q) /\ LineageIsAttested
    <3>. DEFINE first == [at |-> 0, index |-> 1]
                r == [name |-> first, node |-> node]
                l == [name |-> first, receipt |-> first, node |-> node]
    <3>1. receipts = {r} /\ lineage = {l}
      BY <2>2 DEF Started
    <3>2. r.node = l.node /\ r.name = l.receipt
      OBVIOUS
    <3>. HIDE DEF r, l
    <3>. QED BY <3>1, <3>2 DEF LineageIsAttested
  <2>. QED BY <2>1, <2>2 DEF Init
<1>. QED BY <1>1, <1>2, <1>3 DEF EvidenceInv

LEMMA EvidenceKept ==
    ASSUME EvidenceInv, UNCHANGED <<evidence, restarts>>,
           \A q \in Processes : Attested(call'[q], receipts, lineage)
    PROVE  EvidenceInv'
BY DEF EvidenceInv, LineageIsAttested, RestartKeepsNode, evidence

LEMMA QuietEvidence ==
    ASSUME TypeInv, EvidenceInv, NEW p \in Processes, UNCHANGED <<evidence, restarts>>,
           Leads(p, Steps \ {"lineage", "log", "restartReceipt"})
    PROVE  EvidenceInv'
<1>1. ASSUME NEW q \in Processes PROVE Attested(call'[q], receipts, lineage)
  BY DEF Leads, Attested, EvidenceInv
<1>. QED BY <1>1, EvidenceKept

LEMMA StepEvidence ==
    ASSUME TypeInv, EvidenceInv, [Next]_vars
    PROVE  EvidenceInv'
<1>1. ASSUME NEW p \in Processes, NEW kind \in Kinds, Begin(p, kind) PROVE EvidenceInv'
  <2>1. ASSUME NEW q \in Processes PROVE Attested(call'[q], receipts, lineage)
    <3>1. CASE q = p
      BY <1>1, <3>1, BeginCall DEF Attested
    <3>2. CASE q # p
      <4>1. call'[q] \in {call[q], [call[q] EXCEPT !.alone = FALSE]}
        BY <1>1, <3>2, BeginCall
      <4>2. /\ call'[q].pc = call[q].pc /\ call'[q].receipt = call[q].receipt
            /\ call'[q].node = call[q].node
        BY <4>1, CallTyped DEF Calls
      <4>. QED BY <4>2 DEF EvidenceInv, Attested
    <3>. QED BY <3>1, <3>2
  <2>2. UNCHANGED <<evidence, restarts>>
    BY <1>1 DEF Begin
  <2>. QED BY <2>1, <2>2, EvidenceKept
<1>2. ASSUME NEW p \in Processes, CreateReceipt(p) PROVE EvidenceInv'
  <2>. DEFINE x == [name |-> call[p].receipt, node |-> call[p].node]
  <2>1. CASE receipts' = receipts /\ End(p)
    <3>1. Leads(p, Steps \ {"lineage", "log", "restartReceipt"})
      BY <2>1, EndCall DEF Leads, Steps
    <3>. QED BY <1>2, <2>1, <3>1, QuietEvidence DEF CreateReceipt, evidence
  <2>2. CASE ~Taken(call[p].receipt, receipts) /\ receipts' = receipts \cup {x} /\ Go(p, "lineage")
    <3>1. lineage' = lineage /\ restarts' = restarts
      BY <1>2 DEF CreateReceipt
    <3>2. \A r \in receipts : r.name # x.name
      BY <2>2 DEF Taken
    <3>3. \A r, q \in receipts' : r.name = q.name => r = q
      BY <2>2, <3>2 DEF EvidenceInv
    <3>4. LineageIsAttested'
      <4>1. ASSUME NEW l \in lineage
            PROVE  \E r \in receipts' : /\ r.node = l.node
                                       /\ \A q \in receipts' : q.name = l.receipt <=> q = r
        <5>1. PICK r \in receipts : /\ r.node = l.node
                                   /\ \A q \in receipts : q.name = l.receipt <=> q = r
          BY DEF EvidenceInv, LineageIsAttested
        <5>2. r.name = l.receipt /\ x.name # l.receipt /\ x # r
          BY <3>2, <5>1
        <5>. HIDE DEF x
        <5>3. \A q \in receipts' : q.name = l.receipt <=> q = r
          BY <2>2, <5>1, <5>2
        <5>4. r \in receipts'
          BY <2>2
        <5>. QED BY <5>1, <5>3, <5>4
      <4>. QED BY <3>1, <4>1 DEF LineageIsAttested
    <3>5. RestartKeepsNode'
      BY <3>1 DEF EvidenceInv, RestartKeepsNode
    <3>6. ASSUME NEW q \in Processes PROVE Attested(call'[q], receipts', lineage')
      <4>1. CASE q = p
        <5>1. /\ call'[p].pc = "lineage" /\ call'[p].receipt = x.name
              /\ call'[p].node = x.node
          BY <2>2, GoCall, GoKeeps
        <5>2. x \in receipts'
          BY <2>2
        <5>. HIDE DEF x
        <5>. QED BY <4>1, <5>1, <5>2 DEF Attested
      <4>2. CASE q # p
        <5>1. call'[q] = call[q] /\ receipts \subseteq receipts'
          BY <2>2, <4>2, GoCall
        <5>. QED BY <3>1, <5>1 DEF EvidenceInv, Attested
      <4>. QED BY <4>1, <4>2
    <3>. QED BY <3>3, <3>4, <3>5, <3>6 DEF EvidenceInv
  <2>. QED BY <1>2, <2>1, <2>2 DEF CreateReceipt
<1>3. ASSUME NEW p \in Processes, CreateLineage(p) PROVE EvidenceInv'
  <2>. DEFINE x == [name |-> call[p].lineage, receipt |-> call[p].receipt,
                    node |-> call[p].node]
  <2>1. CASE lineage' = lineage /\ End(p)
    <3>1. Leads(p, Steps \ {"lineage", "log", "restartReceipt"})
      BY <2>1, EndCall DEF Leads, Steps
    <3>. QED BY <1>3, <2>1, <3>1, QuietEvidence DEF CreateLineage, evidence
  <2>2. CASE lineage' = lineage \cup {x} /\ Go(p, "log")
    <3>1. receipts' = receipts /\ restarts' = restarts
      BY <1>3 DEF CreateLineage
    <3>2. PICK r \in receipts : r.name = call[p].receipt /\ r.node = call[p].node
      BY <1>3 DEF CreateLineage, At, EvidenceInv, Attested
    <3>3. LineageIsAttested'
      <4>1. \A q \in receipts : q.name = x.receipt <=> q = r
        BY <3>2 DEF EvidenceInv
      <4>2. r.node = x.node
        BY <3>2
      <4>. HIDE DEF x
      <4>. QED BY <2>2, <3>1, <4>1, <4>2 DEF EvidenceInv, LineageIsAttested
    <3>4. RestartKeepsNode'
      BY <2>2, <3>1 DEF EvidenceInv, RestartKeepsNode
    <3>5. ASSUME NEW q \in Processes PROVE Attested(call'[q], receipts', lineage')
      <4>1. CASE q = p
        <5>1. /\ call'[p].pc = "log" /\ call'[p].receipt = x.receipt
              /\ call'[p].node = x.node
          BY <2>2, GoCall, GoKeeps
        <5>2. x \in lineage'
          BY <2>2
        <5>. HIDE DEF x
        <5>. QED BY <4>1, <5>1, <5>2 DEF Attested
      <4>2. CASE q # p
        <5>1. call'[q] = call[q] /\ lineage \subseteq lineage'
          BY <2>2, <4>2, GoCall
        <5>. QED BY <3>1, <5>1 DEF EvidenceInv, Attested
      <4>. QED BY <4>1, <4>2
    <3>6. \A r1, r2 \in receipts' : r1.name = r2.name => r1 = r2
      BY <3>1 DEF EvidenceInv
    <3>. QED BY <3>3, <3>4, <3>5, <3>6 DEF EvidenceInv
  <2>. QED BY <1>3, <2>1, <2>2 DEF CreateLineage
<1>4. ASSUME NEW p \in Processes, Log(p) PROVE EvidenceInv'
  <2>1. ASSUME NEW q \in Processes PROVE Attested(call'[q], receipts, lineage)
    <3>1. CASE q # p
      BY <1>4, <3>1, StartLeads DEF Leads, EvidenceInv
    <3>2. CASE q = p /\ End(p)
      BY <3>2, EndCall DEF Attested
    <3>3. CASE q = p /\ Go(p, "restartReceipt")
      <4>1. /\ call'[p].pc = "restartReceipt" /\ call'[p].receipt = call[p].receipt
            /\ call'[p].node = call[p].node
        BY <3>3, GoCall, GoKeeps
      <4>2. call[p].pc = "log"
        BY <1>4 DEF Log, At
      <4>. QED BY <3>3, <4>1, <4>2 DEF EvidenceInv, Attested
    <3>. QED BY <1>4, <3>1, <3>2, <3>3 DEF Log
  <2>2. UNCHANGED <<evidence, restarts>>
    BY <1>4 DEF Log
  <2>. QED BY <2>1, <2>2, EvidenceKept
<1>5. ASSUME NEW p \in Processes, RestartReceipt(p) PROVE EvidenceInv'
  <2>. DEFINE x == [previous |-> call[p].stopping, node |-> call[p].node,
                    receipt |-> call[p].receipt, decisions |-> call[p].work,
                    open |-> call[p].open, alone |-> call[p].alone]
  <2>1. evidence' = evidence /\ (restarts' = restarts \cup {x} \/ restarts' = restarts)
    BY <1>5 DEF RestartReceipt
  <2>2. PICK l \in lineage : l.receipt = call[p].receipt /\ l.node = call[p].node
    BY <1>5 DEF RestartReceipt, At, EvidenceInv, Attested
  <2>3. x.node = x.previous
    BY <1>5, CallTyped DEF RestartReceipt, At, Shape
  <2>4. l.receipt = x.receipt /\ l.node = x.node
    BY <2>2
  <2>5. RestartKeepsNode'
    <3>. HIDE DEF x
    <3>. QED BY <2>1, <2>3, <2>4 DEF EvidenceInv, RestartKeepsNode, evidence
  <2>6. \A q \in Processes : Attested(call'[q], receipts, lineage)
    BY <1>5, StopLeads DEF Leads, EvidenceInv, Attested
  <2>. QED BY <2>1, <2>5, <2>6 DEF EvidenceInv, LineageIsAttested, evidence
<1>6. ASSUME NEW p \in Processes,
             \/ Preload(p) \/ Compare(p) \/ NameCopy(p) \/ Quarantine(p) \/ SaveIdentity(p)
             \/ ReadResets(p) \/ WriteResets(p) \/ LoadIdentity(p) \/ ReadCreator(p)
             \/ CheckConfig(p)
             \/ WriteConfig(p) \/ CheckManifest(p) \/ WriteManifest(p) \/ LoadManifest(p)
             \/ UpgradeManifest(p)
      PROVE  EvidenceInv'
  <2>1. Leads(p, Steps \ {"lineage", "log", "restartReceipt"})
    BY <1>6, StartLeads DEF Leads, Steps
  <2>2. UNCHANGED <<evidence, restarts>>
    BY <1>6 DEF Preload, Compare, NameCopy, Quarantine, SaveIdentity, ReadResets, WriteResets, ReadCreator,
                LoadIdentity, CheckConfig, WriteConfig, CheckManifest, WriteManifest,
                LoadManifest, UpgradeManifest
  <2>. QED BY <2>1, <2>2, QuietEvidence
<1>7. ASSUME NEW p \in Processes, StopStep(p) \/ RestartRead(p) \/ Failure(p)
      PROVE  EvidenceInv'
  <2>1. Leads(p, Steps \ {"lineage", "log", "restartReceipt"})
    BY <1>7, StopLeads DEF Leads, Steps, StopStep, Failure
  <2>2. UNCHANGED <<evidence, restarts>>
    BY <1>7 DEF StopStep, Failure, StopLog, StopLoad, StopWork, StopState, StopAudit,
                StopAppend, RestartRead, Fail, RestoreIdentity, StopUnaudited
  <2>. QED BY <2>1, <2>2, QuietEvidence
<1>8. CASE Environment
  <2>1. ASSUME NEW q \in Processes PROVE Attested(call'[q], receipts, lineage)
    <3>1. /\ call'[q].pc = call[q].pc /\ call'[q].receipt = call[q].receipt
          /\ call'[q].node = call[q].node
      BY <1>8, EnvironmentCall, CallTyped DEF Calls
    <3>. QED BY <3>1 DEF EvidenceInv, Attested
  <2>2. UNCHANGED <<evidence, restarts>>
    BY <1>8 DEF Environment, Submit, Complete, Tick, Move
  <2>. QED BY <2>1, <2>2, EvidenceKept
<1>9. CASE UNCHANGED vars
  BY <1>9, EvidenceKept DEF vars, EvidenceInv
<1>. QED BY <1>1, <1>2, <1>3, <1>4, <1>5, <1>6, <1>7, <1>8, <1>9 DEF Next, StartStep, RestartStep

(* Every lineage record refers to the one receipt of its name, for the same *)
(* node: two starts that choose one name cannot replace each other's.       *)
THEOREM NodeLineageIsAttested == Spec => []LineageIsAttested
<1>1. EvidenceInv => LineageIsAttested
  BY DEF EvidenceInv
<1>. QED BY <1>1, NodeTypeInv, InitEvidence, StepEvidence, PTL DEF Spec

(* A restart receipt is written only for the node that was stopped and that *)
(* a lineage record shows started, even if a reset came in between.         *)
THEOREM NodeRestartKeepsNode == Spec => []RestartKeepsNode
<1>1. EvidenceInv => RestartKeepsNode
  BY DEF EvidenceInv
<1>. QED BY <1>1, NodeTypeInv, InitEvidence, StepEvidence, PTL DEF Spec

(***************************************************************************)
(* Overlap.  A call that is alone when it takes a step has been alone      *)
(* since it began, so what it wrote and read is still so.                  *)
(***************************************************************************)
OwnStep(p) == StartStep(p) \/ StopStep(p) \/ RestartStep(p) \/ Failure(p)

(* A step of p ends its call, or goes on with it. *)
Continues(p) == /\ call'[p].alone = call[p].alone /\ call'[p].open = call[p].open
                /\ call'[p].kind = call[p].kind
Keeps(p) == Continues(p) \/ call'[p].pc = "idle"

LEMMA PutKeeps ==
    ASSUME TypeInv, NEW p \in Processes
    PROVE  /\ Preload(p) => Keeps(p) /\ (call'[p].pc # "idle" => call'[p].work = call[p].work)
           /\ NameCopy(p) => Continues(p) /\ call'[p].work = call[p].work
           /\ ReadResets(p) => Continues(p) /\ call'[p].work = call[p].work
           /\ LoadIdentity(p) => Continues(p) /\ call'[p].work = call[p].work
           /\ Stamped(p) => Continues(p) /\ call'[p].work = call[p].work
           /\ Named(p) => Continues(p) /\ call'[p].work = call[p].work
           /\ LoadManifest(p) => Keeps(p) /\ (call'[p].pc # "idle" => call'[p].work = call[p].work)
           /\ StopLog(p) => Continues(p)
           /\ StopLoad(p) => Keeps(p) /\ (call'[p].pc # "idle" => call'[p].work = open)
           /\ StopState(p) => Continues(p) /\ call'[p].instance = Instance(p)
           /\ RestartRead(p) => /\ Continues(p)
                               /\ call'[p].work = Decisions
<1>. DEFINE Same == call'[p].work = call[p].work
<1>0. call \in [Processes -> Calls]
  BY DEF TypeInv, CallsTyped
<1>. USE <1>0, EndCall DEF Continues, Keeps
<1>1. Preload(p) => Keeps(p) /\ (call'[p].pc # "idle" => Same)
  <2>1. ASSUME NEW to, Put(p, [call[p] EXCEPT !.pc = to, !.config = config,
                                              !.existed = identity # None])
        PROVE  Continues(p) /\ Same
    BY <2>1 DEF Put, Calls
  <2>. QED BY <2>1 DEF Preload
<1>2. NameCopy(p) => Continues(p) /\ Same
  BY DEF NameCopy, Put, Calls
<1>3. ReadResets(p) => Continues(p) /\ Same
  BY DEF ReadResets, Put, Calls
<1>4. LoadIdentity(p) => Continues(p) /\ Same
  BY DEF LoadIdentity, Put, Calls
<1>5. Stamped(p) => Continues(p) /\ Same
  BY DEF Stamped, Put, Calls
<1>6. Named(p) => Continues(p) /\ Same
  BY DEF Named, Put, Calls
<1>7. LoadManifest(p) => Keeps(p) /\ (call'[p].pc # "idle" => Same)
  <2>1. ASSUME Put(p, [call[p] EXCEPT !.pc = "upgrade", !.manifest = manifest])
        PROVE  Continues(p) /\ Same
    BY <2>1 DEF Put, Calls
  <2>. QED BY <1>6, <2>1 DEF LoadManifest
<1>8. StopLog(p) => Continues(p)
  BY DEF StopLog, Put, Calls
<1>9. StopLoad(p) => Keeps(p) /\ (call'[p].pc # "idle" => call'[p].work = open)
  <2>1. ASSUME NEW to, Put(p, [call[p] EXCEPT !.pc = to, !.stopping = identity, !.work = open])
        PROVE  Continues(p) /\ call'[p].work = open
    BY <2>1 DEF Put, Calls
  <2>. QED BY <2>1 DEF StopLoad
<1>10. StopState(p) => Continues(p) /\ call'[p].instance = Instance(p)
  BY DEF StopState, Put, Calls
<1>11. RestartRead(p) => /\ Continues(p)
                         /\ call'[p].work = Decisions
  BY DEF RestartRead, Put, Calls
<1>. QED BY <1>1, <1>2, <1>3, <1>4, <1>5, <1>6, <1>7, <1>8, <1>9, <1>10, <1>11, Zenon

LEMMA StartKeeps ==
    ASSUME TypeInv, NEW p \in Processes, StartStep(p)
    PROVE  /\ call[p].pc # "idle" /\ Keeps(p)
           /\ call'[p].pc # "idle" => call'[p].work = call[p].work
<1>1. call[p].pc # "idle"
  BY DEF StartStep, Preload, Compare, NameCopy, Quarantine, SaveIdentity, ReadResets, WriteResets, ReadCreator,
         LoadIdentity, CheckConfig, WriteConfig, CheckManifest, WriteManifest, LoadManifest,
         UpgradeManifest, CreateReceipt, CreateLineage, Log, At
<1>2. ASSUME End(p) PROVE call'[p].pc = "idle"
  BY <1>2, EndCall
<1>3. ASSUME NEW to, Go(p, to) PROVE Continues(p) /\ call'[p].work = call[p].work
  BY <1>3, GoKeeps DEF Continues
<1>4. Keeps(p) /\ (call'[p].pc # "idle" => call'[p].work = call[p].work)
  <2>. USE <1>2, <1>3, PutKeeps DEF Keeps
  <2>1. CASE Preload(p) \/ NameCopy(p) \/ ReadResets(p) \/ LoadIdentity(p) \/ LoadManifest(p)
    BY <2>1
  <2>2. CASE Compare(p) \/ Quarantine(p) \/ SaveIdentity(p) \/ WriteResets(p) \/ CheckManifest(p)
    BY <2>2 DEF Compare, Quarantine, SaveIdentity, WriteResets, CheckManifest
  <2>3. CASE ReadCreator(p) \/ CheckConfig(p) \/ WriteConfig(p)
    BY <2>3 DEF ReadCreator, CheckConfig, WriteConfig
  <2>4. CASE WriteManifest(p) \/ UpgradeManifest(p)
    BY <2>4 DEF WriteManifest, UpgradeManifest
  <2>5. CASE CreateReceipt(p) \/ CreateLineage(p) \/ Log(p)
    BY <2>5 DEF CreateReceipt, CreateLineage, Log
  <2>. QED BY <2>1, <2>2, <2>3, <2>4, <2>5 DEF StartStep
<1>. QED BY <1>1, <1>4

LEMMA OwnKeeps ==
    ASSUME TypeInv, NEW p \in Processes, OwnStep(p)
    PROVE  /\ call[p].pc # "idle" /\ Keeps(p)
           /\ \A q \in Processes : q # p => call'[q] = call[q]
<1>1. call[p].pc # "idle" /\ Keeps(p)
  <2>1. ASSUME End(p) PROVE call'[p].pc = "idle"
    BY <2>1, EndCall
  <2>2. ASSUME NEW to, Go(p, to) PROVE Continues(p)
    BY <2>2, GoKeeps DEF Continues
  <2>. USE <2>1, <2>2, PutKeeps DEF Keeps
  <2>3. CASE StartStep(p)
    BY <2>3, StartKeeps
  <2>4. CASE StopStep(p)
    BY <2>4 DEF StopStep, StopLog, StopLoad, StopWork, StopState, StopAudit, StopAppend,
                StopDone, At
  <2>5. CASE RestartStep(p)
    BY <2>5 DEF RestartStep, RestartRead, RestartReceipt, At
  <2>6. CASE Failure(p)
    BY <2>6 DEF Failure, Fail, RestoreIdentity, StopUnaudited, StopDone, At
  <2>. QED BY <2>3, <2>4, <2>5, <2>6 DEF OwnStep
<1>2. \A q \in Processes : q # p => call'[q] = call[q]
  BY StartLeads, StopLeads DEF OwnStep, StartStep, StopStep, RestartStep, Failure, Leads
<1>. QED BY <1>1, <1>2

AloneInv ==
    \A p, q \in Processes : call[p].alone /\ call[p].pc # "idle" /\ q # p => call[q].pc = "idle"

LEMMA StepAlone ==
    ASSUME TypeInv, AloneInv, [Next]_vars
    PROVE  AloneInv'
<1>1. ASSUME NEW p \in Processes, OwnStep(p) PROVE AloneInv'
  BY <1>1, OwnKeeps DEF AloneInv, Keeps, Continues
<1>2. ASSUME NEW p \in Processes, NEW kind \in Kinds, Begin(p, kind) PROVE AloneInv'
  <2>1. \A q \in Processes : q # p =>
          /\ call'[q].pc = call[q].pc
          /\ call[q].pc # "idle" => ~call'[q].alone
    <3>. TAKE q \in Processes
    <3>1. \A c \in Calls : [c EXCEPT !.alone = FALSE].pc = c.pc
      BY DEF Calls
    <3>. QED BY <1>2, <3>1, BeginCall, CallTyped
  <2>2. call'[p].alone => \A q \in Processes : q # p => call[q].pc = "idle"
    BY <1>2, BeginCall
  <2>. QED BY <2>1, <2>2 DEF AloneInv
<1>3. CASE Environment
  <2>1. \A q \in Processes : call'[q].pc = call[q].pc /\ call'[q].alone = call[q].alone
    BY <1>3, EnvironmentCall, CallTyped DEF Calls
  <2>. QED BY <2>1 DEF AloneInv
<1>4. CASE UNCHANGED vars
  BY <1>4 DEF vars, AloneInv
<1>. QED BY <1>1, <1>2, <1>3, <1>4 DEF Next, OwnStep

(***************************************************************************)
(* The stop events: a call that is about to append has found none for its  *)
(* instance, or one appended meanwhile by a call it overlaps.              *)
(***************************************************************************)
Unstopped(c, events) ==
    c.pc = "stopAppend" =>
        \A i \in DOMAIN events : events[i].instance = c.instance => ~events[i].alone /\ ~c.alone

StoppedInv == StoppedOnce /\ \A p \in Processes : Unstopped(call[p], stops)

LEMMA StepStopped ==
    ASSUME TypeInv, AloneInv, StoppedInv, [Next]_vars
    PROVE  StoppedInv'
<1>1. ASSUME UNCHANGED stops, \A q \in Processes : Unstopped(call'[q], stops)
      PROVE  StoppedInv'
  BY <1>1 DEF StoppedInv, StoppedOnce
<1>2. ASSUME NEW p \in Processes, StopAppend(p) PROVE StoppedInv'
  <2>. DEFINE e == [instance |-> call[p].instance, alone |-> call[p].alone]
  <2>1. stops \in Seq(Stops) /\ stops' = Append(stops, e)
    BY <1>2 DEF StopAppend, TypeInv, FilesTyped
  <2>2. /\ DOMAIN stops' = DOMAIN stops \cup {Len(stops) + 1} /\ Len(stops) \in Nat
        /\ Len(stops) + 1 \notin DOMAIN stops
        /\ stops'[Len(stops) + 1] = e
        /\ \A i \in DOMAIN stops : stops'[i] = stops[i]
    <3>. HIDE DEF e
    <3>. QED BY <2>1
  <2>3. Unstopped(call[p], stops) /\ call[p].pc = "stopAppend"
    BY <1>2 DEF StopAppend, At, StoppedInv
  <2>4. StoppedOnce'
    <3>1. \A i \in DOMAIN stops : stops[i].instance = e.instance => ~stops[i].alone /\ ~e.alone
      BY <2>3 DEF Unstopped
    <3>. HIDE DEF e
    <3>. QED BY <2>2, <3>1 DEF StoppedInv, StoppedOnce
  <2>5. ASSUME NEW q \in Processes PROVE Unstopped(call'[q], stops')
    <3>1. CASE q = p
      BY <1>2, <3>1, StopLeads DEF Leads, Unstopped
    <3>2. CASE q # p
      <4>1. call'[q] = call[q]
        BY <1>2, <3>2, StopLeads DEF Leads
      <4>2. call[q].pc = "stopAppend" => ~call[q].alone /\ ~e.alone
        BY <2>3, <3>2 DEF AloneInv
      <4>3. Unstopped(call[q], stops)
        BY DEF StoppedInv
      <4>. HIDE DEF e
      <4>. QED BY <2>2, <4>1, <4>2, <4>3 DEF Unstopped
    <3>. QED BY <3>1, <3>2
  <2>. QED BY <2>4, <2>5 DEF StoppedInv
<1>3. ASSUME NEW p \in Processes, StopAudit(p) PROVE StoppedInv'
  <2>1. stops' = stops
    BY <1>3 DEF StopAudit, stopFiles
  <2>2. ASSUME NEW q \in Processes PROVE Unstopped(call'[q], stops)
    <3>1. CASE q # p
      BY <1>3, <3>1, StopLeads DEF Leads, StoppedInv
    <3>2. CASE q = p /\ \E i \in DOMAIN stops : stops[i].instance = call[p].instance
      <4>1. StopDone(p)
        BY <1>3, <3>2 DEF StopAudit
      <4>2. call'[p].pc \in {"restartRead", "idle"}
        BY <4>1, GoCall, EndCall DEF StopDone
      <4>. QED BY <3>2, <4>2 DEF Unstopped
    <3>3. CASE q = p /\ ~\E i \in DOMAIN stops : stops[i].instance = call[p].instance
      BY <1>3, <3>3, GoKeeps DEF StopAudit, Unstopped
    <3>. QED BY <3>1, <3>2, <3>3
  <2>. QED BY <1>1, <2>1, <2>2
<1>4. ASSUME NEW p \in Processes,
             \/ StartStep(p) \/ RestartStep(p) \/ Failure(p)
             \/ StopLog(p) \/ StopLoad(p) \/ StopWork(p) \/ StopState(p)
      PROVE  StoppedInv'
  <2>1. stops' = stops
    BY <1>4 DEF StartStep, Preload, Compare, NameCopy, Quarantine, SaveIdentity, ReadResets, WriteResets, ReadCreator,
         LoadIdentity, CheckConfig, WriteConfig, CheckManifest, WriteManifest, LoadManifest,
         UpgradeManifest, CreateReceipt, CreateLineage, Log, StopLog, StopLoad, StopWork,
         StopState, RestartStep, RestartRead, RestartReceipt, Failure, Fail, RestoreIdentity,
         StopUnaudited, stopFiles
  <2>2. Leads(p, Steps \ {"stopAppend"})
    BY <1>4, StartLeads, StopLeads DEF Leads, Steps, StartStep, RestartStep, Failure
  <2>3. \A q \in Processes : Unstopped(call'[q], stops)
    BY <2>2 DEF Leads, Unstopped, StoppedInv
  <2>. QED BY <1>1, <2>1, <2>3
<1>5. ASSUME NEW p \in Processes, NEW kind \in Kinds, Begin(p, kind) PROVE StoppedInv'
  <2>1. stops' = stops
    BY <1>5 DEF Begin, stopFiles
  <2>2. ASSUME NEW q \in Processes PROVE Unstopped(call'[q], stops)
    <3>1. CASE q = p
      BY <1>5, <3>1, BeginCall DEF Unstopped
    <3>2. CASE q # p
      <4>1. Unstopped(call[q], stops)
        BY DEF StoppedInv
      <4>2. \A c \in Calls : Unstopped(c, stops) => Unstopped([c EXCEPT !.alone = FALSE], stops)
        BY DEF Calls, Unstopped
      <4>. QED BY <1>5, <3>2, <4>1, <4>2, BeginCall, CallTyped
    <3>. QED BY <3>1, <3>2
  <2>. QED BY <1>1, <2>1, <2>2
<1>6. CASE Environment
  <2>1. stops' = stops
    BY <1>6 DEF Environment, Submit, Complete, Tick, Move, stopFiles
  <2>2. ASSUME NEW q \in Processes PROVE Unstopped(call'[q], stops)
    <3>1. Unstopped(call[q], stops)
      BY DEF StoppedInv
    <3>2. /\ call'[q].pc = call[q].pc /\ call'[q].alone = call[q].alone
          /\ call'[q].instance = call[q].instance
      BY <1>6, EnvironmentCall, CallTyped DEF Calls
    <3>. QED BY <3>1, <3>2 DEF Unstopped
  <2>. QED BY <1>1, <2>1, <2>2
<1>7. CASE UNCHANGED vars
  BY <1>1, <1>7 DEF vars, stopFiles, StoppedInv
<1>. QED BY <1>2, <1>3, <1>4, <1>5, <1>6, <1>7 DEF Next, StopStep

LEMMA InitStopped == Init => AloneInv /\ StoppedInv
BY DEF Init, NoCall, AloneInv, StoppedInv, StoppedOnce, Unstopped

(* Any number of stops and restarts audits a startup instance once, but for *)
(* commands that overlap.                                                   *)
THEOREM NodeStoppedOnce == Spec => []StoppedOnce
<1>1. StoppedInv => StoppedOnce
  BY DEF StoppedInv
<1>. QED BY <1>1, NodeTypeInv, InitStopped, StepAlone, StepStopped, PTL DEF Spec

(***************************************************************************)
(* The work a restart decides about, from the load of its shutdown through *)
(* the files to its receipt, as long as it is alone.                       *)
(***************************************************************************)
Starting == {"preload", "compare", "quarantine", "copy", "saveIdentity", "readResets", "writeResets",
             "identity", "creator", "config", "createConfig", "manifest", "createManifest",
             "loadManifest", "upgrade", "receipt", "lineage", "log"}

Decided(c, st, sp) ==
    c.alone =>
        /\ c.pc = "stopWork" => c.open \subseteq c.work
        /\ c.pc = "stopState" => c.open \subseteq c.work /\ (c.work = {} \/ sp = c.work)
        /\ c.pc \in {"stopAudit", "stopAppend", "restartRead"} =>
              c.open \subseteq IF st.interrupted THEN sp ELSE {}
        /\ c.pc = "restartReceipt" => c.open \subseteq c.work
        /\ c.kind = "restart" /\ c.pc \in Starting => c.open \subseteq c.work

WorkInv ==
    /\ RestartDecidesOpenWork
    /\ \A p \in Processes : /\ call[p].pc # "idle" => call[p].open \subseteq open
                           /\ Decided(call[p], state, stopped)

LEMMA InitWork == Init => WorkInv
BY DEF Init, NoCall, WorkInv, RestartDecidesOpenWork, Decided, Starting

(* A step of p leaves the others' decisions, for they are idle or not alone. *)
LEMMA OwnWork ==
    ASSUME TypeInv, AloneInv, WorkInv, NEW p \in Processes, OwnStep(p), open' = open,
           RestartDecidesOpenWork', Decided(call'[p], state', stopped')
    PROVE  WorkInv'
<1>1. ASSUME NEW q \in Processes
      PROVE  /\ call'[q].pc # "idle" => call'[q].open \subseteq open'
             /\ Decided(call'[q], state', stopped')
  <2>1. CASE q = p
    BY <2>1, OwnKeeps DEF Keeps, Continues, WorkInv
  <2>2. CASE q # p
    <3>1. call'[q] = call[q] /\ call[p].pc # "idle"
      BY <2>2, OwnKeeps
    <3>2. ~call[q].alone \/ call[q].pc = "idle"
      BY <2>2, <3>1 DEF AloneInv
    <3>. QED BY <3>1, <3>2 DEF WorkInv, Decided, Starting
  <2>. QED BY <2>1, <2>2
<1>. QED BY <1>1 DEF WorkInv

LEMMA StartWork ==
    ASSUME TypeInv, WorkInv, NEW p \in Processes, StartStep(p)
    PROVE  Decided(call'[p], state, stopped)
<1>1. call[p].pc \in Starting
  BY DEF StartStep, Preload, Compare, NameCopy, Quarantine, SaveIdentity, ReadResets, WriteResets, ReadCreator,
         LoadIdentity, CheckConfig, WriteConfig, CheckManifest, WriteManifest, LoadManifest,
         UpgradeManifest, CreateReceipt, CreateLineage, Log, At, Starting
<1>2. call'[p].pc \in Starting \cup {"idle", "restartReceipt"}
  BY StartLeads DEF StartStep, Leads, Starting
<1>3. call'[p].pc = "restartReceipt" => call[p].kind = "restart"
  <2>1. Log(p) \/ call'[p].pc \in Starting \cup {"idle"}
    BY StartLeads DEF StartStep, Leads, Starting
  <2>2. ASSUME Log(p), call'[p].pc = "restartReceipt" PROVE call[p].kind = "restart"
    BY <2>2, EndCall DEF Log
  <2>. QED BY <2>1, <2>2 DEF Starting
<1>4. CASE call'[p].pc = "idle"
  BY <1>4 DEF Decided, Starting
<1>5. CASE call'[p].pc # "idle"
  <2>1. /\ call'[p].alone = call[p].alone /\ call'[p].open = call[p].open
        /\ call'[p].kind = call[p].kind /\ call'[p].work = call[p].work
    BY <1>5, StartKeeps DEF Keeps, Continues
  <2>2. call[p].alone /\ call[p].kind = "restart" => call[p].open \subseteq call[p].work
    BY <1>1 DEF WorkInv, Decided
  <2>. QED BY <1>2, <1>3, <1>5, <2>1, <2>2 DEF Decided, Starting
<1>. QED BY <1>4, <1>5

LEMMA StopsWork ==
    ASSUME TypeInv, WorkInv, NEW p \in Processes,
           StopStep(p) \/ RestartStep(p) \/ Failure(p)
    PROVE  Decided(call'[p], state', stopped')
<1>. DEFINE c == call[p]
<1>0. Decided(c, state, stopped) /\ (c.pc # "idle" => c.open \subseteq open)
  BY DEF WorkInv
<1>1. CASE StopLog(p)
  BY <1>1, StopLeads DEF Leads, Decided, Starting
<1>2. CASE StopLoad(p)
  <2>1. call'[p].pc \in {"idle", "stopWork", "stopState"} /\ c.pc = "stopLoad"
    BY <1>2, StopLeads DEF Leads, StopLoad, At
  <2>2. CASE call'[p].pc = "idle"
    BY <2>2 DEF Decided, Starting
  <2>3. CASE call'[p].pc # "idle"
    <3>1. call'[p].work = open /\ call'[p].open = c.open
      BY <1>2, <2>3, PutKeeps DEF Keeps, Continues
    <3>2. call'[p].pc = "stopState" => open = {}
      <4>1. ASSUME open # {}, ~End(p) PROVE call'[p].pc = "stopWork"
        <5>1. call \in [Processes -> Calls]
          BY DEF TypeInv, CallsTyped
        <5>. QED BY <1>2, <4>1, <5>1 DEF StopLoad, Put, Calls
      <4>. QED BY <2>3, <4>1, EndCall
    <3>3. c.open \subseteq open
      BY <1>0, <2>1
    <3>. QED BY <2>1, <2>3, <3>1, <3>2, <3>3 DEF Decided, Starting
  <2>. QED BY <2>2, <2>3
<1>3. CASE StopWork(p)
  <2>1. /\ c.pc = "stopWork" /\ stopped' = c.work /\ call'[p].pc = "stopState"
        /\ call'[p].open = c.open /\ call'[p].work = c.work /\ call'[p].alone = c.alone
    BY <1>3, GoCall, GoKeeps DEF StopWork, At
  <2>. QED BY <1>0, <2>1 DEF Decided, Starting
<1>4. CASE StopState(p)
  <2>1. /\ c.pc = "stopState" /\ call'[p].pc = "stopAudit" /\ stopped' = stopped
        /\ call'[p].open = c.open /\ call'[p].alone = c.alone
    BY <1>4, StopLeads, PutKeeps DEF StopState, At, Leads, Continues
  <2>2. state'.interrupted = (c.work # {})
    BY <1>4 DEF StopState
  <2>3. c.alone => c.open \subseteq c.work /\ (c.work = {} \/ stopped = c.work)
    BY <1>0, <2>1 DEF Decided
  <2>4. c.alone => c.open \subseteq IF state'.interrupted THEN stopped' ELSE {}
    BY <2>1, <2>2, <2>3
  <2>. QED BY <2>1, <2>4 DEF Decided, Starting
<1>5. CASE StopAudit(p) \/ StopAppend(p) \/ StopUnaudited(p)
  <2>1. c.pc \in {"stopAudit", "stopAppend"} /\ state' = state /\ stopped' = stopped
    BY <1>5 DEF StopAudit, StopAppend, StopUnaudited, At, stopFiles
  <2>2. call'[p].pc \in {"idle", "stopAppend", "restartRead"}
    BY <1>5, StopLeads DEF Leads
  <2>3. call'[p].pc = "idle" \/ (call'[p].open = c.open /\ call'[p].alone = c.alone)
    BY <1>5, OwnKeeps DEF OwnStep, StopStep, Failure, Keeps, Continues
  <2>. QED BY <1>0, <2>1, <2>2, <2>3 DEF Decided, Starting
<1>6. CASE RestartRead(p)
  <2>1. /\ c.pc = "restartRead" /\ call'[p].pc = "preload"
        /\ call'[p].open = c.open /\ call'[p].alone = c.alone
        /\ call'[p].work = Decisions
    BY <1>6, StopLeads, PutKeeps DEF RestartRead, At, Leads, Continues
  <2>. QED BY <1>0, <2>1 DEF Decided, Starting, Decisions
<1>7. CASE RestartReceipt(p) \/ Fail(p) \/ RestoreIdentity(p)
  BY <1>7, StopLeads DEF Leads, Decided, Starting
<1>. QED BY <1>1, <1>2, <1>3, <1>4, <1>5, <1>6, <1>7 DEF StopStep, RestartStep, Failure

LEMMA StepWork ==
    ASSUME TypeInv, AloneInv, WorkInv, [Next]_vars
    PROVE  WorkInv'
<1>1. ASSUME NEW p \in Processes, StartStep(p) PROVE WorkInv'
  <2>1. open' = open /\ restarts' = restarts /\ state' = state /\ stopped' = stopped
    BY <1>1 DEF StartStep, Preload, Compare, NameCopy, Quarantine, SaveIdentity, ReadResets, WriteResets, ReadCreator,
         LoadIdentity, CheckConfig, WriteConfig, CheckManifest, WriteManifest, LoadManifest,
         UpgradeManifest, CreateReceipt, CreateLineage, Log, env, stopFiles
  <2>. QED BY <1>1, <2>1, StartWork, OwnWork DEF OwnStep, WorkInv, RestartDecidesOpenWork
<1>2. ASSUME NEW p \in Processes, RestartReceipt(p) PROVE WorkInv'
  <2>. DEFINE x == [previous |-> call[p].stopping, node |-> call[p].node,
                    receipt |-> call[p].receipt, decisions |-> call[p].work,
                    open |-> call[p].open, alone |-> call[p].alone]
  <2>1. open' = open /\ (restarts' = restarts \cup {x} \/ restarts' = restarts)
    BY <1>2 DEF RestartReceipt, env
  <2>2. x.alone => x.open \subseteq x.decisions
    BY <1>2 DEF RestartReceipt, At, WorkInv, Decided
  <2>3. RestartDecidesOpenWork'
    <3>. HIDE DEF x
    <3>. QED BY <2>1, <2>2 DEF WorkInv, RestartDecidesOpenWork
  <2>. QED BY <1>2, <2>1, <2>3, StopsWork, OwnWork DEF OwnStep, RestartStep
<1>3. ASSUME NEW p \in Processes, StopStep(p) \/ RestartRead(p) \/ Failure(p) PROVE WorkInv'
  <2>1. open' = open /\ restarts' = restarts
    BY <1>3 DEF StopStep, StopLog, StopLoad, StopWork, StopState, StopAudit, StopAppend,
         RestartRead, Failure, Fail, RestoreIdentity, StopUnaudited, env
  <2>2. RestartDecidesOpenWork'
    BY <2>1 DEF WorkInv, RestartDecidesOpenWork
  <2>. QED BY <1>3, <2>1, <2>2, StopsWork, OwnWork DEF OwnStep, RestartStep
<1>4. ASSUME NEW p \in Processes, NEW kind \in Kinds, Begin(p, kind) PROVE WorkInv'
  <2>1. UNCHANGED <<open, restarts, state, stopped>>
    BY <1>4 DEF Begin, env, stopFiles
  <2>2. ASSUME NEW q \in Processes
        PROVE  /\ call'[q].pc # "idle" => call'[q].open \subseteq open
               /\ Decided(call'[q], state, stopped)
    <3>1. CASE q = p
      BY <1>4, <3>1, BeginCall DEF Decided, Starting
    <3>2. CASE q # p
      <4>1. /\ call[q].pc # "idle" => call[q].open \subseteq open
            /\ Decided(call[q], state, stopped)
        BY DEF WorkInv
      <4>2. \A c \in Calls : LET d == [c EXCEPT !.alone = FALSE] IN
              ~d.alone /\ d.pc = c.pc /\ d.open = c.open
        BY DEF Calls
      <4>3. CASE call'[q] = call[q]
        BY <4>1, <4>3
      <4>4. CASE call'[q] = [call[q] EXCEPT !.alone = FALSE]
        <5>1. ~call'[q].alone /\ call'[q].pc = call[q].pc /\ call'[q].open = call[q].open
          BY <4>2, <4>4, CallTyped
        <5>. QED BY <4>1, <5>1 DEF Decided
      <4>. QED BY <1>4, <3>2, <4>3, <4>4, BeginCall
    <3>. QED BY <3>1, <3>2
  <2>. QED BY <2>1, <2>2 DEF WorkInv, RestartDecidesOpenWork
<1>5. CASE Environment
  <2>1. UNCHANGED <<restarts, state, stopped>>
    BY <1>5 DEF Environment, Submit, Complete, Tick, Move, stopFiles
  <2>2. ASSUME NEW q \in Processes
        PROVE  /\ call'[q].pc # "idle" => call'[q].open \subseteq open'
               /\ Decided(call'[q], state, stopped)
    <3>1. /\ call'[q].pc = call[q].pc /\ call'[q].alone = call[q].alone
          /\ call'[q].work = call[q].work /\ call'[q].kind = call[q].kind
          /\ call'[q].open \subseteq call[q].open
      <4>1. ASSUME NEW w \in Works, call'[q] = [call[q] EXCEPT !.open = call[q].open \ {w}]
            PROVE  /\ call'[q].pc = call[q].pc /\ call'[q].alone = call[q].alone
                   /\ call'[q].work = call[q].work /\ call'[q].kind = call[q].kind
                   /\ call'[q].open \subseteq call[q].open
        <5>1. ASSUME NEW c \in Calls, NEW W
              PROVE  LET d == [c EXCEPT !.open = W] IN
                     /\ d.pc = c.pc /\ d.alone = c.alone /\ d.work = c.work
                     /\ d.kind = c.kind /\ d.open = W
          BY DEF Calls
        <5>2. call[q] \in Calls
          BY CallTyped
        <5>3. /\ call'[q].pc = call[q].pc /\ call'[q].alone = call[q].alone
              /\ call'[q].work = call[q].work /\ call'[q].kind = call[q].kind
              /\ call'[q].open = call[q].open \ {w}
          BY <4>1, <5>1, <5>2
        <5>. QED BY <5>3
      <4>2. CASE call'[q] = call[q]
        BY <4>2
      <4>. QED BY <1>5, <4>1, <4>2, EnvironmentCall
    <3>2. call[q].open \subseteq open => call'[q].open \subseteq open'
      <4>1. CASE call'[q] = call[q] /\ open \subseteq open'
        BY <4>1
      <4>2. ASSUME NEW w \in Works, call'[q] = [call[q] EXCEPT !.open = call[q].open \ {w}],
                   open' = open \ {w}
            PROVE  call[q].open \subseteq open => call'[q].open \subseteq open'
        <5>1. call'[q].open = call[q].open \ {w}
          BY <4>2, CallTyped DEF Calls
        <5>. QED BY <4>2, <5>1
      <4>. QED BY <1>5, <4>1, <4>2, EnvironmentCall
    <3>. QED BY <3>1, <3>2 DEF WorkInv, Decided
  <2>. QED BY <2>1, <2>2 DEF WorkInv, RestartDecidesOpenWork
<1>6. CASE UNCHANGED vars
  BY <1>6 DEF vars, env, stopFiles, WorkInv, RestartDecidesOpenWork
<1>. QED BY <1>1, <1>2, <1>3, <1>4, <1>5, <1>6 DEF Next, RestartStep

(* A restart that no other command overlapped has decided all the work that *)
(* was open when it began, whatever an earlier shutdown left in the files.  *)
THEOREM NodeRestartDecidesOpenWork == Spec => []RestartDecidesOpenWork
<1>1. WorkInv => RestartDecidesOpenWork
  BY DEF WorkInv
<1>2. Init => AloneInv
  BY InitStopped
<1>. QED BY <1>1, <1>2, NodeTypeInv, InitWork, StepAlone, StepWork, PTL DEF Spec

(***************************************************************************)
(* Identities in use, in quarantine or overwritten: once among them,       *)
(* always.  A reset about to replace the identity has a copy of it, or had *)
(* one, unless another reset has replaced it meanwhile, by the same one.   *)
(***************************************************************************)
kept == {identity} \cup Replaced

Keeping(c, i, r, k, m) ==
    /\ c.pc = "saveIdentity" => i \in r \cup {m}
    /\ c.pc \in Identified => c.node \in k

KeptInv == /\ AttestedIsKept
           /\ \A p \in Processes : Keeping(call[p], identity, Replaced, kept, machine)

LEMMA InitKept == Init => KeptInv
<1>. SUFFICES ASSUME Init PROVE KeptInv
  OBVIOUS
<1>1. \A p \in Processes : Keeping(call[p], identity, Replaced, kept, machine)
  BY DEF Init, NoCall, Keeping, Identified
<1>2. AttestedIsKept
  <2>1. CASE Empty
    BY <2>1 DEF Empty, AttestedIsKept
  <2>2. ASSUME NEW node \in Nodes, Started(node) PROVE AttestedIsKept
    <3>1. identity = node /\ \A r \in receipts : r.node = node
      BY <2>2 DEF Started
    <3>. QED BY <3>1 DEF AttestedIsKept
  <2>. QED BY <2>1, <2>2 DEF Init
<1>. QED BY <1>1, <1>2 DEF KeptInv

(* What the rest of a step has to show. *)
LEMMA OwnKept ==
    ASSUME TypeInv, KeptInv, NEW p \in Processes, machine' = machine,
           \A q \in Processes : q # p => call'[q] = call[q],
           \A n \in Nodes : n \in Replaced => n \in Replaced',
           identity' \in Replaced' \cup {machine, identity},
           \A n \in Nodes : n \in kept => n \in kept',
           receipts' \subseteq receipts \/ \A r \in receipts' : r \in receipts \/ r.node \in kept',
           Keeping(call'[p], identity', Replaced', kept', machine)
    PROVE  KeptInv'
<1>1. ASSUME NEW q \in Processes
      PROVE  Keeping(call'[q], identity', Replaced', kept', machine')
  <2>1. CASE q = p
    BY <2>1
  <2>2. CASE q # p
    <3>1. call'[q] = call[q]
      BY <2>2
    <3>2. /\ Keeping(call[q], identity, Replaced, kept, machine)
          /\ Shape(call[q], identity, manifest, state)
      BY CallTyped DEF KeptInv
    <3>3. call[q].pc \in Identified => call[q].node \in kept'
      BY <3>2 DEF Keeping, Shape
    <3>4. call[q].pc = "saveIdentity" => identity' \in Replaced' \cup {machine}
      <4>1. call[q].pc = "saveIdentity" => identity \in Nodes
        BY <3>2 DEF Shape, TypeInv, FilesTyped, Maybe
      <4>. QED BY <3>2, <4>1 DEF Keeping
    <3>. HIDE DEF kept
    <3>. QED BY <3>1, <3>2, <3>3, <3>4 DEF Keeping
  <2>. QED BY <2>1, <2>2
<1>2. AttestedIsKept'
  <2>1. \A r \in receipts : r.node \in Nodes /\ r.node \in kept
    BY DEF TypeInv, FilesTyped, Receipts, KeptInv, AttestedIsKept, kept
  <2>2. \A r \in receipts' : r.node \in kept'
    BY <2>1
  <2>. QED BY <2>2 DEF AttestedIsKept, kept
<1>. QED BY <1>1, <1>2 DEF KeptInv

LEMMA QuietKept ==
    ASSUME TypeInv, KeptInv, NEW p \in Processes,
           UNCHANGED <<machine, identity, quarantine, overwritten, receipts>>,
           \A q \in Processes : q # p => call'[q] = call[q],
           Keeping(call'[p], identity, Replaced, kept, machine)
    PROVE  KeptInv'
<1>1. kept' = kept /\ Replaced' = Replaced
  BY DEF kept, Replaced, NodesOf
<1>2. identity' \in Replaced' \cup {machine, identity}
  OBVIOUS
<1>. HIDE DEF kept
<1>. QED BY <1>1, <1>2, OwnKept

LEMMA NodeKept ==
    ASSUME TypeInv, NEW p \in Processes
    PROVE  /\ Stamped(p) => call'[p].node = call[p].node
           /\ Named(p) => call'[p].node = call[p].node
           /\ LoadManifest(p) => call'[p].pc = "idle" \/ call'[p].node = call[p].node
           /\ ReadResets(p) => /\ call'[p].copy = call[p].copy
                              /\ call'[p].resets = resets
           /\ LoadIdentity(p) => /\ call'[p].node = IF identity = None THEN machine ELSE identity
                                /\ call'[p].kind = call[p].kind
                                /\ call'[p].existed = call[p].existed
<1>0. call \in [Processes -> Calls]
  BY DEF TypeInv, CallsTyped
<1>1. Stamped(p) => call'[p].node = call[p].node
  BY <1>0 DEF Stamped, Put, Calls
<1>2. Named(p) => call'[p].node = call[p].node
  BY <1>0 DEF Named, Put, Calls
<1>3. LoadManifest(p) => call'[p].pc = "idle" \/ call'[p].node = call[p].node
  <2>1. ASSUME Put(p, [call[p] EXCEPT !.pc = "upgrade", !.manifest = manifest])
        PROVE  call'[p].node = call[p].node
    BY <1>0, <2>1 DEF Put, Calls
  <2>. QED BY <1>2, <2>1, EndCall DEF LoadManifest
<1>4. ReadResets(p) => call'[p].copy = call[p].copy /\ call'[p].resets = resets
  BY <1>0 DEF ReadResets, Put, Calls
<1>6. LoadIdentity(p) => /\ call'[p].node = IF identity = None THEN machine ELSE identity
                         /\ call'[p].kind = call[p].kind
                         /\ call'[p].existed = call[p].existed
  BY <1>0 DEF LoadIdentity, NewIdentity, Put, Calls
<1>. QED BY <1>1, <1>2, <1>3, <1>4, <1>6, Zenon

(* The steps of a start that has its identity, and where they lead. *)
IdentifiedStep(p) ==
    \/ ReadCreator(p) \/ CheckConfig(p) \/ WriteConfig(p) \/ CheckManifest(p) \/ WriteManifest(p)
    \/ LoadManifest(p) \/ UpgradeManifest(p) \/ CreateReceipt(p) \/ CreateLineage(p) \/ Log(p)

LEMMA IdentifiedLeads ==
    ASSUME TypeInv, NEW p \in Processes, IdentifiedStep(p)
    PROVE  /\ call[p].pc \in Identified \ {"restartReceipt"}
           /\ call'[p].pc \in Identified \cup {"idle"} /\ call'[p].pc # "creator"
           /\ call'[p].pc # "idle" => call'[p].node = call[p].node
           /\ \A q \in Processes : q # p => call'[q] = call[q]
<1>1. call[p].pc \in Identified \ {"restartReceipt"}
  BY DEF IdentifiedStep, ReadCreator, CheckConfig, WriteConfig, CheckManifest, WriteManifest, LoadManifest,
         UpgradeManifest, CreateReceipt, CreateLineage, Log, At, Identified
<1>2. /\ call'[p].pc \in Identified \cup {"idle"} /\ call'[p].pc # "creator"
      /\ \A q \in Processes : q # p => call'[q] = call[q]
  BY StartLeads DEF IdentifiedStep, Leads, Identified
<1>3. call'[p].pc # "idle" => call'[p].node = call[p].node
  <2>1. ASSUME NEW to, Go(p, to) PROVE call'[p].node = call[p].node
    BY <2>1, GoKeeps
  <2>. QED BY <2>1, EndCall, NodeKept DEF IdentifiedStep, ReadCreator, CheckConfig, WriteConfig, CheckManifest,
         WriteManifest, LoadManifest, UpgradeManifest, CreateReceipt, CreateLineage, Log
<1>. QED BY <1>1, <1>2, <1>3

(* The steps that neither reset nor identify. *)
OtherStep(p) ==
    \/ Preload(p) \/ Compare(p) \/ StopStep(p) \/ RestartStep(p) \/ Fail(p) \/ StopUnaudited(p)

LEMMA StepKept ==
    ASSUME TypeInv, KeptInv, [Next]_vars
    PROVE  KeptInv'
<1>1. ASSUME NEW p \in Processes, Quarantine(p) PROVE KeptInv'
  <2>1. UNCHANGED <<machine, identity, receipts>>
    BY <1>1 DEF Quarantine, env, identityFiles, evidence
  <2>2. /\ call'[p].pc = "saveIdentity"
        /\ \A q \in Processes : q # p => call'[q] = call[q]
    BY <1>1, StartLeads DEF Leads
  <2>3. Replaced' = Replaced \cup {identity}
    <3>. DEFINE new == [copy |-> call[p].copy, node |-> identity]
                old == CopiedTo(call[p].copy)
    <3>1. /\ quarantine' = (quarantine \ old) \cup {new} /\ old \subseteq quarantine
          /\ overwritten' = overwritten \cup (NodesOf(old) \ {identity})
          /\ new.node = identity
      BY <1>1 DEF Quarantine, CopiedTo
    <3>. HIDE DEF new, old
    <3>. QED BY <3>1 DEF Replaced, NodesOf
  <2>4. Keeping(call'[p], identity', Replaced', kept', machine)
    BY <2>1, <2>2, <2>3 DEF Keeping, Identified
  <2>5. \A n \in Nodes : n \in kept => n \in kept'
    BY <2>1, <2>3 DEF kept
  <2>6. /\ identity' \in Replaced' \cup {machine, identity}
        /\ \A n \in Nodes : n \in Replaced => n \in Replaced'
    BY <2>1, <2>3
  <2>. HIDE DEF kept
  <2>. QED BY <2>1, <2>2, <2>4, <2>5, <2>6, OwnKept
<1>2. ASSUME NEW p \in Processes, SaveIdentity(p) PROVE KeptInv'
  <2>1. identity' = machine /\ UNCHANGED <<machine, quarantine, overwritten, receipts>>
    BY <1>2 DEF SaveIdentity, NewIdentity, env, history, resetFiles, evidence
  <2>2. Keeping(call[p], identity, Replaced, kept, machine) /\ call[p].pc = "saveIdentity"
    BY <1>2 DEF KeptInv, SaveIdentity, At
  <2>3. /\ call'[p].pc = "readResets"
        /\ \A q \in Processes : q # p => call'[q] = call[q]
    BY <1>2, GoCall DEF SaveIdentity
  <2>4. Replaced' = Replaced
    BY <2>1 DEF Replaced, NodesOf
  <2>5. \A n \in Nodes : n \in kept => n \in kept'
    BY <2>1, <2>2, <2>4 DEF kept, Keeping
  <2>6. Keeping(call'[p], identity', Replaced', kept', machine)
    BY <2>3 DEF Keeping, Identified
  <2>. HIDE DEF kept
  <2>. QED BY <2>1, <2>3, <2>4, <2>5, <2>6, OwnKept
<1>3. ASSUME NEW p \in Processes, NameCopy(p) \/ ReadResets(p) \/ WriteResets(p) PROVE KeptInv'
  <2>1. UNCHANGED <<machine, identity, quarantine, overwritten, receipts>>
    BY <1>3 DEF NameCopy, ReadResets, WriteResets, env, history, identityFiles, resetFiles,
                evidence
  <2>2. /\ call'[p].pc \in {"copy", "identity", "writeResets"}
        /\ \A q \in Processes : q # p => call'[q] = call[q]
    BY <1>3, StartLeads DEF Leads
  <2>3. Keeping(call'[p], identity, Replaced, kept, machine)
    BY <2>2 DEF Keeping, Identified
  <2>. QED BY <2>1, <2>2, <2>3, QuietKept
<1>4. ASSUME NEW p \in Processes, RestoreIdentity(p) PROVE KeptInv'
  <2>1. /\ identity' \in NodesOf(quarantine)
        /\ overwritten' = overwritten \cup ({identity} \ {identity'})
        /\ UNCHANGED <<machine, quarantine, receipts>>
    BY <1>4 DEF RestoreIdentity, NodesOf, CopiedTo, env, resetFiles, evidence
  <2>2. Replaced' = Replaced \cup ({identity} \ {identity'}) /\ identity' \in Replaced'
    BY <2>1 DEF Replaced, NodesOf
  <2>3. call'[p].pc = "idle" /\ \A q \in Processes : q # p => call'[q] = call[q]
    BY <1>4, StopLeads DEF Leads
  <2>4. /\ \A n \in Nodes : n \in kept => n \in kept'
        /\ \A n \in Nodes : n \in Replaced => n \in Replaced'
    BY <2>2 DEF kept
  <2>5. Keeping(call'[p], identity', Replaced', kept', machine)
    BY <2>3 DEF Keeping, Identified
  <2>. HIDE DEF kept
  <2>. QED BY <2>1, <2>2, <2>3, <2>4, <2>5, OwnKept
<1>5. ASSUME NEW p \in Processes, LoadIdentity(p) PROVE KeptInv'
  <2>1. /\ identity' = IF identity = None THEN machine ELSE identity
        /\ UNCHANGED <<machine, quarantine, overwritten, receipts>>
    BY <1>5 DEF LoadIdentity, NewIdentity, env, resetFiles, evidence
  <2>6. Replaced' = Replaced
    BY <2>1 DEF Replaced, NodesOf
  <2>2. /\ call'[p].pc = "creator" /\ call'[p].node = identity'
        /\ \A q \in Processes : q # p => call'[q] = call[q]
    BY <1>5, <2>1, StartLeads, NodeKept DEF Leads
  <2>3. \A n \in Nodes : n \in kept => n \in kept'
    <3>1. None \notin Nodes
      OBVIOUS
    <3>. QED BY <2>1, <2>6, <3>1 DEF kept
  <2>4. Keeping(call'[p], identity', Replaced', kept', machine)
    BY <2>2 DEF Keeping, Identified, kept
  <2>5. identity' \in Replaced' \cup {machine, identity}
    BY <2>1
  <2>. HIDE DEF kept
  <2>. QED BY <2>1, <2>2, <2>3, <2>4, <2>5, <2>6, OwnKept
<1>6. ASSUME NEW p \in Processes, IdentifiedStep(p) PROVE KeptInv'
  <2>1. UNCHANGED <<machine, identity, quarantine, overwritten>>
    BY <1>6 DEF IdentifiedStep, ReadCreator, CheckConfig, WriteConfig, CheckManifest, WriteManifest,
         LoadManifest, UpgradeManifest, CreateReceipt, CreateLineage, Log, env, history,
         identityFiles, resetFiles
  <2>2. call[p].node \in kept
    BY <1>6, IdentifiedLeads DEF KeptInv, Keeping
  <2>3. \A r \in receipts' : r \in receipts \/ r.node = call[p].node
    BY <1>6 DEF IdentifiedStep, ReadCreator, CheckConfig, WriteConfig, CheckManifest, WriteManifest,
         LoadManifest, UpgradeManifest, CreateReceipt, CreateLineage, Log, evidence
  <2>4. Keeping(call'[p], identity, Replaced, kept, machine)
    <3>. HIDE DEF kept
    <3>. QED BY <1>6, <2>2, IdentifiedLeads DEF Keeping, Identified
  <2>5. /\ kept' = kept /\ Replaced' = Replaced
        /\ identity' \in Replaced' \cup {machine, identity}
    BY <2>1 DEF kept, Replaced, NodesOf
  <2>6. \A q \in Processes : q # p => call'[q] = call[q]
    BY <1>6, IdentifiedLeads
  <2>. HIDE DEF kept
  <2>. QED BY <2>1, <2>2, <2>3, <2>4, <2>5, <2>6, OwnKept
<1>7. ASSUME NEW p \in Processes, OtherStep(p) PROVE KeptInv'
  <2>1. UNCHANGED <<machine, identity, quarantine, overwritten, receipts>>
    BY <1>7 DEF OtherStep, Preload, Compare, StopStep, StopLog, StopLoad, StopWork, StopState,
         StopAudit, StopAppend, RestartStep, RestartRead, RestartReceipt, Fail, StopUnaudited,
         env, history, identityFiles, resetFiles, evidence
  <2>2. Leads(p, Steps \ (Identified \cup {"saveIdentity"}))
    BY <1>7, StartLeads, StopLeads DEF OtherStep, StopStep, RestartStep, Leads, Steps, Identified
  <2>3. Keeping(call'[p], identity, Replaced, kept, machine)
    BY <2>2 DEF Leads, Keeping
  <2>. QED BY <2>1, <2>2, <2>3, QuietKept DEF Leads
<1>8. ASSUME NEW p \in Processes, NEW kind \in Kinds, Begin(p, kind) PROVE KeptInv'
  <2>1. UNCHANGED <<machine, identity, quarantine, overwritten, receipts>>
    BY <1>8 DEF Begin, env, history, identityFiles, resetFiles, evidence
  <2>2. ASSUME NEW q \in Processes
        PROVE  Keeping(call'[q], identity, Replaced, kept, machine)
    <3>1. CASE q = p
      BY <1>8, <3>1, BeginCall DEF Keeping, Identified
    <3>2. CASE q # p
      <4>1. \A c \in Calls : LET d == [c EXCEPT !.alone = FALSE] IN
              d.pc = c.pc /\ d.previous = c.previous /\ d.node = c.node
        BY DEF Calls
      <4>2. /\ call'[q].pc = call[q].pc /\ call'[q].previous = call[q].previous
            /\ call'[q].node = call[q].node
        BY <1>8, <3>2, <4>1, BeginCall, CallTyped
      <4>. QED BY <4>2 DEF KeptInv, Keeping
    <3>. QED BY <3>1, <3>2
  <2>. QED BY <2>1, <2>2 DEF KeptInv, AttestedIsKept, kept, Replaced, NodesOf
<1>9. CASE Environment
  <2>1. UNCHANGED <<identity, quarantine, overwritten, receipts>>
    BY <1>9 DEF Environment, Submit, Complete, Tick, Move, history, identityFiles, resetFiles,
                evidence
  <2>2. ASSUME NEW q \in Processes
        PROVE  Keeping(call'[q], identity, Replaced, kept, machine')
    <3>1. call'[q].pc = call[q].pc /\ call'[q].node = call[q].node
      BY <1>9, EnvironmentCall, CallTyped DEF Calls
    <3>2. machine' = machine \/ call[q].pc = "idle"
      BY <1>9 DEF Environment, Submit, Complete, Tick, Move, Idle, At
    <3>. QED BY <3>1, <3>2 DEF KeptInv, Keeping, Identified
  <2>. QED BY <2>1, <2>2 DEF KeptInv, AttestedIsKept, kept, Replaced, NodesOf
<1>10. CASE UNCHANGED vars
  BY <1>10 DEF vars, env, history, identityFiles, resetFiles, evidence, KeptInv, AttestedIsKept,
               kept, Replaced, NodesOf
<1>. QED BY <1>1, <1>2, <1>3, <1>4, <1>5, <1>6, <1>7, <1>8, <1>9, <1>10
         DEF Next, StartStep, Failure, IdentifiedStep, OtherStep

(* No identity that a startup receipt attests is lost, unless a failing     *)
(* reset puts its backup back over the identity of one it overlapped.       *)
THEOREM NodeAttestedIsKept == Spec => []AttestedIsKept
<1>1. KeptInv => AttestedIsKept
  BY DEF KeptInv
<1>. QED BY <1>1, NodeTypeInv, InitKept, StepKept, PTL DEF Spec

(***************************************************************************)
(* Audited identities: the first, and those of the receipts of resets.  A  *)
(* reset that writes the receipts back may lose those written since it     *)
(* read them, but they are about the machine its own receipt is about.     *)
(***************************************************************************)
Audited(n, o, R) == n = o \/ \E x \in R : x.new = n
Within(R, S, m) == \A x \in R : x \in S \/ x.new = m

Copied == {"saveIdentity", "readResets", "writeResets"}
Replacing == {"quarantine", "copy"} \cup Copied
WithReset(c) == c.kind = "reset" /\ c.existed
InReset(c) == c.pc \in Replacing \/ (c.pc = "identity" /\ WithReset(c))
Past == Identified \ {"creator", "config", "createConfig"}

(* What call c relies on, with machine m, identity i, config f, origin o,   *)
(* the receipts R of resets and the copies B in quarantine.                 *)
Auditing(c, m, i, f, o, R, B) ==
    /\ c.pc = "compare" => f # None /\ c.config \in Nodes /\ Audited(c.config, o, R)
    /\ InReset(c) => f # None /\ (Audited(i, o, R) \/ i = m)
    /\ c.pc \in Copied => \A b \in B : b.copy = c.copy => Audited(b.node, o, R) \/ b.node = m
    /\ c.pc = "writeResets" => Within(R, c.resets, m) /\ Within(c.resets, R, m)
    /\ c.pc = "identity" /\ WithReset(c) => Audited(m, o, R)
    /\ c.pc = "config" => ~WithReset(c)
    /\ c.pc \in {"creator", "createConfig"} /\ WithReset(c) => f # None /\ Audited(c.node, o, R)
    /\ c.pc \in Past => Audited(c.node, o, R)
    /\ c.pc \in Identified /\ f = None => c.node = o

AuditInv ==
    /\ AttestedIsAudited
    /\ identity = None => origin = None
    /\ config = None => identity = origin
    /\ config # None => Audited(config, origin, resets)
    /\ \A p \in Processes : Auditing(call[p], machine, identity, config, origin, resets, quarantine)
    /\ \A p, q \in Processes : call[p].pc = "writeResets" /\ call[q].pc = "writeResets" =>
          Within(call[p].resets, call[q].resets, machine)

LEMMA InitAudit == Init => AuditInv
<1>. SUFFICES ASSUME Init PROVE AuditInv
  OBVIOUS
<1>1. \A p \in Processes : call[p] = NoCall
  BY DEF Init
<1>2. NoCall.pc = "idle"
  BY DEF NoCall
<1>3. \A p \in Processes : Auditing(call[p], machine, identity, config, origin, resets, quarantine)
  BY <1>1, <1>2 DEF Auditing, InReset, Replacing, Copied, Past, Identified
<1>4. CASE Empty
  BY <1>1, <1>2, <1>3, <1>4 DEF Empty, AuditInv, AttestedIsAudited
<1>5. ASSUME NEW node \in Nodes, Started(node) PROVE AuditInv
  <2>1. identity = node /\ config = node /\ origin = node /\ \A r \in receipts : r.node = node
    BY <1>5 DEF Started
  <2>. QED BY <1>1, <1>2, <1>3, <2>1 DEF AuditInv, AttestedIsAudited, Audited
<1>. QED BY <1>4, <1>5 DEF Init

(* The calls of others, and what a step has to show for them. *)
LEMMA OthersAudit ==
    ASSUME TypeInv, AuditInv, NEW q \in Processes, machine' = machine,
           \A n \in Nodes : Audited(n, origin, resets) => Audited(n, origin', resets'),
           config # None => config' # None,
           identity' \in {identity, machine} \/ Audited(identity', origin', resets'),
           origin' = origin \/ origin = None,
           \A b \in quarantine' : \/ b \in quarantine
                                  \/ Audited(b.node, origin', resets') \/ b.node = machine,
           call[q].pc = "writeResets" =>
               Within(resets', call[q].resets, machine) /\ Within(call[q].resets, resets', machine)
    PROVE  Auditing(call[q], machine, identity', config', origin', resets', quarantine')
<1>. DEFINE c == call[q]
<1>1. Auditing(c, machine, identity, config, origin, resets, quarantine) /\ Shape(c, identity, manifest, state)
  BY CallTyped DEF AuditInv
<1>2. /\ config \in Nodes \cup {None} /\ identity \in Nodes \cup {None} /\ machine \in Nodes
      /\ config' = None => config = None
  BY DEF TypeInv, FilesTyped, Maybe
<1>3. InReset(c) => identity \in Nodes
  BY <1>1, <1>2 DEF InReset, Replacing, Copied, WithReset, Shape
<1>4. InReset(c) => config' # None /\ (Audited(identity', origin', resets') \/ identity' = machine)
  <2>. HIDE DEF c
  <2>. QED BY <1>1, <1>3 DEF Auditing
<1>5. \A b \in quarantine : b.node \in Nodes
  BY DEF TypeInv, FilesTyped, Backups
<1>6. c.pc \in Identified => c.node \in Nodes
  BY <1>1 DEF Shape
<1>7. c.pc \in Past => c.node \in Nodes
  BY <1>6 DEF Past
<1>8. c.pc \in {"creator", "createConfig"} => c.node \in Nodes
  BY <1>6 DEF Identified
<1>9. c.pc \in Identified /\ config' = None => c.node = origin'
  BY <1>1, <1>2, <1>6 DEF Auditing
<1>. HIDE DEF c
<1>10. c.pc = "compare" =>
         config' # None /\ c.config \in Nodes /\ Audited(c.config, origin', resets')
  BY <1>1 DEF Auditing
<1>11. c.pc \in Copied => \A b \in quarantine' :
         b.copy = c.copy => Audited(b.node, origin', resets') \/ b.node = machine
  BY <1>1, <1>5 DEF Auditing
<1>12. /\ c.pc = "identity" /\ WithReset(c) => Audited(machine, origin', resets')
       /\ c.pc = "config" => ~WithReset(c)
       /\ c.pc \in {"creator", "createConfig"} /\ WithReset(c) =>
             config' # None /\ Audited(c.node, origin', resets')
       /\ c.pc \in Past => Audited(c.node, origin', resets')
  BY <1>1, <1>2, <1>7, <1>8 DEF Auditing
<1>13. c.pc = "writeResets" =>
         Within(resets', c.resets, machine) /\ Within(c.resets, resets', machine)
  BY DEF c
<1>14. c.pc \in Identified /\ config' = None => c.node = origin'
  BY <1>9 DEF c
<1>15. InReset(c) => config' # None /\ (Audited(identity', origin', resets') \/ identity' = machine)
  BY <1>4 DEF c
<1>16. Auditing(c, machine, identity', config', origin', resets', quarantine')
  BY <1>10, <1>11, <1>12, <1>13, <1>14, <1>15 DEF Auditing
<1>. QED BY <1>16 DEF c

(* Steps that change no file the audit depends on. *)
LEMMA QuietAudit ==
    ASSUME TypeInv, AuditInv, NEW p \in Processes,
           UNCHANGED <<machine, identity, config, origin, resets, quarantine, receipts>>,
           \A q \in Processes : q # p => call'[q] = call[q],
           call'[p].pc # "writeResets",
           Auditing(call'[p], machine, identity, config, origin, resets, quarantine)
    PROVE  AuditInv'
<1>1. \A q \in Processes : Auditing(call'[q], machine, identity, config, origin, resets, quarantine)
  BY DEF AuditInv
<1>2. \A q, r \in Processes : call'[q].pc = "writeResets" /\ call'[r].pc = "writeResets" =>
          Within(call'[q].resets, call'[r].resets, machine)
  BY DEF AuditInv
<1>. QED BY <1>1, <1>2 DEF AuditInv, AttestedIsAudited

LEMMA ResetAudit ==
    ASSUME TypeInv, AuditInv, NEW p \in Processes,
           \/ NameCopy(p) \/ Quarantine(p) \/ SaveIdentity(p)
           \/ ReadResets(p) \/ WriteResets(p) \/ RestoreIdentity(p)
    PROVE  AuditInv'
<1>. DEFINE c == call[p]
<1>0. /\ Auditing(c, machine, identity, config, origin, resets, quarantine)
      /\ Shape(c, identity, manifest, state)
      /\ machine \in Nodes
  BY CallTyped DEF AuditInv, TypeInv, FilesTyped
<1>1. CASE Quarantine(p)
  <2>1. UNCHANGED <<machine, identity, config, origin, resets, receipts>>
    BY <1>1 DEF Quarantine, env, identityFiles, evidence
  <2>2. /\ call'[p].pc = "saveIdentity" /\ call'[p].copy = c.copy
        /\ \A q \in Processes : q # p => call'[q] = call[q]
    BY <1>1, GoCall, GoKeeps DEF Quarantine
  <2>3. c.pc = "copy"
    BY <1>1 DEF Quarantine, At
  <2>4. config # None /\ (Audited(identity, origin, resets) \/ identity = machine)
    BY <1>0, <2>3 DEF Auditing, InReset, Replacing, Copied
  <2>5. \A b \in quarantine' : \/ b \in quarantine /\ b.copy # c.copy
                               \/ b.node = identity
    BY <1>1 DEF Quarantine, CopiedTo
  <2>6. Auditing(call'[p], machine, identity, config, origin, resets, quarantine')
    BY <2>2, <2>4, <2>5 DEF Auditing, InReset, Replacing, Copied, Past, Identified
  <2>7. ASSUME NEW q \in Processes
        PROVE  Auditing(call'[q], machine, identity', config', origin', resets', quarantine')
    <3>1. CASE q = p
      BY <2>1, <2>6, <3>1
    <3>2. CASE q # p
      <4>1. call[q].pc = "writeResets" =>
              Within(resets', call[q].resets, machine) /\ Within(call[q].resets, resets', machine)
        BY <2>1 DEF AuditInv, Auditing
      <4>2. \A b \in quarantine' : \/ b \in quarantine
                                   \/ Audited(b.node, origin', resets') \/ b.node = machine
        BY <2>1, <2>4, <2>5
      <4>3. /\ machine' = machine /\ (config # None => config' # None)
            /\ identity' \in {identity, machine} /\ origin' = origin
            /\ \A n \in Nodes : Audited(n, origin, resets) => Audited(n, origin', resets')
        BY <2>1
      <4>4. Auditing(call[q], machine, identity', config', origin', resets', quarantine')
        BY <4>1, <4>2, <4>3, OthersAudit
      <4>. QED BY <2>2, <3>2, <4>4
    <3>. QED BY <3>1, <3>2
  <2>8. \A q, r \in Processes : call'[q].pc = "writeResets" /\ call'[r].pc = "writeResets" =>
          Within(call'[q].resets, call'[r].resets, machine)
    BY <2>2 DEF AuditInv
  <2>. QED BY <2>1, <2>7, <2>8 DEF AuditInv, AttestedIsAudited
<1>5. CASE NameCopy(p)
  <2>1. UNCHANGED <<machine, identity, config, origin, resets, quarantine, receipts>>
    BY <1>5 DEF NameCopy, env, history, identityFiles, resetFiles, evidence
  <2>2. call'[p].pc = "copy" /\ \A q \in Processes : q # p => call'[q] = call[q]
    BY <1>5, StartLeads DEF Leads
  <2>3. c.pc = "quarantine"
    BY <1>5 DEF NameCopy, At
  <2>4. Auditing(call'[p], machine, identity, config, origin, resets, quarantine)
    BY <1>0, <2>2, <2>3 DEF Auditing, InReset, Replacing, Copied, Past, Identified
  <2>. QED BY <2>1, <2>2, <2>4, QuietAudit
<1>2. CASE SaveIdentity(p) \/ RestoreIdentity(p)
  <2>1. UNCHANGED <<machine, config, origin, resets, quarantine, receipts>>
    BY <1>2 DEF SaveIdentity, RestoreIdentity, env, history, resetFiles, evidence
  <2>2. c.pc \in Copied
    BY <1>2 DEF SaveIdentity, RestoreIdentity, At, Copied
  <2>3. /\ call'[p].pc = "idle" \/ (call'[p].pc = "readResets" /\ identity' = machine
                                    /\ call'[p].copy = c.copy)
        /\ \A q \in Processes : q # p => call'[q] = call[q]
    BY <1>2, GoCall, GoKeeps, StopLeads DEF SaveIdentity, NewIdentity, Leads
  <2>4. identity' = machine \/ \E b \in quarantine : b.copy = c.copy /\ identity' = b.node
    BY <1>2 DEF SaveIdentity, NewIdentity, RestoreIdentity, NodesOf, CopiedTo
  <2>5. identity' # None /\ (identity' = machine \/ Audited(identity', origin, resets))
    <3>1. \A b \in quarantine : b.node \in Nodes
      BY DEF TypeInv, FilesTyped, Backups
    <3>. QED BY <1>0, <2>2, <2>4, <3>1 DEF Auditing
  <2>6. config # None
    BY <1>0, <2>2 DEF Auditing, InReset, Replacing, Copied
  <2>7. ASSUME NEW q \in Processes
        PROVE  Auditing(call'[q], machine, identity', config', origin', resets', quarantine')
    <3>1. CASE q = p
      <4>1. Auditing(call'[p], machine, identity', config, origin, resets, quarantine)
        BY <1>0, <2>2, <2>3, <2>6 DEF Auditing, InReset, Replacing, Copied, Past, Identified
      <4>. QED BY <2>1, <3>1, <4>1
    <3>2. CASE q # p
      <4>1. call[q].pc = "writeResets" =>
              Within(resets, call[q].resets, machine) /\ Within(call[q].resets, resets, machine)
        BY DEF AuditInv, Auditing
      <4>2. Auditing(call[q], machine, identity', config', origin', resets', quarantine')
        BY <2>1, <2>5, <4>1, OthersAudit
      <4>. QED BY <2>3, <3>2, <4>2
    <3>. QED BY <3>1, <3>2
  <2>8. \A q, r \in Processes : call'[q].pc = "writeResets" /\ call'[r].pc = "writeResets" =>
          Within(call'[q].resets, call'[r].resets, machine)
    BY <2>3 DEF AuditInv
  <2>. QED BY <2>1, <2>5, <2>6, <2>7, <2>8 DEF AuditInv, AttestedIsAudited
<1>3. CASE ReadResets(p)
  <2>1. UNCHANGED <<machine, identity, config, origin, resets, quarantine, receipts>>
    BY <1>3 DEF ReadResets, env, history, identityFiles, resetFiles, evidence
  <2>2. /\ call'[p].pc = "writeResets" /\ call'[p].copy = c.copy
        /\ call'[p].resets = resets
        /\ \A q \in Processes : q # p => call'[q] = call[q]
    BY <1>3, StartLeads, NodeKept DEF Leads
  <2>3. c.pc = "readResets"
    BY <1>3 DEF ReadResets, At
  <2>4. Auditing(call'[p], machine, identity, config, origin, resets, quarantine)
    BY <1>0, <2>2, <2>3 DEF Auditing, InReset, Replacing, Copied, Past, Identified, Within
  <2>5. \A q \in Processes : Auditing(call'[q], machine, identity, config, origin, resets, quarantine)
    BY <2>2, <2>4 DEF AuditInv
  <2>6. \A q, r \in Processes : call'[q].pc = "writeResets" /\ call'[r].pc = "writeResets" =>
          Within(call'[q].resets, call'[r].resets, machine)
    <3>1. \A q \in Processes : call'[q].pc = "writeResets" =>
            Within(resets, call'[q].resets, machine) /\ Within(call'[q].resets, resets, machine)
      BY <2>5 DEF Auditing
    <3>2. \A q, r \in Processes : q # p /\ r # p /\ call'[q].pc = "writeResets"
                                /\ call'[r].pc = "writeResets" =>
            Within(call'[q].resets, call'[r].resets, machine)
      BY <2>2 DEF AuditInv
    <3>. QED BY <2>2, <3>1, <3>2
  <2>. QED BY <2>1, <2>5, <2>6 DEF AuditInv, AttestedIsAudited
<1>4. CASE WriteResets(p)
  <2>. DEFINE x == ResetReceipt(p)
  <2>1. UNCHANGED <<machine, identity, config, origin, quarantine, receipts>> /\ resets' = c.resets \cup {x}
    BY <1>4 DEF WriteResets, env, history, identityFiles, evidence
  <2>2. x.new = machine /\ c.pc = "writeResets"
    BY <1>4 DEF ResetReceipt, WriteResets, At
  <2>3. /\ call'[p].pc = "identity"
        /\ \A q \in Processes : q # p => call'[q] = call[q]
    BY <1>4, GoCall DEF WriteResets
  <2>. HIDE DEF x
  <2>4. \A n : Audited(n, origin, resets) => Audited(n, origin', resets')
    BY <1>0, <2>1, <2>2 DEF Audited, Auditing, Within
  <2>5. Audited(machine, origin', resets')
    BY <2>1, <2>2 DEF Audited
  <2>6. ASSUME NEW q \in Processes
        PROVE  Auditing(call'[q], machine, identity', config', origin', resets', quarantine')
    <3>1. CASE q = p
      <4>1. config # None /\ (Audited(identity, origin, resets) \/ identity = machine)
        BY <1>0, <2>2 DEF Auditing, InReset, Replacing, Copied
      <4>2. Auditing(call'[p], machine, identity, config, origin', resets', quarantine)
        BY <2>3, <2>4, <2>5, <4>1 DEF Auditing, InReset, Replacing, Copied, Past, Identified
      <4>. QED BY <2>1, <3>1, <4>2
    <3>2. CASE q # p
      <4>1. call[q].pc = "writeResets" =>
              Within(resets', call[q].resets, machine) /\ Within(call[q].resets, resets', machine)
        <5>1. call[q].pc = "writeResets" =>
                /\ Within(c.resets, call[q].resets, machine)
                /\ Within(call[q].resets, c.resets, machine)
          BY <2>2 DEF AuditInv
        <5>. QED BY <2>1, <2>2, <5>1 DEF Within
      <4>2. /\ machine' = machine /\ (config # None => config' # None)
            /\ identity' \in {identity, machine} /\ origin' = origin
            /\ \A n \in Nodes : Audited(n, origin, resets) => Audited(n, origin', resets')
            /\ quarantine' = quarantine
        BY <2>1, <2>4
      <4>3. Auditing(call[q], machine, identity', config', origin', resets', quarantine')
        BY <4>1, <4>2, OthersAudit
      <4>. QED BY <2>3, <3>2, <4>3
    <3>. QED BY <3>1, <3>2
  <2>7. \A q, r \in Processes : call'[q].pc = "writeResets" /\ call'[r].pc = "writeResets" =>
          Within(call'[q].resets, call'[r].resets, machine)
    BY <2>3 DEF AuditInv
  <2>8. AttestedIsAudited' /\ (config # None => Audited(config, origin', resets'))
    BY <2>1, <2>4 DEF AuditInv, AttestedIsAudited, Audited
  <2>. QED BY <2>1, <2>6, <2>7, <2>8 DEF AuditInv
<1>. QED BY <1>1, <1>2, <1>3, <1>4, <1>5

(* The identity is loaded or created. *)
LEMMA LoadAudit ==
    ASSUME TypeInv, AuditInv, NEW p \in Processes, LoadIdentity(p)
    PROVE  AuditInv'
<1>. DEFINE c == call[p]
<1>1. /\ Auditing(c, machine, identity, config, origin, resets, quarantine)
      /\ machine \in Nodes /\ config \in Nodes \cup {None} /\ identity \in Nodes \cup {None}
      /\ c.pc = "identity" /\ None \notin Nodes
  BY NodeAssumption DEF AuditInv, LoadIdentity, At, TypeInv, FilesTyped, Maybe, NodeAssumption
<1>2. /\ UNCHANGED <<machine, config, resets, quarantine, receipts>>
      /\ identity' = IF identity = None THEN machine ELSE identity
      /\ origin' = IF identity = None THEN machine ELSE origin
  BY DEF LoadIdentity, NewIdentity, env, resetFiles, evidence
<1>3. /\ call'[p].node = identity' /\ call'[p].kind = c.kind /\ call'[p].existed = c.existed
      /\ call'[p].pc = "creator"
      /\ \A q \in Processes : q # p => call'[q] = call[q]
  BY <1>2, StartLeads, NodeKept DEF Leads
<1>. HIDE DEF c
<1>5. origin' = origin \/ origin = None
  BY <1>2 DEF AuditInv
<1>6. \A n \in Nodes : Audited(n, origin, resets) => Audited(n, origin', resets')
  BY <1>1, <1>2, <1>5 DEF Audited
<1>7. config' = None => identity' = origin'
  BY <1>2 DEF AuditInv
<1>8. Auditing(call'[p], machine, identity', config', origin', resets', quarantine')
  <2>1. WithReset(call'[p]) => WithReset(c)
    BY <1>3 DEF WithReset
  <2>2. WithReset(c) => config' # None /\ Audited(identity', origin', resets')
    <3>1. WithReset(c) => /\ config # None /\ Audited(machine, origin, resets)
                          /\ Audited(identity, origin, resets) \/ identity = machine
      BY <1>1 DEF Auditing, InReset
    <3>. QED BY <1>1, <1>2, <1>6, <3>1
  <2>. QED BY <1>3, <1>7, <2>1, <2>2 DEF Auditing, InReset, Replacing, Copied, Past, Identified
<1>9. ASSUME NEW q \in Processes
      PROVE  Auditing(call'[q], machine, identity', config', origin', resets', quarantine')
  <2>1. CASE q = p
    BY <1>8, <2>1
  <2>2. CASE q # p
    <3>1. call[q].pc = "writeResets" =>
            Within(resets', call[q].resets, machine) /\ Within(call[q].resets, resets', machine)
      BY <1>2 DEF AuditInv, Auditing
    <3>2. /\ machine' = machine /\ (config # None => config' # None)
          /\ identity' \in {identity, machine} /\ quarantine' = quarantine
      BY <1>2
    <3>3. Auditing(call[q], machine, identity', config', origin', resets', quarantine')
      BY <1>5, <1>6, <3>1, <3>2, OthersAudit
    <3>. QED BY <1>3, <2>2, <3>3
  <2>. QED BY <2>1, <2>2
<1>10. AttestedIsAudited'
  <2>1. \A r \in receipts : r.node \in Nodes /\ Audited(r.node, origin, resets)
    BY DEF TypeInv, FilesTyped, Receipts, AuditInv, AttestedIsAudited, Audited
  <2>. QED BY <1>2, <1>6, <2>1 DEF AttestedIsAudited, Audited
<1>11. config' # None => Audited(config', origin', resets')
  BY <1>1, <1>2, <1>6 DEF AuditInv
<1>12. \A q, r \in Processes : call'[q].pc = "writeResets" /\ call'[r].pc = "writeResets" =>
          Within(call'[q].resets, call'[r].resets, machine)
  BY <1>3 DEF AuditInv
<1>13. identity' # None
  BY <1>1, <1>2
<1>. QED BY <1>2, <1>7, <1>9, <1>10, <1>11, <1>12, <1>13 DEF AuditInv

(* What an identified start does to config, and where it is then. *)
LEMMA IdentifiedConfig ==
    ASSUME TypeInv, NEW p \in Processes, IdentifiedStep(p)
    PROVE  \/ config' = config /\ call'[p].pc = "idle"
           \/ /\ config' = config /\ call[p].pc \in {"creator", "config"}
              /\ call'[p].pc \in {"createConfig", "config"}
              /\ WithReset(call'[p]) => WithReset(call[p])
              /\ call'[p].pc = "config" => ~WithReset(call[p])
           \/ /\ config' = config /\ call'[p].pc \in Past
              /\ call[p].pc = "config" /\ config = call[p].node
           \/ /\ config' = call[p].node /\ call'[p].pc \in Past
              /\ call[p].pc = "createConfig" /\ (config = None \/ WithReset(call[p]))
           \/ config' = config /\ call[p].pc \in Past /\ call'[p].pc \in Past
<1>1. CASE CheckConfig(p)
  <2>1. config' = config /\ call[p].pc = "config"
    BY <1>1 DEF CheckConfig, At, identityFiles
  <2>2. CASE config = None /\ Go(p, "createConfig")
    <3>1. call'[p].pc = "createConfig" /\ (WithReset(call'[p]) => WithReset(call[p]))
      BY <2>2, GoCall, GoKeeps DEF WithReset
    <3>. QED BY <2>1, <3>1
  <2>3. CASE config = call[p].node /\ Stamped(p)
    BY <2>1, <2>3, StampedCall DEF Past, Identified
  <2>4. CASE End(p)
    BY <2>1, <2>4, EndCall
  <2>. QED BY <1>1, <2>2, <2>3, <2>4 DEF CheckConfig
<1>2. CASE WriteConfig(p)
  <2>1. call[p].pc = "createConfig"
    BY <1>2 DEF WriteConfig, At
  <2>2. CASE (config = None \/ Resetting(p)) /\ config' = call[p].node /\ Stamped(p)
    BY <2>1, <2>2, StampedCall DEF Past, Identified, WithReset, Resetting
  <2>3. CASE End(p) /\ UNCHANGED config
    BY <2>3, EndCall
  <2>. QED BY <1>2, <2>2, <2>3 DEF WriteConfig
<1>4. CASE ReadCreator(p)
  <2>1. config' = config /\ call[p].pc = "creator"
    BY <1>4 DEF ReadCreator, At, identityFiles
  <2>2. ASSUME NEW to, Go(p, to) PROVE WithReset(call'[p]) => WithReset(call[p])
    BY <2>2, GoKeeps DEF WithReset
  <2>3. CASE Resetting(p) /\ Go(p, "createConfig")
    BY <2>1, <2>2, <2>3, GoCall
  <2>4. CASE ~Resetting(p) /\ Go(p, "config")
    BY <2>1, <2>2, <2>4, GoCall DEF WithReset, Resetting
  <2>5. CASE End(p)
    BY <2>1, <2>5, EndCall
  <2>. QED BY <1>4, <2>3, <2>4, <2>5 DEF ReadCreator
<1>3. CASE ~ReadCreator(p) /\ ~CheckConfig(p) /\ ~WriteConfig(p)
  <2>1. call[p].pc \in Past /\ config' = config
    BY <1>3 DEF IdentifiedStep, CheckManifest, WriteManifest, LoadManifest, UpgradeManifest,
         CreateReceipt, CreateLineage, Log, At, Past, Identified, identityFiles
  <2>2. call'[p].pc \in Past \cup {"idle"}
    BY <1>3, StartLeads DEF IdentifiedStep, Leads, Past, Identified
  <2>. QED BY <2>1, <2>2
<1>. QED BY <1>1, <1>2, <1>3, <1>4

LEMMA IdentifiedAudit ==
    ASSUME TypeInv, AuditInv, NEW p \in Processes, IdentifiedStep(p)
    PROVE  AuditInv'
<1>. DEFINE c == call[p]
<1>1. /\ Auditing(c, machine, identity, config, origin, resets, quarantine)
      /\ config \in Nodes \cup {None} /\ None \notin Nodes /\ c.pc \in Identified
      /\ c.node \in Nodes
  BY IdentifiedLeads, CallTyped, NodeAssumption
     DEF AuditInv, TypeInv, FilesTyped, Maybe, Shape, NodeAssumption
<1>2. UNCHANGED <<machine, identity, origin, resets, quarantine>>
  BY DEF IdentifiedStep, ReadCreator, CheckConfig, WriteConfig, CheckManifest, WriteManifest,
       LoadManifest, UpgradeManifest, CreateReceipt, CreateLineage, Log, env, history,
       identityFiles, resetFiles
<1>3. /\ call'[p].pc # "idle" => call'[p].node = c.node
      /\ \A q \in Processes : q # p => call'[q] = call[q]
      /\ call'[p].pc \in Identified \cup {"idle"}
  BY IdentifiedLeads
<1>4. /\ config # None => config' # None
      /\ config' # config => config' = c.node /\ Audited(c.node, origin, resets)
  BY <1>1, IdentifiedConfig DEF Auditing, Audited
<1>5. Auditing(call'[p], machine, identity, config', origin, resets, quarantine)
  <2>. HIDE DEF c
  <2>1. call'[p].pc \in Past => Audited(c.node, origin, resets)
    <3>1. config # None => Audited(config, origin, resets)
      BY DEF AuditInv
    <3>2. /\ c.pc \in Past => Audited(c.node, origin, resets)
          /\ c.pc = "createConfig" /\ WithReset(c) => Audited(c.node, origin, resets)
          /\ config = None => Audited(c.node, origin, resets)
      BY <1>1 DEF Auditing, Audited
    <3>3. call'[p].pc \in Past =>
            \/ c.pc \in Past
            \/ config = c.node
            \/ c.pc = "createConfig" /\ (config = None \/ WithReset(c))
      BY IdentifiedConfig DEF c, Past, Identified
    <3>. QED BY <1>1, <3>1, <3>2, <3>3
  <2>2. /\ call'[p].pc = "createConfig" /\ WithReset(call'[p]) =>
              config' # None /\ Audited(c.node, origin, resets)
        /\ call'[p].pc = "config" => ~WithReset(call'[p])
    <3>1. /\ c.pc = "config" => ~WithReset(c)
          /\ c.pc = "creator" /\ WithReset(c) =>
                config # None /\ Audited(c.node, origin, resets)
      BY <1>1 DEF Auditing
    <3>. QED BY <1>4, <3>1, IdentifiedConfig DEF c, Past
  <2>3. call'[p].pc # "creator"
    BY IdentifiedLeads
  <2>4. config' = None => c.node = origin
    BY <1>1, <1>4 DEF Auditing
  <2>. QED BY <1>3, <2>1, <2>2, <2>3, <2>4 DEF Auditing, InReset, Replacing, Copied, Past, Identified
<1>6. ASSUME NEW q \in Processes
      PROVE  Auditing(call'[q], machine, identity', config', origin', resets', quarantine')
  <2>1. CASE q = p
    BY <1>2, <1>5, <2>1
  <2>2. CASE q # p
    <3>1. call[q].pc = "writeResets" =>
            Within(resets', call[q].resets, machine) /\ Within(call[q].resets, resets', machine)
      BY <1>2 DEF AuditInv, Auditing
    <3>2. /\ identity' \in {identity, machine} /\ origin' = origin
          /\ \A n \in Nodes : Audited(n, origin, resets) => Audited(n, origin', resets')
      BY <1>2
    <3>3. Auditing(call[q], machine, identity', config', origin', resets', quarantine')
      BY <1>2, <1>4, <3>1, <3>2, OthersAudit
    <3>. QED BY <1>3, <2>2, <3>3
  <2>. QED BY <2>1, <2>2
<1>7. AttestedIsAudited'
  <2>1. receipts' # receipts => c.pc = "receipt"
    BY DEF IdentifiedStep, ReadCreator, CheckConfig, WriteConfig, CheckManifest, WriteManifest,
         LoadManifest, UpgradeManifest, CreateReceipt, CreateLineage, Log, evidence, At
  <2>2. \A r \in receipts' : r \in receipts \/ r.node = c.node
    BY DEF IdentifiedStep, ReadCreator, CheckConfig, WriteConfig, CheckManifest, WriteManifest,
         LoadManifest, UpgradeManifest, CreateReceipt, CreateLineage, Log, evidence
  <2>3. c.pc = "receipt" => Audited(c.node, origin, resets)
    BY <1>1 DEF Auditing, Past, Identified
  <2>. HIDE DEF c
  <2>. QED BY <1>2, <2>1, <2>2, <2>3 DEF AuditInv, AttestedIsAudited, Audited
<1>8. config' # None => Audited(config', origin, resets)
  BY <1>4 DEF AuditInv
<1>9. config' = None => config = None
  BY <1>4
<1>10. \A q, r \in Processes : call'[q].pc = "writeResets" /\ call'[r].pc = "writeResets" =>
          Within(call'[q].resets, call'[r].resets, machine)
  BY <1>3 DEF AuditInv, Identified
<1>. QED BY <1>2, <1>6, <1>7, <1>8, <1>9, <1>10 DEF AuditInv

(* A call relies on nothing but its place and what it remembers. *)
Same(c, d) == /\ d.pc = c.pc /\ d.kind = c.kind /\ d.existed = c.existed
              /\ d.config = c.config /\ d.copy = c.copy
              /\ d.resets = c.resets /\ d.node = c.node

LEMMA SameAudit ==
    ASSUME NEW c, NEW d, Same(c, d), NEW m, NEW i, NEW f, NEW o, NEW R, NEW B,
           Auditing(c, m, i, f, o, R, B)
    PROVE  Auditing(d, m, i, f, o, R, B)
<1>1. WithReset(d) = WithReset(c) /\ InReset(d) = InReset(c)
  BY DEF Same, WithReset, InReset
<1>. QED BY <1>1 DEF Same, Auditing

LEMMA ReplacedSame ==
    ASSUME NEW c \in Calls
    PROVE  /\ Same(c, [c EXCEPT !.alone = FALSE])
           /\ \A W : Same(c, [c EXCEPT !.open = W])
BY DEF Same, Calls

LEMMA CheckAudit ==
    ASSUME TypeInv, AuditInv, NEW p \in Processes, Preload(p) \/ Compare(p)
    PROVE  Auditing(call'[p], machine, identity, config, origin, resets, quarantine)
<1>0. call \in [Processes -> Calls] /\ config \in Nodes \cup {None}
  BY DEF TypeInv, FilesTyped, CallsTyped, Maybe
<1>1. CASE End(p)
  BY <1>1, EndCall DEF Auditing, InReset, Replacing, Copied, Past, Identified
<1>2. CASE Preload(p) /\ ~End(p)
  <2>. DEFINE d == call'[p]
  <2>1. ~Refusable(p) /\ d.config = config
        /\ d.existed = (identity # None)
        /\ d.pc = IF config = None THEN "identity" ELSE "compare"
    <3>1. \A to, f, b : LET r == [call[p] EXCEPT !.pc = to, !.config = f, !.existed = b]
                        IN  r.pc = to /\ r.config = f /\ r.existed = b
      BY <1>0 DEF Calls
    <3>. DEFINE to == IF config = None THEN "identity" ELSE "compare"
                had == identity # None
    <3>2. ~Refusable(p) /\ Put(p, [call[p] EXCEPT !.pc = to, !.config = config, !.existed = had])
      BY <1>2 DEF Preload
    <3>. HIDE DEF to, had
    <3>3. d.pc = to /\ d.config = config /\ d.existed = had
      <4>1. d = [call[p] EXCEPT !.pc = to, !.config = config, !.existed = had]
        BY <3>2, PutCall
      <4>. QED BY <3>1, <4>1
    <3>. QED BY <3>2, <3>3 DEF to, had
  <2>2. CASE config = None
    <3>1. ~WithReset(d)
      BY <2>1, <2>2 DEF Refusable, Artifacts, WithReset
    <3>. QED BY <2>1, <2>2, <3>1 DEF Auditing, InReset, Replacing, Copied, Past, Identified
  <2>3. CASE config # None
    <3>1. Audited(config, origin, resets)
      BY <2>3 DEF AuditInv
    <3>. QED BY <1>0, <2>1, <2>3, <3>1 DEF Auditing, InReset, Replacing, Copied, Past, Identified
  <2>. QED BY <2>2, <2>3
<1>3. CASE Compare(p) /\ ~End(p)
  <2>1. /\ identity = call[p].config /\ call[p].pc = "compare"
        /\ Go(p, IF Resetting(p) THEN "quarantine" ELSE "identity")
    BY <1>3 DEF Compare, At
  <2>2. config # None /\ Audited(identity, origin, resets)
    BY <2>1 DEF AuditInv, Auditing
  <2>3. CASE Resetting(p)
    <3>1. call'[p].pc = "quarantine"
      BY <2>1, <2>3, GoCall
    <3>. QED BY <2>2, <3>1 DEF Auditing, InReset, Replacing, Copied, Past, Identified
  <2>4. CASE ~Resetting(p)
    <3>1. Go(p, "identity")
      BY <2>1, <2>4
    <3>2. call'[p].pc = "identity" /\ ~WithReset(call'[p])
      BY <2>4, <3>1, GoCall, GoKeeps DEF WithReset, Resetting
    <3>. QED BY <3>2 DEF Auditing, InReset, Replacing, Copied, Past, Identified
  <2>. QED BY <2>3, <2>4
<1>. QED BY <1>1, <1>2, <1>3

LEMMA StepAudit ==
    ASSUME TypeInv, AuditInv, [Next]_vars
    PROVE  AuditInv'
<1>1. ASSUME NEW p \in Processes, OtherStep(p) PROVE AuditInv'
  <2>1. UNCHANGED <<machine, identity, config, origin, resets, quarantine, receipts>>
    BY <1>1 DEF OtherStep, Preload, Compare, StopStep, StopLog, StopLoad, StopWork, StopState,
         StopAudit, StopAppend, RestartStep, RestartRead, RestartReceipt, Fail, StopUnaudited,
         env, history, identityFiles, resetFiles, evidence
  <2>2. /\ call'[p].pc # "writeResets"
        /\ \A q \in Processes : q # p => call'[q] = call[q]
    BY <1>1, StartLeads, StopLeads DEF OtherStep, StopStep, RestartStep, Leads
  <2>3. Auditing(call'[p], machine, identity, config, origin, resets, quarantine)
    <3>1. CASE Preload(p) \/ Compare(p)
      BY <3>1, CheckAudit
    <3>2. CASE ~Preload(p) /\ ~Compare(p)
      <4>1. call'[p].pc \in Steps \ (Identified \cup {"quarantine", "copy", "saveIdentity",
                                     "readResets", "writeResets", "compare", "identity"})
        BY <1>1, <3>2, StopLeads DEF OtherStep, StopStep, RestartStep, Leads, Steps, Identified
      <4>. QED BY <4>1 DEF Auditing, InReset, Replacing, Copied, Past, Identified
    <3>. QED BY <3>1, <3>2
  <2>. QED BY <2>1, <2>2, <2>3, QuietAudit
<1>2. ASSUME NEW p \in Processes, NEW kind \in Kinds, Begin(p, kind) PROVE AuditInv'
  <2>1. UNCHANGED <<machine, identity, config, origin, resets, quarantine, receipts>>
    BY <1>2 DEF Begin, env, history, identityFiles, resetFiles, evidence
  <2>2. \A q \in Processes : Same(call[q], call'[q]) \/ call'[q].pc \in {"preload", "stopLog"}
    <3>1. ASSUME NEW q \in Processes
          PROVE  Same(call[q], call'[q]) \/ call'[q].pc \in {"preload", "stopLog"}
      <4>1. Same(call[q], call[q]) /\ Same(call[q], [call[q] EXCEPT !.alone = FALSE])
        BY CallTyped, ReplacedSame DEF Same
      <4>. QED BY <1>2, <4>1, BeginCall
    <3>. QED BY <3>1
  <2>3. ASSUME NEW q \in Processes
        PROVE  Auditing(call'[q], machine, identity, config, origin, resets, quarantine)
    <3>1. CASE Same(call[q], call'[q])
      BY <3>1, SameAudit DEF AuditInv
    <3>2. CASE call'[q].pc \in {"preload", "stopLog"}
      BY <3>2 DEF Auditing, InReset, Replacing, Copied, Past, Identified
    <3>. QED BY <2>2, <3>1, <3>2
  <2>4. \A q, r \in Processes : call'[q].pc = "writeResets" /\ call'[r].pc = "writeResets" =>
          Within(call'[q].resets, call'[r].resets, machine)
    BY <2>2 DEF AuditInv, Same
  <2>. QED BY <2>1, <2>3, <2>4 DEF AuditInv, AttestedIsAudited
<1>3. CASE Environment
  <2>1. UNCHANGED <<identity, config, origin, resets, quarantine, receipts>>
    BY <1>3 DEF Environment, Submit, Complete, Tick, Move, history, identityFiles, resetFiles,
                evidence
  <2>2. \A q \in Processes : Same(call[q], call'[q])
    <3>1. ASSUME NEW q \in Processes PROVE Same(call[q], call'[q])
      <4>1. Same(call[q], call[q]) /\ call[q] \in Calls
        BY CallTyped DEF Same
      <4>2. call'[q] = call[q] \/ \E W : call'[q] = [call[q] EXCEPT !.open = W]
        BY <1>3, EnvironmentCall
      <4>. QED BY <4>1, <4>2, ReplacedSame
    <3>. QED BY <3>1
  <2>3. machine' = machine \/ \A q \in Processes : call[q].pc = "idle"
    BY <1>3 DEF Environment, Submit, Complete, Tick, Move, Idle, At
  <2>4. ASSUME NEW q \in Processes
        PROVE  Auditing(call'[q], machine', identity, config, origin, resets, quarantine)
    <3>1. CASE machine' = machine
      BY <2>2, <3>1, SameAudit DEF AuditInv
    <3>2. CASE call[q].pc = "idle"
      BY <2>2, <3>2 DEF Same, Auditing, InReset, Replacing, Copied, Past, Identified
    <3>. QED BY <2>3, <3>1, <3>2
  <2>5. \A q, r \in Processes : call'[q].pc = "writeResets" /\ call'[r].pc = "writeResets" =>
          Within(call'[q].resets, call'[r].resets, machine')
    BY <2>2, <2>3 DEF AuditInv, Same
  <2>. QED BY <2>1, <2>4, <2>5 DEF AuditInv, AttestedIsAudited
<1>4. CASE UNCHANGED vars
  BY <1>4 DEF vars, env, history, identityFiles, resetFiles, evidence, AuditInv,
              AttestedIsAudited
<1>. QED BY <1>1, <1>2, <1>3, <1>4, ResetAudit, LoadAudit, IdentifiedAudit
         DEF Next, StartStep, Failure, IdentifiedStep, OtherStep

(* Whatever fails or overlaps, and whatever receipts of resets are lost to  *)
(* a reset that writes back what it read before: an identity that a startup *)
(* receipt attests is the first of the directory or has a reset's receipt.  *)
THEOREM NodeAttestedIsAudited == Spec => []AttestedIsAudited
<1>1. AuditInv => AttestedIsAudited
  BY DEF AuditInv
<1>. QED BY <1>1, NodeTypeInv, InitAudit, StepAudit, PTL DEF Spec

LEMMA NewestIsThere ==
    ASSUME NEW records, NewestNode(records) # None
    PROVE  \E r \in records : NewestNode(records) = r.node
<1>1. Newest(records) # {} /\ NewestNode(records) = (CHOOSE r \in Newest(records) : TRUE).node
  BY DEF NewestNode
<1>2. (CHOOSE r \in Newest(records) : TRUE) \in Newest(records)
  BY <1>1
<1>. QED BY <1>1, <1>2 DEF Newest

(* Every identity a startup receipt attests is accounted for by a file of  *)
(* the directory and by the first start or a reset's receipt, and so are   *)
(* those the status shows as validated and started last.                   *)
THEOREM NodeAttestedIsAccounted == Spec => []AttestedIsAccounted
<1>1. AttestedIsKept /\ LineageIsAttested => ShownIsKept
  <2>. SUFFICES ASSUME AttestedIsKept, LineageIsAttested
                PROVE  {Status.validated, Status.attributed}
                           \subseteq {None, identity} \cup Replaced
    BY DEF ShownIsKept
  <2>1. NewestNode(receipts) \in {None, identity} \cup Replaced
    BY NewestIsThere DEF AttestedIsKept
  <2>2. NewestNode(lineage) \in {None, identity} \cup Replaced
    BY NewestIsThere DEF AttestedIsKept, LineageIsAttested
  <2>. QED BY <2>1, <2>2 DEF Status
<1>. QED BY <1>1, NodeAttestedIsKept, NodeAttestedIsAudited, NodeLineageIsAttested, PTL
         DEF AttestedIsAccounted

(* A restart receipt is true of the node it names and of the work that was *)
(* open when the restart began.                                            *)
THEOREM NodeRestartIsTrue == Spec => []RestartIsTrue
BY NodeRestartKeepsNode, NodeRestartDecidesOpenWork, PTL DEF RestartIsTrue

(***************************************************************************)
(* The agreement of config, identity and manifest, as long as nothing      *)
(* fails: whoever has made them disagree is a call that is about to make   *)
(* them agree, and while one of them is missing every name there is, in a  *)
(* file or in a call, is that of this machine.                             *)
(***************************************************************************)
(* A start whose identity is there and whose config may not be, or whose   *)
(* config is there and whose manifest may not be.                          *)
Configuring(c) == c.pc \in {"creator", "config", "createConfig"}
Manifesting(c) == c.pc \in {"manifest", "createManifest"}

(* A reset that has replaced the identity, with the config to follow, and  *)
(* with the manifest to follow.                                            *)
Renewing(c) == WithReset(c) /\ c.pc \in {"readResets", "writeResets", "identity", "creator",
                                         "createConfig"}
Rewriting(c) == Renewing(c) \/ (WithReset(c) /\ Manifesting(c))

(* What call c relies on, with machine m, identity i, config f, manifest g *)
(* and the replaced identities r.                                          *)
Agreeing(c, m, i, f, g, r) ==
    /\ c.pc \in Replacing => WithReset(c)
    /\ c.pc \in Identified => i # None /\ (c.node = i \/ i = m)
    /\ c.pc \in Past => f # None
    /\ c.pc = "saveIdentity" => i \in r \cup {m}
    /\ Rewriting(c) => i = m
    /\ WithReset(c) /\ c.pc \in Identified => c.node = m /\ c.pc # "config"
    /\ WithReset(c) /\ Manifesting(c) => f = m
    /\ c.pc \in Identified /\ (f = None \/ g = None) => c.node = m
    /\ c.pc \in Identified /\ g # None /\ g.adverts = None => c.node \in {g.node, m}
    /\ c.pc = "upgrade" => c.manifest.node \in {i} \cup r /\ c.node \in {c.manifest.node, m}

(* The files, with machine m, identity i, config f, manifest g and the     *)
(* replaced identities r.                                                  *)
Grown(m, i, f, g, r) ==
    /\ i = None => f = None
    /\ f = None => g = None
    /\ f = None \/ g = None => {i, f} \subseteq {None, m}
    /\ g # None /\ g.adverts = None => i \in {g.node, m} /\ g.node \in {i} \cup r

(* Names disagree only while a call is about to make them agree, or after  *)
(* an upgrade put the manifest of a replaced node back.                    *)
Completed ==
    /\ identity # None /\ config = None => \E p \in Processes : Configuring(call[p])
    /\ config # None /\ manifest = None => \E p \in Processes : Manifesting(call[p])
    /\ config \notin {None, identity} => \E p \in Processes : Renewing(call[p])
    /\ \/ manifest = None
       \/ manifest.node = config /\ manifest.adverts \in {config, None}
       \/ manifest.node \in Replaced \ {identity} /\ manifest.adverts # None
       \/ \E p \in Processes : Rewriting(call[p])

AgreeInv ==
    faults = 0 =>
        /\ \A p \in Processes :
              Agreeing(call[p], machine, identity, config, manifest, Replaced)
        /\ Grown(machine, identity, config, manifest, Replaced)
        /\ Completed

LEMMA InitAgree == Init => AgreeInv
<1>. SUFFICES ASSUME Init PROVE AgreeInv
  OBVIOUS
<1>1. \A p \in Processes : Agreeing(call[p], machine, identity, config, manifest, Replaced)
  BY DEF Init, NoCall, Agreeing, Replacing, Copied, Identified, Past, Rewriting, Renewing,
         WithReset, Manifesting
<1>2. CASE Empty
  BY <1>1, <1>2 DEF Empty, AgreeInv, Grown, Completed
<1>3. ASSUME NEW node \in Nodes, Started(node) PROVE AgreeInv
  <2>1. /\ config = node /\ identity = node /\ node # None /\ manifest # None
        /\ manifest.node = node /\ manifest.adverts = None
    <3>1. [node |-> node, adverts |-> None] \in Manifests
      BY DEF Manifests
    <3>. QED BY <1>3, <3>1 DEF Started
  <2>. QED BY <1>1, <2>1 DEF AgreeInv, Grown, Completed
<1>. QED BY <1>2, <1>3 DEF Init

(* A call may rely on what it relied on when the identity is replaced by   *)
(* that of the machine, a config names the machine and a manifest has      *)
(* advertisements.                                                         *)
LEMMA AgreeingKept ==
    ASSUME NEW c, NEW m, NEW i, NEW f, NEW g, NEW r, NEW i2, NEW f2, NEW g2, NEW r2,
           Agreeing(c, m, i, f, g, r), m # None,
           i2 = i \/ (i2 = m /\ i \in r \cup {None}),
           \A n \in r : n \in r2,
           f # None => f2 # None, f2 \in {f, m},
           g2 = g \/ (g2 # None /\ g2.adverts # None)
    PROVE  Agreeing(c, m, i2, f2, g2, r2)
<1>1. Rewriting(c) => i2 = m
  BY DEF Agreeing
<1>2. c.pc = "upgrade" => c.manifest.node \in {i2} \cup r2
  BY DEF Agreeing, Identified
<1>. QED BY <1>1, <1>2 DEF Agreeing

LEMMA OwnAgree ==
    ASSUME TypeInv, AgreeInv, faults = 0, NEW p \in Processes, machine' = machine,
           \A q \in Processes : q # p => call'[q] = call[q],
           identity' = identity \/ (identity' = machine /\ identity \in Replaced \cup {None}),
           \A n \in Replaced : n \in Replaced',
           config # None => config' # None, config' \in {config, machine},
           manifest' = manifest \/ (manifest' # None /\ manifest'.adverts # None),
           Agreeing(call'[p], machine, identity', config', manifest', Replaced'),
           Grown(machine, identity', config', manifest', Replaced'),
           Completed'
    PROVE  AgreeInv'
<1>1. ASSUME NEW q \in Processes
      PROVE  Agreeing(call'[q], machine, identity', config', manifest', Replaced')
  <2>1. CASE q = p
    BY <2>1
  <2>2. CASE q # p
    <3>1. Agreeing(call[q], machine, identity, config, manifest, Replaced) /\ machine # None
      BY DEF AgreeInv, TypeInv, FilesTyped
    <3>2. Agreeing(call[q], machine, identity', config', manifest', Replaced')
      BY <3>1, AgreeingKept
    <3>. QED BY <2>2, <3>2
  <2>. QED BY <2>1, <2>2
<1>. QED BY <1>1 DEF AgreeInv

(* Steps that leave the identity files and keep what a call is about to    *)
(* complete.                                                               *)
LEMMA QuietAgree ==
    ASSUME TypeInv, AgreeInv, faults = 0, NEW p \in Processes,
           UNCHANGED <<machine, identity, config, manifest, quarantine, overwritten>>,
           \A q \in Processes : q # p => call'[q] = call[q],
           Agreeing(call'[p], machine, identity, config, manifest, Replaced),
           Configuring(call[p]) /\ config = None => Configuring(call'[p]),
           Manifesting(call[p]) /\ manifest = None => Manifesting(call'[p]),
           Renewing(call[p]) => Renewing(call'[p]),
           Rewriting(call[p]) => Rewriting(call'[p])
    PROVE  AgreeInv'
<1>1. Replaced' = Replaced
  BY DEF Replaced, NodesOf
<1>2. Completed'
  <2>1. \A q \in Processes : /\ Renewing(call[q]) => Renewing(call'[q])
                             /\ Rewriting(call[q]) => Rewriting(call'[q])
                             /\ Configuring(call[q]) /\ config = None => Configuring(call'[q])
                             /\ Manifesting(call[q]) /\ manifest = None => Manifesting(call'[q])
    BY Zenon
  <2>. QED BY <1>1, <2>1 DEF AgreeInv, Completed
<1>3. Grown(machine, identity', config', manifest', Replaced')
  BY <1>1 DEF AgreeInv
<1>. QED BY <1>1, <1>2, <1>3, OwnAgree

(* What the other fields of a call are after a step. *)
LEMMA FieldsKept ==
    ASSUME TypeInv, NEW p \in Processes
    PROVE  /\ \A to : Go(p, to) => WithReset(call'[p]) = WithReset(call[p])
           /\ Stamped(p) => WithReset(call'[p]) = WithReset(call[p])
           /\ Named(p) => WithReset(call'[p]) = WithReset(call[p])
           /\ NameCopy(p) => WithReset(call'[p]) = WithReset(call[p])
           /\ ReadResets(p) => WithReset(call'[p]) = WithReset(call[p])
           /\ LoadManifest(p) /\ call'[p].pc = "upgrade" =>
                 /\ WithReset(call'[p]) = WithReset(call[p])
                 /\ call'[p].manifest = manifest /\ manifest.adverts = None
<1>0. call \in [Processes -> Calls]
  BY DEF TypeInv, CallsTyped
<1>1. \A to : Go(p, to) => WithReset(call'[p]) = WithReset(call[p])
  BY GoKeeps DEF WithReset
<1>2. Stamped(p) => WithReset(call'[p]) = WithReset(call[p])
  BY <1>0 DEF Stamped, Put, Calls, WithReset
<1>3. Named(p) => WithReset(call'[p]) = WithReset(call[p])
  BY <1>0 DEF Named, Put, Calls, WithReset
<1>4. NameCopy(p) => WithReset(call'[p]) = WithReset(call[p])
  BY <1>0 DEF NameCopy, Put, Calls, WithReset
<1>5. ReadResets(p) => WithReset(call'[p]) = WithReset(call[p])
  BY <1>0 DEF ReadResets, Put, Calls, WithReset
<1>6. ASSUME LoadManifest(p), call'[p].pc = "upgrade"
      PROVE  /\ WithReset(call'[p]) = WithReset(call[p])
             /\ call'[p].manifest = manifest /\ manifest.adverts = None
  <2>1. manifest.adverts = None /\ Put(p, [call[p] EXCEPT !.pc = "upgrade", !.manifest = manifest])
    BY <1>6, NamedIs, EndCall DEF LoadManifest
  <2>. QED BY <1>0, <2>1 DEF Put, Calls, WithReset
<1>. QED BY <1>1, <1>2, <1>3, <1>4, <1>5, <1>6

LEMMA CallAgrees ==
    ASSUME TypeInv, AgreeInv, faults = 0, NEW p \in Processes
    PROVE  /\ Agreeing(call[p], machine, identity, config, manifest, Replaced)
           /\ Shape(call[p], identity, manifest, state)
           /\ Grown(machine, identity, config, manifest, Replaced) /\ Completed
           /\ machine # None /\ machine \in Nodes
  BY CallTyped DEF AgreeInv, TypeInv, FilesTyped

LEMMA ResetAgree ==
    ASSUME TypeInv, AgreeInv, faults = 0, NEW p \in Processes,
           NameCopy(p) \/ Quarantine(p) \/ SaveIdentity(p) \/ ReadResets(p) \/ WriteResets(p)
    PROVE  AgreeInv'
<1>. DEFINE c == call[p]
            d == call'[p]
<1>1. /\ Agreeing(c, machine, identity, config, manifest, Replaced)
      /\ Shape(c, identity, manifest, state)
      /\ Grown(machine, identity, config, manifest, Replaced) /\ Completed
      /\ machine # None /\ machine' = machine
  BY CallAgrees DEF NameCopy, Quarantine, SaveIdentity, ReadResets, WriteResets, env
<1>2. /\ c.pc \in Replacing /\ WithReset(c) /\ WithReset(d)
      /\ \A q \in Processes : q # p => call'[q] = call[q]
  <2>1. c.pc \in Replacing
    BY DEF NameCopy, Quarantine, SaveIdentity, ReadResets, WriteResets, At, Replacing, Copied
  <2>2. WithReset(d) = WithReset(c)
    BY FieldsKept DEF NameCopy, Quarantine, SaveIdentity, ReadResets, WriteResets
  <2>3. \A q \in Processes : q # p => call'[q] = call[q]
    BY StartLeads DEF Leads
  <2>. QED BY <1>1, <2>1, <2>2, <2>3 DEF Agreeing
<1>3. CASE NameCopy(p)
  <2>1. UNCHANGED <<machine, identity, config, manifest, quarantine, overwritten>>
    BY <1>3 DEF NameCopy, env, history, identityFiles, resetFiles
  <2>2. c.pc = "quarantine" /\ d.pc = "copy"
    BY <1>3, StartLeads DEF NameCopy, At, Leads
  <2>3. Agreeing(d, machine, identity, config, manifest, Replaced)
    BY <1>2, <2>2 DEF Agreeing, Identified, Past, Rewriting, Renewing, Manifesting
  <2>. QED BY <1>2, <2>1, <2>2, <2>3, QuietAgree
           DEF Configuring, Manifesting, Renewing, Rewriting
<1>4. CASE Quarantine(p)
  <2>1. UNCHANGED <<machine, identity, config, manifest>>
    BY <1>4 DEF Quarantine, env, identityFiles
  <2>2. c.pc = "copy" /\ d.pc = "saveIdentity"
    BY <1>4, StartLeads DEF Quarantine, At, Leads
  <2>3. Replaced' = Replaced \cup {identity}
    <3>. DEFINE new == [copy |-> call[p].copy, node |-> identity]
                old == CopiedTo(call[p].copy)
    <3>1. /\ quarantine' = (quarantine \ old) \cup {new} /\ old \subseteq quarantine
          /\ overwritten' = overwritten \cup (NodesOf(old) \ {identity})
          /\ new.node = identity
      BY <1>4 DEF Quarantine, CopiedTo
    <3>. HIDE DEF new, old
    <3>. QED BY <3>1 DEF Replaced, NodesOf
  <2>4. Agreeing(d, machine, identity, config, manifest, Replaced')
    BY <1>2, <2>2, <2>3 DEF Agreeing, Identified, Past, Rewriting, Renewing, Manifesting
  <2>5. Grown(machine, identity, config, manifest, Replaced')
    BY <1>1, <2>3 DEF Grown
  <2>6. Completed'
    <3>1. \A q \in Processes : /\ Renewing(call[q]) => Renewing(call'[q])
                               /\ Rewriting(call[q]) => Rewriting(call'[q])
                               /\ Configuring(call[q]) => Configuring(call'[q])
                               /\ Manifesting(call[q]) => Manifesting(call'[q])
      BY <1>2, <2>2 DEF Configuring, Manifesting, Renewing, Rewriting
    <3>. QED BY <1>1, <2>1, <2>3, <3>1 DEF Completed
  <2>. QED BY <1>2, <2>1, <2>3, <2>4, <2>5, <2>6, OwnAgree
<1>5. CASE SaveIdentity(p)
  <2>1. identity' = machine /\ UNCHANGED <<config, manifest, quarantine, overwritten>>
    BY <1>5 DEF SaveIdentity, NewIdentity, history, resetFiles
  <2>2. c.pc = "saveIdentity" /\ d.pc = "readResets" /\ Replaced' = Replaced
    BY <1>5, <2>1, StartLeads DEF SaveIdentity, At, Leads, Replaced, NodesOf
  <2>3. identity # None /\ identity \in Replaced \cup {machine}
    BY <1>1, <2>2 DEF Agreeing, Shape
  <2>4. Agreeing(d, machine, machine, config, manifest, Replaced)
    BY <1>2, <2>2 DEF Agreeing, Identified, Past, Manifesting
  <2>5. Grown(machine, machine, config, manifest, Replaced)
    BY <1>1, <2>3 DEF Grown
  <2>6. Completed'
    <3>1. \A q \in Processes : /\ Configuring(call[q]) => Configuring(call'[q])
                               /\ Manifesting(call[q]) => Manifesting(call'[q])
      BY <1>2, <2>2 DEF Configuring, Manifesting
    <3>2. Renewing(d) /\ Rewriting(d)
      BY <1>2, <2>2 DEF Renewing, Rewriting
    <3>. QED BY <1>1, <2>1, <2>2, <2>3, <3>1, <3>2 DEF Completed
  <2>. QED BY <1>1, <1>2, <2>1, <2>2, <2>3, <2>4, <2>5, <2>6, OwnAgree
<1>6. CASE ReadResets(p) \/ WriteResets(p)
  <2>1. UNCHANGED <<machine, identity, config, manifest, quarantine, overwritten>>
    BY <1>6 DEF ReadResets, WriteResets, env, history, identityFiles, resetFiles
  <2>2. c.pc \in {"readResets", "writeResets"} /\ d.pc \in {"writeResets", "identity"}
    BY <1>6, StartLeads DEF ReadResets, WriteResets, At, Leads
  <2>3. Renewing(c) /\ Renewing(d)
    BY <1>2, <2>2 DEF Renewing
  <2>4. Agreeing(d, machine, identity, config, manifest, Replaced)
    BY <1>1, <1>2, <2>2, <2>3 DEF Agreeing, Identified, Past, Rewriting, Manifesting
  <2>. QED BY <1>2, <2>1, <2>2, <2>3, <2>4, QuietAgree DEF Configuring, Manifesting, Rewriting
<1>. QED BY <1>3, <1>4, <1>5, <1>6

LEMMA LoadAgree ==
    ASSUME TypeInv, AgreeInv, faults = 0, NEW p \in Processes, LoadIdentity(p)
    PROVE  AgreeInv'
<1>. DEFINE c == call[p]
            d == call'[p]
<1>1. /\ Agreeing(c, machine, identity, config, manifest, Replaced)
      /\ Grown(machine, identity, config, manifest, Replaced) /\ Completed
      /\ machine # None
  BY CallAgrees
<1>2. /\ identity' = IF identity = None THEN machine ELSE identity
      /\ UNCHANGED <<machine, config, manifest, quarantine, overwritten>>
  BY DEF LoadIdentity, NewIdentity, env, resetFiles
<1>3. /\ c.pc = "identity" /\ d.pc = "creator" /\ d.node = identity'
      /\ WithReset(d) = WithReset(c) /\ Replaced' = Replaced
      /\ \A q \in Processes : q # p => call'[q] = call[q]
  BY <1>2, StartLeads, NodeKept DEF Leads, LoadIdentity, At, WithReset, Replaced, NodesOf
<1>. HIDE DEF c, d
<1>4. WithReset(c) => identity = machine /\ identity' = machine
  BY <1>1, <1>2, <1>3 DEF Agreeing, Rewriting, Renewing
<1>5. Grown(machine, identity', config, manifest, Replaced)
  BY <1>1, <1>2 DEF Grown
<1>6. Agreeing(d, machine, identity', config, manifest, Replaced)
  <2>1. /\ identity' # None
        /\ config = None \/ manifest = None => identity' = machine
        /\ manifest # None /\ manifest.adverts = None => identity' \in {manifest.node, machine}
    BY <1>1, <1>2, <1>5 DEF Grown
  <2>. QED BY <1>3, <1>4, <2>1
           DEF Agreeing, Replacing, Copied, Identified, Past, Rewriting, Renewing, Manifesting
<1>7. Completed'
  <2>1. Configuring(d) /\ (Renewing(c) => Renewing(d)) /\ (Rewriting(c) => Rewriting(d))
    BY <1>3 DEF Configuring, Renewing, Rewriting, Manifesting
  <2>2. ~Manifesting(c)
    BY <1>3 DEF Manifesting
  <2>3. /\ \E q \in Processes : Configuring(call'[q])
        /\ \A q \in Processes : Renewing(call[q]) => Renewing(call'[q])
        /\ \A q \in Processes : Rewriting(call[q]) => Rewriting(call'[q])
        /\ \A q \in Processes : Manifesting(call[q]) => Manifesting(call'[q])
    BY <1>3, <2>1, <2>2 DEF c, d
  <2>. QED BY <1>1, <1>2, <1>3, <2>3 DEF Completed, Grown
<1>. QED BY <1>1, <1>2, <1>3, <1>5, <1>6, <1>7, OwnAgree DEF d

(* What a start that has its identity goes on to rely on. *)
LEMMA IdentifiedAgrees ==
    ASSUME TypeInv, AgreeInv, faults = 0, NEW p \in Processes, IdentifiedStep(p),
           WithReset(call'[p]) = WithReset(call[p]),
           call'[p].pc \in Past => config # None,
           call'[p].pc = "config" => ~WithReset(call[p]),
           call'[p].pc # "upgrade",
           Rewriting(call'[p]) => Rewriting(call[p]),
           WithReset(call'[p]) /\ Manifesting(call'[p]) => config = machine
    PROVE  Agreeing(call'[p], machine, identity, config, manifest, Replaced)
<1>. DEFINE c == call[p]
            d == call'[p]
<1>1. /\ Agreeing(c, machine, identity, config, manifest, Replaced)
      /\ c.pc \in Identified /\ d.pc \in Identified \cup {"idle"}
      /\ d.pc # "idle" => d.node = c.node
  BY CallAgrees, IdentifiedLeads
<1>2. d.pc \notin Replacing \cup {"saveIdentity"}
  BY <1>1 DEF Identified, Replacing, Copied
<1>3. d.pc \in Past => d.pc \in Identified
  BY DEF Past
<1>4. d.pc = "idle" => d.pc \notin Identified
  BY DEF Identified
<1>5. Rewriting(c) => identity = machine
  BY <1>1 DEF Agreeing
<1>6. WithReset(c) => c.node = machine
  BY <1>1 DEF Agreeing
<1>. HIDE DEF c, d
<1>7. d.pc \in Identified =>
        /\ identity # None /\ (d.node = identity \/ identity = machine)
        /\ config = None \/ manifest = None => d.node = machine
        /\ manifest # None /\ manifest.adverts = None => d.node \in {manifest.node, machine}
        /\ WithReset(d) => d.node = machine
  BY <1>1, <1>4, <1>6 DEF Agreeing, c, d
<1>8. d.pc = "config" => ~WithReset(d)
  BY DEF c, d
<1>9. Agreeing(d, machine, identity, config, manifest, Replaced)
  BY <1>2, <1>3, <1>5, <1>7, <1>8 DEF Agreeing, c, d
<1>. QED BY <1>9 DEF d

LEMMA ConfigAgree ==
    ASSUME TypeInv, AgreeInv, faults = 0, NEW p \in Processes, ReadCreator(p) \/ CheckConfig(p)
    PROVE  AgreeInv'
<1>. DEFINE c == call[p]
            d == call'[p]
<1>1. /\ Agreeing(c, machine, identity, config, manifest, Replaced)
      /\ Grown(machine, identity, config, manifest, Replaced)
      /\ c.node \in Nodes /\ c.pc \in Identified /\ machine \in Nodes
      /\ IdentifiedStep(p)
  BY CallAgrees, IdentifiedLeads DEF Shape, IdentifiedStep
<1>2. UNCHANGED <<machine, identity, config, manifest, quarantine, overwritten>>
  BY DEF ReadCreator, CheckConfig, env, history, identityFiles, resetFiles
<1>3. \A q \in Processes : q # p => call'[q] = call[q]
  BY <1>1, IdentifiedLeads
<1>4. ASSUME End(p), config # None, ~WithReset(c)
      PROVE  AgreeInv'
  <2>1. Agreeing(d, machine, identity, config, manifest, Replaced) /\ ~Manifesting(c)
    <3>1. d.pc = "idle" /\ c.pc \in {"creator", "config"}
      BY <1>4, EndCall DEF ReadCreator, CheckConfig, At
    <3>. QED BY <3>1 DEF Agreeing, Replacing, Copied, Identified, Past, Rewriting, Renewing,
                          Manifesting
  <2>2. ~Renewing(c) /\ ~Rewriting(c)
    BY <1>4, <2>1 DEF Renewing, Rewriting
  <2>. QED BY <1>2, <1>3, <1>4, <2>1, <2>2, QuietAgree
<1>5. CASE ReadCreator(p)
  <2>1. c.pc = "creator"
    BY <1>5 DEF ReadCreator, At
  <2>2. CASE Resetting(p) /\ Go(p, "createConfig")
    <3>1. d.pc = "createConfig" /\ WithReset(d) = WithReset(c) /\ WithReset(c)
      BY <2>2, GoCall, FieldsKept DEF Resetting, WithReset
    <3>2. /\ Configuring(d) /\ Renewing(c) /\ Renewing(d) /\ Rewriting(c)
          /\ Rewriting(d) /\ ~Manifesting(d) /\ ~Manifesting(c)
      BY <2>1, <3>1 DEF Configuring, Renewing, Rewriting, Manifesting
    <3>3. Agreeing(d, machine, identity, config, manifest, Replaced)
      BY <1>1, <3>1, <3>2, IdentifiedAgrees DEF Past
    <3>. QED BY <1>2, <1>3, <3>2, <3>3, QuietAgree
  <2>3. CASE ~Resetting(p) /\ Go(p, "config")
    <3>1. d.pc = "config" /\ WithReset(d) = WithReset(c) /\ ~WithReset(c)
      BY <2>3, GoCall, FieldsKept DEF Resetting, WithReset
    <3>2. Configuring(d) /\ ~Manifesting(c) /\ ~Rewriting(c) /\ ~Rewriting(d) /\ ~Renewing(c)
      BY <2>1, <3>1 DEF Configuring, Renewing, Rewriting, Manifesting
    <3>3. Agreeing(d, machine, identity, config, manifest, Replaced)
      BY <1>1, <3>1, <3>2, IdentifiedAgrees DEF Past
    <3>. QED BY <1>2, <1>3, <3>2, <3>3, QuietAgree
  <2>4. CASE ~Resetting(p) /\ identity # c.node /\ End(p)
    <3>1. config # None
      BY <1>1, <2>4 DEF Agreeing, Grown
    <3>. QED BY <1>4, <2>4, <3>1 DEF Resetting, WithReset
  <2>. QED BY <1>5, <2>2, <2>3, <2>4 DEF ReadCreator
<1>6. CASE CheckConfig(p)
  <2>1. c.pc = "config" /\ ~WithReset(c)
    <3>1. c.pc = "config"
      BY <1>6 DEF CheckConfig, At
    <3>. QED BY <1>1, <3>1 DEF Agreeing
  <2>2. ASSUME d.pc \in {"createConfig", "manifest"}, WithReset(d) = WithReset(c),
               d.pc = "manifest" => config # None
        PROVE  AgreeInv'
    <3>1. /\ ~Manifesting(c) /\ ~Rewriting(c) /\ ~Rewriting(d) /\ ~Renewing(c)
          /\ d.pc # "config" /\ d.pc # "upgrade"
      BY <2>1, <2>2 DEF Renewing, Rewriting, Manifesting
    <3>2. d.pc \in Past => config # None
      BY <2>2 DEF Past
    <3>3. Agreeing(d, machine, identity, config, manifest, Replaced)
      BY <1>1, <2>1, <2>2, <3>1, <3>2, IdentifiedAgrees
    <3>4. config = None => Configuring(d)
      BY <2>2 DEF Configuring
    <3>. QED BY <1>2, <1>3, <3>1, <3>3, <3>4, QuietAgree
  <2>3. CASE config = None /\ Go(p, "createConfig")
    <3>1. d.pc = "createConfig" /\ WithReset(d) = WithReset(c)
      BY <2>3, GoCall, FieldsKept
    <3>. QED BY <2>2, <3>1
  <2>4. CASE config = c.node /\ Stamped(p)
    <3>1. d.pc = "manifest" /\ WithReset(d) = WithReset(c)
      BY <2>4, StampedCall, FieldsKept
    <3>2. config # None
      BY <1>1, <2>4
    <3>. QED BY <2>2, <3>1, <3>2
  <2>5. CASE config \notin {None, c.node} /\ End(p)
    BY <1>4, <2>1, <2>5
  <2>. QED BY <1>6, <2>3, <2>4, <2>5 DEF CheckConfig
<1>. QED BY <1>5, <1>6

LEMMA WriteConfigAgree ==
    ASSUME TypeInv, AgreeInv, faults = 0, NEW p \in Processes, WriteConfig(p)
    PROVE  AgreeInv'
<1>. DEFINE c == call[p]
            d == call'[p]
<1>1. /\ Agreeing(c, machine, identity, config, manifest, Replaced)
      /\ Grown(machine, identity, config, manifest, Replaced) /\ Completed
      /\ c.node \in Nodes /\ machine \in Nodes /\ machine # None
      /\ IdentifiedStep(p) /\ c.pc = "createConfig" /\ c.pc \in Identified
  BY CallAgrees DEF Shape, IdentifiedStep, WriteConfig, At, Identified
<1>2. UNCHANGED <<machine, identity, manifest, quarantine, overwritten>>
  BY DEF WriteConfig, env, history, identityFiles, resetFiles
<1>3. /\ \A q \in Processes : q # p => call'[q] = call[q]
      /\ Replaced' = Replaced /\ ~Manifesting(c)
  BY <1>1, <1>2, IdentifiedLeads DEF Replaced, NodesOf, Manifesting
<1>4. CASE config # None /\ ~Resetting(p) /\ End(p) /\ UNCHANGED config
  <2>1. d.pc = "idle" /\ ~WithReset(c)
    BY <1>4, EndCall DEF Resetting, WithReset
  <2>2. Agreeing(d, machine, identity, config, manifest, Replaced)
    BY <2>1 DEF Agreeing, Replacing, Copied, Identified, Past, Rewriting, Renewing, Manifesting
  <2>3. ~Renewing(c) /\ ~Rewriting(c)
    BY <2>1 DEF Renewing, Rewriting
  <2>. QED BY <1>2, <1>3, <1>4, <2>2, <2>3, QuietAgree
<1>5. CASE (config = None \/ Resetting(p)) /\ config' = c.node /\ Stamped(p)
  <2>1. d.pc = "manifest" /\ WithReset(d) = WithReset(c) /\ d.node = c.node
    BY <1>5, StampedCall, FieldsKept, NodeKept
  <2>2. WithReset(c) \/ config = None
    BY <1>5 DEF Resetting, WithReset
  <2>3. identity = machine /\ c.node = machine
    <3>1. WithReset(c) => identity = machine /\ c.node = machine
      BY <1>1 DEF Agreeing, Rewriting, Renewing
    <3>2. config = None => identity = machine /\ c.node = machine
      BY <1>1 DEF Agreeing, Grown
    <3>. QED BY <2>2, <3>1, <3>2
  <2>4. config' = machine
    BY <1>5, <2>3
  <2>5. Grown(machine, identity, machine, manifest, Replaced)
    BY <1>1, <2>3 DEF Grown
  <2>6. Agreeing(d, machine, identity, machine, manifest, Replaced)
    BY <1>1, <2>1, <2>3 DEF Agreeing, Replacing, Copied, Identified, Past
  <2>7. Completed'
    <3>1. Manifesting(d) /\ (WithReset(c) => Rewriting(d))
      BY <2>1 DEF Manifesting, Rewriting
    <3>2. manifest # None /\ (\A q \in Processes : ~Rewriting(call'[q])) =>
             /\ ~WithReset(c) /\ config = None
      BY <2>2, <3>1
    <3>3. config = None => manifest = None
      BY <1>1 DEF Grown
    <3>. QED BY <1>1, <1>2, <2>3, <2>4, <3>1, <3>2, <3>3 DEF Completed
  <2>8. Agreeing(d, machine, identity', config', manifest', Replaced')
        /\ Grown(machine, identity', config', manifest', Replaced')
    BY <1>2, <1>3, <2>4, <2>5, <2>6
  <2>9. (config # None => config' # None) /\ config' \in {config, machine}
    BY <1>1, <2>4
  <2>. QED BY <1>2, <1>3, <2>7, <2>8, <2>9, OwnAgree
<1>. QED BY <1>4, <1>5 DEF WriteConfig

LEMMA ManifestAgree ==
    ASSUME TypeInv, AgreeInv, faults = 0, NEW p \in Processes,
           CheckManifest(p) \/ WriteManifest(p)
    PROVE  AgreeInv'
<1>. DEFINE c == call[p]
            d == call'[p]
<1>1. /\ Agreeing(c, machine, identity, config, manifest, Replaced)
      /\ Grown(machine, identity, config, manifest, Replaced) /\ Completed
      /\ c.node \in Nodes /\ machine \in Nodes /\ machine # None
      /\ IdentifiedStep(p) /\ Manifesting(c) /\ c.pc \in Past /\ c.pc \in Identified
  BY CallAgrees DEF Shape, IdentifiedStep, CheckManifest, WriteManifest, At, Identified,
                    Manifesting, Past
<1>2. /\ \A q \in Processes : q # p => call'[q] = call[q]
      /\ ~Configuring(c) /\ ~Renewing(c) /\ config # None
      /\ UNCHANGED <<machine, identity, config, quarantine, overwritten>>
      /\ WithReset(c) => config = machine /\ identity = machine /\ c.node = machine
  BY <1>1, IdentifiedLeads
     DEF CheckManifest, WriteManifest, env, history, identityFiles, resetFiles,
         Configuring, Renewing, Manifesting, Agreeing, Rewriting
<1>3. CASE CheckManifest(p)
  <2>1. UNCHANGED manifest /\ WithReset(d) = WithReset(c)
        /\ d.pc = IF WithReset(c) \/ manifest = None THEN "createManifest" ELSE "loadManifest"
    <3>1. WithReset(c) = Resetting(p)
      BY DEF WithReset, Resetting
    <3>. QED BY <1>3, <3>1, GoCall, FieldsKept DEF CheckManifest, identityFiles
  <2>2. /\ WithReset(c) \/ manifest = None => Manifesting(d)
        /\ Rewriting(c) => Rewriting(d)
        /\ Rewriting(d) => Rewriting(c)
        /\ d.pc # "config" /\ d.pc # "upgrade"
    BY <1>1, <1>2, <2>1 DEF Manifesting, Rewriting, Renewing
  <2>3. Agreeing(d, machine, identity, config, manifest, Replaced)
    BY <1>1, <1>2, <2>1, <2>2, IdentifiedAgrees
  <2>. QED BY <1>2, <2>1, <2>2, <2>3, QuietAgree
<1>4. CASE manifest # None /\ ~Resetting(p) /\ End(p) /\ UNCHANGED manifest
  <2>1. d.pc = "idle" /\ ~WithReset(c)
    BY <1>4, EndCall DEF Resetting, WithReset
  <2>2. Agreeing(d, machine, identity, config, manifest, Replaced)
    BY <2>1 DEF Agreeing, Replacing, Copied, Identified, Past, Rewriting, Renewing, Manifesting
  <2>3. ~Rewriting(c)
    BY <2>1 DEF Renewing, Rewriting
  <2>. QED BY <1>2, <1>4, <2>2, <2>3, QuietAgree
<1>5. CASE /\ manifest = None \/ Resetting(p)
           /\ manifest' = Manifested(c.node) /\ Go(p, "loadManifest")
  <2>1. d.pc = "loadManifest" /\ WithReset(d) = WithReset(c) /\ d.node = c.node
    BY <1>5, GoCall, GoKeeps, FieldsKept
  <2>2. manifest' # None /\ manifest'.node = c.node /\ manifest'.adverts = c.node
    <3>1. Manifested(c.node) \in Manifests
      BY <1>1 DEF Manifested, Manifests
    <3>. QED BY <1>5, <3>1 DEF Manifested
  <2>3. c.node = config /\ c.node = machine /\ identity = machine
    <3>1. WithReset(c) \/ manifest = None
      BY <1>5 DEF Resetting, WithReset
    <3>2. manifest = None => c.node = config /\ c.node = machine /\ identity = machine
      BY <1>1, <1>2 DEF Agreeing, Grown
    <3>. QED BY <1>2, <3>1, <3>2
  <2>4. Replaced' = Replaced
    BY <1>2 DEF Replaced, NodesOf
  <2>5. Grown(machine, identity, config, manifest', Replaced)
    BY <1>1, <1>2, <2>2, <2>3 DEF Grown
  <2>6. Agreeing(d, machine, identity, config, manifest', Replaced)
    BY <1>1, <1>2, <2>1, <2>2, <2>3
       DEF Agreeing, Replacing, Copied, Identified, Past, Rewriting, Renewing, Manifesting
  <2>7. Completed'
    <3>1. \A q \in Processes : /\ Configuring(call[q]) => Configuring(call'[q])
                               /\ Renewing(call[q]) => Renewing(call'[q])
      BY <1>2
    <3>. QED BY <1>1, <1>2, <2>2, <2>3, <3>1 DEF Completed
  <2>8. Agreeing(d, machine, identity', config', manifest', Replaced')
        /\ Grown(machine, identity', config', manifest', Replaced')
    BY <1>2, <2>4, <2>5, <2>6
  <2>9. manifest'.adverts # None
    BY <1>1, <2>2
  <2>. QED BY <1>2, <2>2, <2>4, <2>7, <2>8, <2>9, OwnAgree
<1>. QED BY <1>3, <1>4, <1>5 DEF WriteManifest

(* A start is past its manifest: nothing waits for it any more.            *)
LEMMA PastAgree ==
    ASSUME TypeInv, AgreeInv, faults = 0, NEW p \in Processes,
           UNCHANGED <<machine, identity, config, manifest, quarantine, overwritten>>,
           \A q \in Processes : q # p => call'[q] = call[q],
           ~Configuring(call[p]), ~Manifesting(call[p]), ~Renewing(call[p]),
           Agreeing(call'[p], machine, identity, config, manifest, Replaced)
    PROVE  AgreeInv'
<1>1. ~Rewriting(call[p])
  BY DEF Rewriting
<1>. QED BY <1>1, QuietAgree

LEMMA IdleAgrees ==
    ASSUME NEW c, c.pc \in {"idle", "preload", "stopLog", "stopLoad", "stopWork", "stopState",
                           "stopAudit", "stopAppend", "restartRead", "compare"}
    PROVE  \A m, i, f, g, r : Agreeing(c, m, i, f, g, r)
  BY DEF Agreeing, Replacing, Copied, Identified, Past, Rewriting, Renewing, Manifesting

LEMMA EvidenceAgree ==
    ASSUME TypeInv, AgreeInv, faults = 0, NEW p \in Processes,
           LoadManifest(p) \/ CreateReceipt(p) \/ CreateLineage(p) \/ Log(p)
    PROVE  AgreeInv'
<1>. DEFINE c == call[p]
            d == call'[p]
<1>1. /\ Agreeing(c, machine, identity, config, manifest, Replaced)
      /\ Grown(machine, identity, config, manifest, Replaced)
      /\ IdentifiedStep(p) /\ c.pc \in Past /\ c.pc \in Identified
      /\ c.pc \in {"loadManifest", "receipt", "lineage", "log"}
      /\ c.pc = "loadManifest" => manifest # None
  BY CallAgrees DEF Shape, IdentifiedStep, LoadManifest, CreateReceipt, CreateLineage, Log, At,
                    Identified, Past
<1>2. /\ \A q \in Processes : q # p => call'[q] = call[q]
      /\ ~Configuring(c) /\ ~Manifesting(c) /\ ~Renewing(c) /\ config # None
      /\ UNCHANGED <<machine, identity, config, manifest, quarantine, overwritten>>
  BY <1>1, IdentifiedLeads
     DEF LoadManifest, CreateReceipt, CreateLineage, Log, env, history, identityFiles, resetFiles,
         Configuring, Renewing, Manifesting, Agreeing
<1>3. CASE d.pc = "idle"
  BY <1>2, <1>3, IdleAgrees, PastAgree
<1>4. CASE d.pc \in {"receipt", "lineage", "log", "restartReceipt"}
  <2>1. WithReset(d) = WithReset(c)
    <3>1. ASSUME NEW to, Go(p, to) PROVE WithReset(d) = WithReset(c)
      BY <3>1, FieldsKept
    <3>2. Go(p, "lineage") \/ Go(p, "log") \/ Go(p, "restartReceipt") \/ Named(p)
      <4>1. ASSUME Put(p, [c EXCEPT !.pc = "upgrade", !.manifest = manifest])
            PROVE  d.pc = "upgrade"
        <5>1. call \in [Processes -> Calls]
          BY DEF TypeInv, CallsTyped
        <5>. QED BY <4>1, <5>1 DEF Put, Calls
      <4>2. End(p) => d.pc = "idle"
        BY EndCall
      <4>. QED BY <1>4, <4>1, <4>2 DEF LoadManifest, CreateReceipt, CreateLineage, Log
    <3>. QED BY <3>1, <3>2, FieldsKept
  <2>2. ~Rewriting(d) /\ ~Manifesting(d) /\ d.pc # "config" /\ d.pc # "upgrade"
    BY <1>4 DEF Rewriting, Renewing, Manifesting
  <2>3. Agreeing(d, machine, identity, config, manifest, Replaced)
    BY <1>1, <1>2, <2>1, <2>2, IdentifiedAgrees
  <2>. QED BY <1>2, <2>3, PastAgree
<1>5. CASE d.pc = "upgrade"
  <2>1. LoadManifest(p)
    <3>1. CreateReceipt(p) \/ CreateLineage(p) \/ Log(p) => d.pc # "upgrade"
      BY StartLeads DEF Leads
    <3>. QED BY <1>5, <3>1
  <2>2. /\ WithReset(d) = WithReset(c) /\ d.manifest = manifest /\ manifest.adverts = None
        /\ d.node = c.node /\ manifest # None
    BY <1>1, <1>5, <2>1, FieldsKept, IdentifiedLeads DEF LoadManifest, At
  <2>3. Agreeing(d, machine, identity, config, manifest, Replaced)
    BY <1>1, <1>2, <1>5, <2>2
       DEF Agreeing, Grown, Replacing, Copied, Identified, Past, Rewriting, Renewing, Manifesting
  <2>. QED BY <1>2, <2>3, PastAgree
<1>. QED BY <1>3, <1>4, <1>5, StartLeads DEF Leads

LEMMA UpgradeAgree ==
    ASSUME TypeInv, AgreeInv, faults = 0, NEW p \in Processes, UpgradeManifest(p)
    PROVE  AgreeInv'
<1>. DEFINE c == call[p]
            d == call'[p]
<1>1. /\ Agreeing(c, machine, identity, config, manifest, Replaced)
      /\ Grown(machine, identity, config, manifest, Replaced) /\ Completed
      /\ IdentifiedStep(p) /\ c.pc = "upgrade" /\ c.pc \in Past /\ c.pc \in Identified
      /\ c.manifest \in Manifests /\ c.node \in Nodes
  BY CallAgrees DEF Shape, IdentifiedStep, UpgradeManifest, At, Identified, Past
<1>2. /\ \A q \in Processes : q # p => call'[q] = call[q]
      /\ ~Configuring(c) /\ ~Manifesting(c) /\ ~Renewing(c) /\ ~Rewriting(c) /\ config # None
      /\ UNCHANGED <<machine, identity, config, quarantine, overwritten>>
  BY <1>1, IdentifiedLeads
     DEF UpgradeManifest, env, history, identityFiles, resetFiles,
         Configuring, Renewing, Rewriting, Manifesting, Agreeing
<1>3. /\ manifest' # None /\ manifest'.node = c.manifest.node /\ manifest'.adverts = c.node
      /\ manifest'.adverts # None
  <2>1. manifest' = [c.manifest EXCEPT !.adverts = c.node]
    BY DEF UpgradeManifest
  <2>2. /\ [c.manifest EXCEPT !.adverts = c.node] \in Manifests
        /\ [c.manifest EXCEPT !.adverts = c.node].node = c.manifest.node
        /\ [c.manifest EXCEPT !.adverts = c.node].adverts = c.node
    BY <1>1 DEF Manifests
  <2>. QED BY <1>1, <2>1, <2>2
<1>4. Replaced' = Replaced
  BY <1>2 DEF Replaced, NodesOf
<1>5. Grown(machine, identity, config, manifest', Replaced)
  BY <1>1, <1>2, <1>3 DEF Grown, Agreeing
<1>6. Agreeing(d, machine, identity, config, manifest', Replaced)
  <2>1. CASE d.pc = "idle"
    BY <2>1, IdleAgrees
  <2>2. CASE d.pc = "receipt"
    <3>1. Named(p)
      BY <2>2, EndCall DEF UpgradeManifest
    <3>2. WithReset(d) = WithReset(c) /\ d.node = c.node
      BY <3>1, FieldsKept, NodeKept
    <3>. QED BY <1>1, <1>2, <1>3, <2>2, <3>2
             DEF Agreeing, Replacing, Copied, Identified, Past, Rewriting, Renewing, Manifesting
  <2>. QED BY <2>1, <2>2, StartLeads DEF Leads
<1>7. Completed'
  <2>1. \A q \in Processes : /\ Configuring(call[q]) => Configuring(call'[q])
                             /\ Renewing(call[q]) => Renewing(call'[q])
                             /\ Rewriting(call[q]) => Rewriting(call'[q])
    BY <1>2
  <2>2. ASSUME \A q \in Processes : ~Rewriting(call[q])
        PROVE  \/ c.manifest.node = config /\ c.node = config
               \/ c.manifest.node \in Replaced \ {identity}
    <3>1. config = identity
      <4>1. \A q \in Processes : ~Renewing(call[q])
        BY <2>2 DEF Rewriting
      <4>. QED BY <1>1, <1>2, <4>1 DEF Completed
    <3>2. /\ c.manifest.node \in {identity} \cup Replaced
          /\ c.node \in {c.manifest.node, machine} /\ (c.node = identity \/ identity = machine)
      BY <1>1 DEF Agreeing
    <3>. QED BY <3>1, <3>2
  <2>. QED BY <1>1, <1>2, <1>3, <1>4, <2>1, <2>2 DEF Completed
<1>8. Agreeing(d, machine, identity', config', manifest', Replaced')
      /\ Grown(machine, identity', config', manifest', Replaced')
  BY <1>2, <1>4, <1>5, <1>6
<1>. QED BY <1>2, <1>3, <1>4, <1>7, <1>8, OwnAgree

LEMMA OtherAgree ==
    ASSUME TypeInv, AgreeInv, faults = 0, NEW p \in Processes,
           Preload(p) \/ Compare(p) \/ StopStep(p) \/ RestartStep(p)
    PROVE  AgreeInv'
<1>. DEFINE c == call[p]
            d == call'[p]
<1>1. UNCHANGED <<machine, identity, config, manifest, quarantine, overwritten>>
  BY DEF Preload, Compare, StopStep, StopLog, StopLoad, StopWork, StopState, StopAudit,
         StopAppend, RestartStep, RestartRead, RestartReceipt, env, history, identityFiles,
         resetFiles
<1>2. ~Configuring(c) /\ ~Manifesting(c) /\ ~Renewing(c)
  BY DEF Preload, Compare, StopStep, StopLog, StopLoad, StopWork, StopState, StopAudit,
         StopAppend, RestartStep, RestartRead, RestartReceipt, At, Configuring, Manifesting,
         Renewing
<1>3. \A q \in Processes : q # p => call'[q] = call[q]
  BY StartLeads, StopLeads DEF StopStep, RestartStep, Leads
<1>4. Agreeing(d, machine, identity, config, manifest, Replaced)
  <2>1. CASE Preload(p) /\ d.pc = "identity"
    <3>1. ~WithReset(d)
      <4>1. config = None /\ ~Refusable(p)
            /\ Put(p, [c EXCEPT !.pc = IF config = None THEN "identity" ELSE "compare",
                               !.config = config, !.existed = identity # None])
        <5>1. call \in [Processes -> Calls]
          BY DEF TypeInv, CallsTyped
        <5>2. ASSUME NEW to, Put(p, [c EXCEPT !.pc = to, !.config = config,
                                             !.existed = identity # None])
              PROVE  d.pc = to
          BY <5>1, <5>2 DEF Put, Calls
        <5>. QED BY <2>1, <5>2, EndCall DEF Preload
      <4>2. identity = None
        BY <4>1 DEF Refusable, Artifacts
      <4>3. d.existed = (identity # None)
        <5>1. call \in [Processes -> Calls]
          BY DEF TypeInv, CallsTyped
        <5>. QED BY <4>1, <5>1 DEF Put, Calls
      <4>. QED BY <4>2, <4>3 DEF WithReset
    <3>. QED BY <2>1, <3>1
             DEF Agreeing, Replacing, Copied, Identified, Past, Rewriting, Renewing, Manifesting
  <2>2. CASE Compare(p) /\ d.pc # "idle"
    <3>1. \/ Resetting(p) /\ Go(p, "quarantine")
          \/ ~Resetting(p) /\ Go(p, "identity")
      BY <2>2, EndCall DEF Compare
    <3>2. \/ WithReset(d) /\ d.pc = "quarantine"
          \/ ~WithReset(d) /\ d.pc = "identity"
      <4>1. WithReset(c) = Resetting(p)
        BY DEF WithReset, Resetting
      <4>. QED BY <3>1, <4>1, GoCall, FieldsKept
    <3>. QED BY <3>2
             DEF Agreeing, Replacing, Copied, Identified, Past, Rewriting, Renewing, Manifesting
  <2>3. CASE ~(Preload(p) /\ d.pc = "identity") /\ ~(Compare(p) /\ d.pc # "idle")
    <3>1. d.pc \in {"idle", "preload", "stopLog", "stopLoad", "stopWork", "stopState",
                   "stopAudit", "stopAppend", "restartRead", "compare"}
      BY <2>3, StartLeads, StopLeads DEF StopStep, RestartStep, Leads
    <3>. QED BY <3>1, IdleAgrees
  <2>. QED BY <2>1, <2>2, <2>3
<1>. QED BY <1>1, <1>2, <1>3, <1>4, PastAgree

(* A call whose other fields change relies on the same files.              *)
Alike(c, d) == /\ d.pc = c.pc /\ d.kind = c.kind /\ d.existed = c.existed
               /\ d.node = c.node /\ d.manifest = c.manifest

LEMMA AlikeAgrees ==
    ASSUME NEW c, NEW d, Alike(c, d)
    PROVE  /\ \A m, i, f, g, r : Agreeing(c, m, i, f, g, r) => Agreeing(d, m, i, f, g, r)
           /\ Configuring(c) => Configuring(d)
           /\ Manifesting(c) => Manifesting(d)
           /\ Renewing(c) => Renewing(d)
           /\ Rewriting(c) => Rewriting(d)
<1>1. /\ WithReset(c) = WithReset(d) /\ Manifesting(c) = Manifesting(d)
      /\ Renewing(c) = Renewing(d) /\ Configuring(c) = Configuring(d)
  BY DEF Alike, WithReset, Manifesting, Renewing, Configuring
<1>2. Rewriting(c) = Rewriting(d)
  BY <1>1 DEF Rewriting
<1>. QED BY <1>1, <1>2 DEF Alike, Agreeing

LEMMA BeginAgree ==
    ASSUME TypeInv, AgreeInv, faults = 0, NEW p \in Processes, NEW kind \in Kinds, Begin(p, kind)
    PROVE  AgreeInv'
<1>1. UNCHANGED <<machine, identity, config, manifest, quarantine, overwritten>>
  BY DEF Begin, env, history, identityFiles, resetFiles
<1>2. Replaced' = Replaced
  BY <1>1 DEF Replaced, NodesOf
<1>3. ASSUME NEW q \in Processes, q # p
      PROVE  Alike(call[q], call'[q])
  <2>1. call[q] \in Calls
    BY CallTyped
  <2>2. Alike(call[q], [call[q] EXCEPT !.alone = FALSE]) /\ Alike(call[q], call[q])
    BY <2>1 DEF Alike, Calls
  <2>. QED BY <1>3, <2>2, BeginCall
<1>4. call[p].pc = "idle" /\ call'[p].pc \in {"preload", "stopLog"}
  BY BeginCall
<1>5. ASSUME NEW q \in Processes
      PROVE  /\ Agreeing(call'[q], machine, identity, config, manifest, Replaced)
             /\ Configuring(call[q]) => Configuring(call'[q])
             /\ Manifesting(call[q]) => Manifesting(call'[q])
             /\ Renewing(call[q]) => Renewing(call'[q])
             /\ Rewriting(call[q]) => Rewriting(call'[q])
  <2>1. CASE q = p
    <3>1. /\ ~Configuring(call[p]) /\ ~Manifesting(call[p])
          /\ ~Renewing(call[p]) /\ ~Rewriting(call[p])
      BY <1>4 DEF Configuring, Manifesting, Renewing, Rewriting
    <3>. QED BY <1>4, <2>1, <3>1, IdleAgrees
  <2>2. CASE q # p
    BY <1>3, <2>2, AlikeAgrees, CallAgrees
  <2>. QED BY <2>1, <2>2
<1>6. Completed'
  BY <1>1, <1>2, <1>5 DEF AgreeInv, Completed
<1>. QED BY <1>1, <1>2, <1>5, <1>6 DEF AgreeInv

LEMMA EnvironmentAgree ==
    ASSUME TypeInv, AgreeInv, faults = 0, Environment
    PROVE  AgreeInv'
<1>1. UNCHANGED <<identity, config, manifest, quarantine, overwritten>>
  BY DEF Environment, Submit, Complete, Tick, Move, history, identityFiles, resetFiles
<1>2. Replaced' = Replaced
  BY <1>1 DEF Replaced, NodesOf
<1>3. ASSUME NEW q \in Processes
      PROVE  Alike(call[q], call'[q])
  <2>1. call[q] \in Calls
    BY CallTyped
  <2>2. \A W : Alike(call[q], [call[q] EXCEPT !.open = W]) /\ Alike(call[q], call[q])
    BY <2>1 DEF Alike, Calls
  <2>. QED BY <2>2, EnvironmentCall
<1>4. /\ \A q \in Processes : Configuring(call[q]) => Configuring(call'[q])
      /\ \A q \in Processes : Manifesting(call[q]) => Manifesting(call'[q])
      /\ \A q \in Processes : Renewing(call[q]) => Renewing(call'[q])
      /\ \A q \in Processes : Rewriting(call[q]) => Rewriting(call'[q])
  BY <1>3, AlikeAgrees
<1>5. Completed'
  BY <1>1, <1>2, <1>4 DEF AgreeInv, Completed
<1>6. CASE machine' = machine
  <2>1. \A q \in Processes : Agreeing(call'[q], machine, identity, config, manifest, Replaced)
    BY <1>3, AlikeAgrees DEF AgreeInv
  <2>. QED BY <1>1, <1>2, <1>5, <1>6, <2>1 DEF AgreeInv
<1>7. CASE machine' # machine
  <2>1. \A q \in Processes : call[q].pc = "idle" /\ call'[q].pc = "idle"
    <3>1. \A q \in Processes : call[q].pc = "idle"
      BY <1>7 DEF Environment, Submit, Complete, Tick, Move, Idle, At
    <3>. QED BY <1>3, <3>1 DEF Alike
  <2>2. \A q \in Processes :
          /\ ~Configuring(call[q]) /\ ~Manifesting(call[q])
          /\ ~Renewing(call[q]) /\ ~Rewriting(call[q])
    BY <2>1 DEF Configuring, Manifesting, Renewing, Rewriting
  <2>3. Grown(machine', identity, config, manifest, Replaced)
    BY <2>2 DEF AgreeInv, Grown, Completed
  <2>4. \A q \in Processes : Agreeing(call'[q], machine', identity, config, manifest, Replaced)
    BY <2>1, IdleAgrees
  <2>. QED BY <1>1, <1>2, <1>5, <2>3, <2>4 DEF AgreeInv
<1>. QED BY <1>6, <1>7

LEMMA StepAgree ==
    ASSUME TypeInv, AgreeInv, [Next]_vars
    PROVE  AgreeInv'
<1>. SUFFICES ASSUME faults' = 0 PROVE AgreeInv'
  BY DEF AgreeInv
<1>1. ASSUME NEW p \in Processes, Failure(p) PROVE FALSE
  BY <1>1 DEF Failure, Fail, RestoreIdentity, StopUnaudited, Fault, TypeInv, FilesTyped
<1>2. ASSUME NEW p \in Processes, NEW kind \in Kinds, Begin(p, kind) PROVE AgreeInv'
  BY <1>2, BeginAgree DEF Begin
<1>3. ASSUME NEW p \in Processes, StartStep(p) \/ StopStep(p) \/ RestartStep(p) PROVE AgreeInv'
  <2>1. faults = 0
    BY <1>3 DEF StartStep, Preload, Compare, NameCopy, Quarantine, SaveIdentity, ReadResets,
         WriteResets, LoadIdentity, ReadCreator, CheckConfig, WriteConfig, CheckManifest,
         WriteManifest, LoadManifest, UpgradeManifest, CreateReceipt, CreateLineage, Log,
         StopStep, StopLog, StopLoad, StopWork, StopState, StopAudit, StopAppend,
         RestartStep, RestartRead, RestartReceipt, bounds
  <2>. QED BY <1>3, <2>1, ResetAgree, LoadAgree, ConfigAgree, WriteConfigAgree, ManifestAgree,
              EvidenceAgree, UpgradeAgree, OtherAgree DEF StartStep
<1>4. CASE Environment
  <2>1. faults = 0
    BY <1>4 DEF Environment, Submit, Complete, Tick, Move, bounds
  <2>. QED BY <1>4, <2>1, EnvironmentAgree
<1>5. CASE UNCHANGED vars
  <2>1. /\ UNCHANGED <<machine, identity, config, manifest, call, faults>> /\ Replaced' = Replaced
    BY <1>5 DEF vars, env, history, identityFiles, resetFiles, bounds, Replaced, NodesOf
  <2>. QED BY <2>1 DEF AgreeInv, Completed
<1>. QED BY <1>1, <1>2, <1>3, <1>4, <1>5 DEF Next

(* A directory has had an identity if and only if it has one.              *)
OriginInv == origin = None <=> identity = None

LEMMA OriginStep == TypeInv /\ OriginInv /\ [Next]_vars => OriginInv'
<1>. SUFFICES ASSUME TypeInv, OriginInv, [Next]_vars PROVE OriginInv'
  OBVIOUS
<1>. USE NodeAssumption DEF NodeAssumption
<1>1. machine \in Nodes /\ None \notin Nodes
  BY DEF TypeInv, FilesTyped
<1>2. ASSUME NEW p \in Processes, LoadIdentity(p) PROVE OriginInv'
  BY <1>1, <1>2 DEF LoadIdentity, NewIdentity, OriginInv
<1>3. ASSUME NEW p \in Processes, SaveIdentity(p) PROVE OriginInv'
  <2>1. identity # None
    BY <1>3 DEF SaveIdentity, At, TypeInv, Shaped, Shape
  <2>. QED BY <1>1, <1>3, <2>1 DEF SaveIdentity, NewIdentity, OriginInv, history
<1>4. ASSUME NEW p \in Processes, RestoreIdentity(p) PROVE OriginInv'
  <2>1. identity # None
    BY <1>4 DEF RestoreIdentity, TypeInv, Shaped, Shape
  <2>2. identity' \in Nodes
    BY <1>4 DEF RestoreIdentity, NodesOf, CopiedTo, TypeInv, FilesTyped, Backups
  <2>. QED BY <1>1, <1>4, <2>1, <2>2 DEF RestoreIdentity, OriginInv
<1>5. ASSUME UNCHANGED <<identity, origin>> PROVE OriginInv'
  BY <1>5 DEF OriginInv
<1>6. ASSUME NEW p \in Processes, StartStep(p) \/ StopStep(p) \/ RestartStep(p),
             ~LoadIdentity(p), ~SaveIdentity(p)
      PROVE  UNCHANGED <<identity, origin>>
  BY <1>6 DEF StartStep, Preload, Compare, NameCopy, Quarantine, ReadResets,
       WriteResets, ReadCreator, CheckConfig, WriteConfig, CheckManifest,
       WriteManifest, LoadManifest, UpgradeManifest, CreateReceipt, CreateLineage, Log,
       StopStep, StopLog, StopLoad, StopWork, StopState, StopAudit, StopAppend,
       RestartStep, RestartRead, RestartReceipt, identityFiles, history
<1>7. ASSUME NEW p \in Processes, Fail(p) \/ StopUnaudited(p) \/ \E kind \in Kinds : Begin(p, kind)
      PROVE  UNCHANGED <<identity, origin>>
  BY <1>7 DEF Fail, StopUnaudited, Begin, identityFiles, history
<1>8. Environment \/ UNCHANGED vars => UNCHANGED <<identity, origin>>
  BY DEF Environment, Submit, Complete, Tick, Move, vars, identityFiles, history
<1>. QED BY <1>2, <1>3, <1>4, <1>5, <1>6, <1>7, <1>8 DEF Next, Failure

LEMMA InitOrigin == Init => OriginInv
BY NodeAssumption DEF NodeAssumption, Init, Empty, Started, OriginInv

(* When every command has run to its end and none failed, a directory that *)
(* has been started can be started again, whatever overlapped and however  *)
(* often it was reset and moved, at least by a start that resets it; one   *)
(* that has not names no node and is refused for logs and work alone.      *)
THEOREM NodeStaysStartable == Spec => []CommandsLeaveStartable
<1>1. TypeInv /\ OriginInv /\ AgreeInv => CommandsLeaveStartable
  <2>. SUFFICES ASSUME TypeInv, OriginInv, AgreeInv, Idle, faults = 0
                PROVE  IF origin = None
                       THEN /\ config = None /\ identity = None /\ manifest = None
                            /\ ~stray /\ open = {} => Startable("start")
                       ELSE /\ Startable("reset")
                            /\ \/ Startable("start")
                               \/ ~Inspection.matches /\ manifest.node \in Replaced
    BY Zenon DEF CommandsLeaveStartable
  <2>1. Grown(machine, identity, config, manifest, Replaced) /\ Completed
    BY DEF AgreeInv
  <2>2. \A q \in Processes : /\ ~Configuring(call[q]) /\ ~Manifesting(call[q])
                             /\ ~Renewing(call[q]) /\ ~Rewriting(call[q])
    BY DEF Idle, At, Configuring, Manifesting, Renewing, Rewriting
  <2>3. CASE origin = None
    <3>1. identity = None /\ config = None /\ manifest = None
      BY <2>1, <2>3 DEF OriginInv, Grown
    <3>. QED BY <2>3, <3>1 DEF Startable, Artifacts
  <2>4. CASE origin # None
    <3>0. identity # None /\ config # None
      BY <2>1, <2>2, <2>4 DEF OriginInv, Completed
    <3>1. manifest # None /\ identity = config
      BY <2>1, <2>2, <3>0 DEF Completed
    <3>2. \/ manifest.node = config /\ manifest.adverts \in {config, None}
          \/ manifest.node \in Replaced \ {identity}
      BY <2>1, <2>2, <3>1 DEF Completed
    <3>3. manifest \in Manifests
      BY <3>1 DEF TypeInv, FilesTyped, Maybe
    <3>4. Startable("reset")
      BY <3>0, <3>1 DEF Startable
    <3>5. CASE manifest.node = config /\ manifest.adverts \in {config, None}
      <4>1. manifest \in [node : {config}, adverts : {config, None}]
        BY <3>3, <3>5 DEF Manifests
      <4>. QED BY <2>4, <3>0, <3>1, <3>4, <4>1 DEF Startable
    <3>6. CASE manifest.node \in Replaced \ {identity}
      <4>1. ~Inspection.matches
        BY <3>6 DEF Inspection
      <4>. QED BY <2>4, <3>4, <3>6, <4>1
    <3>. QED BY <3>2, <3>5, <3>6
  <2>. QED BY <2>3, <2>4
<1>. QED BY <1>1, NodeTypeInv, InitOrigin, OriginStep, InitAgree, StepAgree, PTL DEF Spec
=============================================================================
