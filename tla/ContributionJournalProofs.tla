----------------------- MODULE ContributionJournalProofs -----------------------
(***************************************************************************)
(* Proofs about ContributionJournal for any processes, contributions,      *)
(* manifests and bounds: the journal's safety properties, and that it      *)
(* implements ContributionLog.                                             *)
(***************************************************************************)
EXTENDS ContributionJournalProperties, SequenceTheorems, TLAPS

USE JournalAssumption, TornIsNoEntry DEF JournalAssumption

Holding == {"load", "append", "auditKnown"}

(* One call at a time is between load and append, so what it read of the   *)
(* journal still holds when it writes.                                     *)
LockInv == \A p \in Processes : call[p].pc \in Holding => lock = p

(* Entries are unique and accepted; an unended line is there because of a  *)
(* failure.                                                                *)
LinesInv ==
    /\ DamageIsLast
    /\ \A i, j \in DOMAIN lines :
          /\ lines[i] # Torn => Verdict[lines[i].contribution] = "accepted"
          /\ lines[i] # Torn /\ lines[j] # Torn
             /\ Manifest[lines[i].contribution] = Manifest[lines[j].contribution] => i = j
    /\ ended \/ (lines # <<>> /\ faults > 0)
    /\ faults = 0 => Loads

(* What a call knows of the journal at each step.                          *)
CallInv(p) ==
    /\ call[p].pc = "append" => /\ Loads /\ ~Found(Manifested(p))
                                /\ call[p].chain = Chain(Len(lines))
    /\ call[p].pc = "auditKnown" => Loads /\ Found(Manifested(p))
    /\ call[p].pc = "auditRecorded" => (Loads => Found(Manifested(p)))
    /\ call[p].pc = "auditFailure" => call[p].outcome \in {"rejected", "validation_failed"}

(* What was returned or audited as recorded is in a journal that loads, so *)
(* no other call gets past the search with the same manifest.              *)
AuditInv ==
    /\ Loads => \A m \in returned : Found(m)
    /\ RecordedAuditedOnce
    /\ \A p, q \in Processes :
          call[p].pc = "auditRecorded" /\ call[q].pc = "auditRecorded"
          /\ Manifested(p) = Manifested(q) => p = q
    /\ \A p \in Processes, a \in audit :
          call[p].pc = "auditRecorded" /\ a.outcome = "recorded" =>
              Manifest[a.contribution] # Manifested(p)

JournalInv ==
    TypeOK /\ LockInv /\ LinesInv /\ (\A p \in Processes : CallInv(p)) /\ AuditInv

-----------------------------------------------------------------------------
(* Types. *)

LEMMA EntryTyped ==
    ASSUME TypeOK, NEW p \in Processes, call[p].pc = "append"
    PROVE  Entry(p) \in Entries /\ Entry(p) # Torn
BY DEF TypeOK, Entry, Entries, Calls

LEMMA WrittenTyped ==
    ASSUME TypeOK, NEW line \in Entries \cup {Torn}
    PROVE  Written(line) \in Seq(Entries \cup {Torn})
BY DEF TypeOK, Written

LEMMA ChainTyped ==
    ASSUME TypeOK, Loads
    PROVE  Chain(Len(lines)) \in Seq(Contributions)
<1>1. lines \in Seq(Entries \cup {Torn}) /\ Len(lines) \in Nat
  BY DEF TypeOK
<1>2. \A i \in 1..Len(lines) : lines[i].contribution \in Contributions
  BY <1>1 DEF Loads, Entries
<1>. QED BY <1>1, <1>2 DEF Chain

(* The parts of TypeOK that concern calls. *)
CallTypes ==
    /\ call \in [Processes -> Calls]
    /\ \A p \in Processes : call[p].pc # "idle" => call[p].contribution \in Contributions
    /\ \A p \in Processes :
          call[p].pc \in Accepted => Verdict[call[p].contribution] = "accepted"

LEMMA NoCallTyped == NoCall \in Calls /\ NoCall.pc = "idle"
BY DEF NoCall, Calls, Steps, Outcomes

(* Calls stay typed when one is replaced by a typed record.                *)
LEMMA FieldsTyped ==
    ASSUME NEW r \in Calls, NEW to \in Steps, NEW o \in Outcomes, NEW s \in Seq(Contributions),
           NEW c \in Contributions, NEW n \in Nat
    PROVE  /\ [r EXCEPT !.pc = to] \in Calls
           /\ [r EXCEPT !.pc = to, !.outcome = o] \in Calls
           /\ [r EXCEPT !.pc = to, !.chain = s] \in Calls
           /\ [r EXCEPT !.pc = to, !.contribution = c, !.attempt = n] \in Calls
BY DEF Calls

LEMMA ReplacedTyped ==
    ASSUME TypeOK, NEW p \in Processes, NEW r \in Calls, call' = [call EXCEPT ![p] = r],
           r.pc # "idle" => r.contribution \in Contributions,
           r.pc \in Accepted => Verdict[r.contribution] = "accepted"
    PROVE  CallTypes'
BY DEF TypeOK, CallTypes

LEMMA EndTyped ==
    ASSUME TypeOK, NEW p \in Processes, End(p)
    PROVE  CallTypes'
BY NoCallTyped, ReplacedTyped DEF End, Accepted

LEMMA RefuseTyped ==
    ASSUME TypeOK, NEW p \in Processes, NEW outcome \in Outcomes, call[p].pc # "idle",
           Refuse(p, outcome)
    PROVE  CallTypes' /\ lock' \in Processes \cup {None}
<1>. DEFINE r == [call[p] EXCEPT !.pc = "auditFailure", !.outcome = outcome]
<1>1. call[p] \in Calls /\ <<>> \in Seq(Contributions) /\ "auditFailure" \in Steps
  BY DEF TypeOK, Steps
<1>5. call[p].contribution \in Contributions /\ 0 \in Nat
  BY DEF TypeOK
<1>2. r \in Calls
  BY <1>1, <1>5, FieldsTyped
<1>3. call' = [call EXCEPT ![p] = r]
  BY DEF Refuse
<1>4. r.pc = "auditFailure" /\ r.contribution = call[p].contribution
  BY <1>1 DEF Calls
<1>6. CallTypes'
  <2>. HIDE DEF r
  <2>. QED BY <1>2, <1>3, <1>4, <1>5, ReplacedTyped DEF Accepted
<1>. QED BY <1>6 DEF Refuse, Release, TypeOK

LEMMA GoTyped ==
    ASSUME TypeOK, NEW p \in Processes, NEW to \in Steps, Go(p, to), call[p].pc # "idle",
           to \in Accepted => Verdict[call[p].contribution] = "accepted"
    PROVE  CallTypes'
<1>. DEFINE r == [call[p] EXCEPT !.pc = to]
<1>0. call[p] \in Calls /\ call[p].contribution \in Contributions
      /\ call[p].outcome \in Outcomes /\ call[p].chain \in Seq(Contributions)
      /\ call[p].attempt \in Nat
  BY DEF TypeOK, Calls
<1>1. r \in Calls
  BY <1>0, FieldsTyped
<1>4. r.pc = to /\ r.contribution = call[p].contribution
  BY <1>0 DEF Calls
<1>2. call' = [call EXCEPT ![p] = r]
  BY DEF Go
<1>3. call[p].contribution \in Contributions
  BY DEF TypeOK
<1>. QED BY <1>1, <1>2, <1>3, <1>4, ReplacedTyped

LEMMA ReleaseTyped ==
    ASSUME TypeOK, NEW p \in Processes, Release(p)
    PROVE  lock' \in Processes \cup {None}
BY DEF TypeOK, Release

LEMMA LogTyped ==
    ASSUME TypeOK, NEW p \in Processes, call[p].pc # "idle", NEW outcome \in Outcomes,
           Log(p, outcome)
    PROVE  audit' \subseteq AuditLines
BY DEF TypeOK, Log, AuditLines, Calls

LEMMA ManifestedTyped ==
    ASSUME TypeOK, NEW p \in Processes, call[p].pc # "idle"
    PROVE  Manifested(p) \in Manifests
BY DEF TypeOK, Manifested

LEMMA InitTyped == Init => TypeOK
BY NoCallTyped DEF Init, TypeOK, Accepted

LEMMA StepTyped ==
    ASSUME TypeOK, NEW p \in Processes, Step(p)
    PROVE  TypeOK'
<1>. USE DEF TypeOK
<1>1. CASE Validate(p)
  <2>. USE <1>1 DEF Validate, journal
  <2>1. CASE Verdict[call[p].contribution] = "accepted"
    <3>1. CallTypes'
      BY <2>1, GoTyped DEF Steps, Accepted, Verdicts
    <3>2. UNCHANGED lock
      BY <2>1 DEF Verdicts
    <3>. QED BY <3>1, <3>2 DEF CallTypes
  <2>2. CASE Verdict[call[p].contribution] # "accepted"
    <3>1. \E outcome \in {"rejected", "validation_failed"} : Refuse(p, outcome)
      BY <2>2 DEF Verdicts
    <3>2. CallTypes' /\ lock' \in Processes \cup {None}
      BY <3>1, RefuseTyped DEF Outcomes
    <3>. QED BY <3>2 DEF CallTypes
  <2>. QED BY <2>1, <2>2
<1>2. CASE Acquire(p)
  <2>1. CallTypes'
    BY <1>2, GoTyped DEF Acquire, Steps, Accepted
  <2>. QED BY <1>2, <2>1 DEF Acquire, journal, CallTypes
<1>3. CASE Load(p)
  <2>. USE <1>3 DEF Load, journal
  <2>1. CASE ~Loads
    <3>1. CallTypes' /\ lock' \in Processes \cup {None}
      BY <2>1, RefuseTyped DEF Outcomes
    <3>. QED BY <3>1 DEF CallTypes
  <2>2. CASE Loads /\ Found(Manifested(p))
    <3>1. CallTypes'
      BY <2>2, GoTyped DEF Steps, Accepted
    <3>. QED BY <2>2, <3>1 DEF CallTypes
  <2>3. CASE Loads /\ ~Found(Manifested(p))
    <3>. DEFINE r == [call[p] EXCEPT !.pc = "append", !.chain = Chain(Len(lines))]
    <3>2. call[p] \in Calls /\ call[p].contribution \in Contributions
          /\ Verdict[call[p].contribution] = "accepted"
      BY DEF Accepted
    <3>3. r \in Calls /\ r.contribution = call[p].contribution
      BY <2>3, <3>2, ChainTyped DEF Calls, Steps
    <3>4. call' = [call EXCEPT ![p] = r]
      BY <2>3
    <3>1. CallTypes'
      BY <3>2, <3>3, <3>4, ReplacedTyped
    <3>. QED BY <2>3, <3>1 DEF CallTypes
  <2>. QED BY <2>1, <2>2, <2>3
<1>4. CASE AppendEntry(p)
  <2>1. CallTypes'
    BY <1>4, GoTyped DEF AppendEntry, Steps, Accepted
  <2>2. lines' \in Seq(Entries \cup {Torn}) /\ lock' \in Processes \cup {None}
    BY <1>4, EntryTyped, WrittenTyped, ReleaseTyped DEF AppendEntry
  <2>. QED BY <1>4, <2>1, <2>2 DEF AppendEntry, CallTypes
<1>5. CASE AuditRecorded(p)
  <2>1. CallTypes' /\ audit' \subseteq AuditLines /\ returned' \subseteq Manifests
    BY <1>5, EndTyped, LogTyped, ManifestedTyped DEF AuditRecorded, Return, Outcomes
  <2>. QED BY <1>5, <2>1 DEF AuditRecorded, journal, CallTypes
<1>6. CASE AuditKnown(p)
  <2>1. CallTypes' /\ audit' \subseteq AuditLines /\ returned' \subseteq Manifests
        /\ lock' \in Processes \cup {None}
    BY <1>6, EndTyped, LogTyped, ManifestedTyped, ReleaseTyped DEF AuditKnown, Return, Outcomes
  <2>. QED BY <1>6, <2>1 DEF AuditKnown, journal, CallTypes
<1>7. CASE AuditFailure(p)
  <2>1. call[p].outcome \in Outcomes
    BY DEF Calls
  <2>2. CallTypes' /\ audit' \subseteq AuditLines
    BY <1>7, <2>1, EndTyped, LogTyped DEF AuditFailure
  <2>. QED BY <1>7, <2>2 DEF AuditFailure, journal, CallTypes
<1>. QED BY <1>1, <1>2, <1>3, <1>4, <1>5, <1>6, <1>7 DEF Step

LEMMA FailureTyped ==
    ASSUME TypeOK, NEW p \in Processes, Failure(p)
    PROVE  TypeOK'
<1>. USE DEF TypeOK
<1>1. CASE AppendCut(p)
  <2>1. CallTypes' /\ lock' \in Processes \cup {None}
    BY <1>1, RefuseTyped, EndTyped, ReleaseTyped DEF AppendCut, Outcomes
  <2>2. lines' \in Seq(Entries \cup {Torn})
    BY <1>1, EntryTyped, WrittenTyped DEF AppendCut
  <2>3. ended' = FALSE /\ faults' \in 0..MaxFaults /\ UNCHANGED <<audit, returned, attempts>>
    BY <1>1 DEF AppendCut, Fault
  <2>. QED BY <2>1, <2>2, <2>3 DEF CallTypes
<1>2. CASE OperationFails(p)
  <2>1. CallTypes' /\ lock' \in Processes \cup {None}
    BY <1>2, RefuseTyped, EndTyped DEF OperationFails, Outcomes
  <2>. QED BY <1>2, <2>1 DEF OperationFails, Fault, journal, CallTypes
<1>3. CASE AuditFails(p)
  <2>1. call[p].pc # "idle"
    BY <1>3 DEF AuditFails
  <2>2. CallTypes' /\ lock' \in Processes \cup {None}
    BY <1>3, <2>1, RefuseTyped, EndTyped DEF AuditFails, Outcomes
  <2>3. audit' \subseteq AuditLines
    BY <1>3, <2>1, LogTyped DEF AuditFails
  <2>. QED BY <1>3, <2>2, <2>3 DEF AuditFails, Fault, journal, CallTypes
<1>4. CASE Die(p)
  <2>1. CallTypes' /\ lock' \in Processes \cup {None}
    BY <1>4, EndTyped, ReleaseTyped DEF Die
  <2>. QED BY <1>4, <2>1 DEF Die, Fault, journal, CallTypes
<1>. QED BY <1>1, <1>2, <1>3, <1>4 DEF Failure

LEMMA NextTyped == TypeOK /\ [Next]_vars => TypeOK'
<1>. SUFFICES ASSUME TypeOK, [Next]_vars PROVE TypeOK'
  OBVIOUS
<1>1. ASSUME NEW p \in Processes, NEW c \in Contributions, Begin(p, c) PROVE TypeOK'
  <2>. USE <1>1 DEF Begin
  <2>. DEFINE new == [NoCall EXCEPT !.pc = "validate", !.contribution = c,
                                    !.attempt = attempts + 1]
  <2>1. new \in Calls /\ new.pc = "validate" /\ new.contribution = c
    <3>1. NoCall \in Calls /\ attempts + 1 \in Nat /\ <<>> \in Seq(Contributions)
          /\ "validate" \in Steps /\ "recorded" \in Outcomes
      BY NoCallTyped DEF TypeOK, Steps, Outcomes
    <3>2. new \in Calls
      BY <3>1, FieldsTyped
    <3>. QED BY <3>1, <3>2 DEF Calls
  <2>2. CallTypes'
    <3>1. call' = [call EXCEPT ![p] = new]
      OBVIOUS
    <3>. HIDE DEF new
    <3>. QED BY <2>1, <3>1, ReplacedTyped DEF Accepted
  <2>. QED BY <2>2 DEF TypeOK, CallTypes, journal
<1>2. CASE UNCHANGED vars
  BY <1>2 DEF TypeOK, vars, journal
<1>. QED BY <1>1, <1>2, StepTyped, FailureTyped DEF Next, Finished

(* Whatever fails and however calls overlap, files, lock and calls keep    *)
(* their shape, and only calls with accepted evidence touch the journal.   *)
THEOREM JournalTypeCorrect == Spec => []TypeOK
BY InitTyped, NextTyped, PTL DEF Spec

-----------------------------------------------------------------------------
(* What a write does to the journal. *)

(* A whole write appends the entry; any other leaves the journal unreadable *)
(* from its last line on and the entries before it as they were.            *)
Grown(p) ==
    /\ Loads' /\ DamageIsLast'
    /\ Len(lines') = Len(lines) + 1 /\ lines'[Len(lines) + 1] = Entry(p)
    /\ \A i \in DOMAIN lines : lines'[i] = lines[i]
Ruined ==
    /\ ~Loads' /\ DamageIsLast' /\ lines' # <<>>
    /\ \A i \in DOMAIN lines' : lines'[i] # Torn => i \in DOMAIN lines /\ lines'[i] = lines[i]

LEMMA WholeWrite ==
    ASSUME TypeOK, Loads, NEW p \in Processes, call[p].pc = "append",
           call[p].chain = Chain(Len(lines)), lines' = Append(lines, Entry(p))
    PROVE  Grown(p)
<1>. DEFINE n == Len(lines)
<1>1. lines \in Seq(Entries \cup {Torn}) /\ n \in Nat /\ DOMAIN lines = 1..n
  BY DEF TypeOK
<1>2. Entry(p) \in Entries /\ Entry(p) # Torn
  BY EntryTyped
<1>3. Len(lines') = n + 1 /\ lines'[n + 1] = Entry(p) /\ DOMAIN lines' = 1..(n + 1)
      /\ \A i \in 1..n : lines'[i] = lines[i]
  BY <1>1, <1>2
<1>4. \A k \in 0..n : Chain(k)' = Chain(k)
  BY <1>1, <1>3 DEF Chain
<1>5. \A i \in 1..(n + 1) : lines'[i] # Torn /\ lines'[i].prior = Chain(i - 1)'
  <2>. TAKE i \in 1..(n + 1)
  <2>1. CASE i = n + 1
    <3>1. i - 1 = n
      BY <1>1, <2>1
    <3>2. Entry(p).prior = Chain(i - 1)
      BY <3>1 DEF Entry
    <3>3. Chain(i - 1)' = Chain(i - 1)
      BY <1>1, <1>4, <3>1
    <3>4. lines'[i] = Entry(p)
      BY <1>3, <2>1
    <3>. QED BY <1>2, <3>2, <3>3, <3>4
  <2>2. CASE i # n + 1
    <3>1. i \in 1..n /\ i - 1 \in 0..n
      BY <1>1, <2>2
    <3>2. lines[i] # Torn /\ lines[i].prior = Chain(i - 1)
      BY <1>1, <3>1 DEF Loads
    <3>3. lines'[i] = lines[i] /\ Chain(i - 1)' = Chain(i - 1)
      BY <1>3, <1>4, <3>1
    <3>. QED BY <3>2, <3>3
  <2>. QED BY <2>1, <2>2
<1>6. Loads' /\ DamageIsLast'
  BY <1>3, <1>5 DEF Loads, DamageIsLast
<1>. QED BY <1>1, <1>3, <1>6 DEF Grown

LEMMA FragmentWrite ==
    ASSUME TypeOK, Loads, lines' = Append(lines, Torn)
    PROVE  Ruined
<1>. DEFINE n == Len(lines)
<1>1. lines \in Seq(Entries \cup {Torn}) /\ n \in Nat /\ DOMAIN lines = 1..n
  BY DEF TypeOK
<1>2. Len(lines') = n + 1 /\ lines'[n + 1] = Torn /\ DOMAIN lines' = 1..(n + 1)
      /\ \A i \in 1..n : lines'[i] = lines[i]
  BY <1>1
<1>3. \A k \in 0..n : Chain(k)' = Chain(k)
  BY <1>1, <1>2 DEF Chain
<1>4. \A i \in 1..n : lines'[i] # Torn /\ lines'[i].prior = Chain(i - 1)'
  BY <1>1, <1>2, <1>3 DEF Loads
<1>5. DamageIsLast'
  BY <1>1, <1>2, <1>4 DEF DamageIsLast
<1>6. ~Loads' /\ lines' # <<>>
  BY <1>1, <1>2 DEF Loads
<1>. QED BY <1>1, <1>2, <1>5, <1>6 DEF Ruined

LEMMA LastReplaced ==
    ASSUME NEW S, NEW s \in Seq(S), s # <<>>, NEW x \in S
    PROVE  /\ [s EXCEPT ![Len(s)] = x] \in Seq(S)
           /\ Len([s EXCEPT ![Len(s)] = x]) = Len(s)
           /\ \A i \in 1..Len(s) :
                 [s EXCEPT ![Len(s)] = x][i] = IF i = Len(s) THEN x ELSE s[i]
<1>1. Len(s) \in 1..Len(s)
  OBVIOUS
<1>. QED BY <1>1, ExceptSeq

LEMMA RunOn ==
    ASSUME TypeOK, Loads, lines # <<>>,
           lines' \in Seq(Entries \cup {Torn}), Len(lines') = Len(lines),
           \A i \in 1..Len(lines) : lines'[i] = IF i = Len(lines) THEN Torn ELSE lines[i]
    PROVE  Ruined
<1>. DEFINE n == Len(lines)
<1>1. lines \in Seq(Entries \cup {Torn}) /\ n \in Nat /\ DOMAIN lines = 1..n /\ n # 0
  BY DEF TypeOK
<1>2. lines'[n] = Torn /\ DOMAIN lines' = 1..n
      /\ \A i \in 1..(n - 1) : lines'[i] = lines[i]
  BY <1>1
<1>3. \A k \in 0..(n - 1) : Chain(k)' = Chain(k)
  <2>. TAKE k \in 0..(n - 1)
  <2>1. \A i \in 1..k : i \in 1..(n - 1)
    BY <1>1
  <2>2. \A i \in 1..k : lines'[i] = lines[i]
    BY <1>2, <2>1
  <2>. QED BY <2>2, Zenon DEF Chain
<1>4. \A i \in 1..(n - 1) : lines'[i] # Torn /\ lines'[i].prior = Chain(i - 1)'
  <2>. TAKE i \in 1..(n - 1)
  <2>1. i \in DOMAIN lines /\ i - 1 \in 0..(n - 1)
    BY <1>1
  <2>2. lines'[i] = lines[i] /\ Chain(i - 1)' = Chain(i - 1)
    BY <1>2, <1>3, <2>1
  <2>. QED BY <2>1, <2>2 DEF Loads
<1>5. \A i \in 1..n : i = n \/ i \in 1..(n - 1)
  BY <1>1
<1>6. DamageIsLast'
  BY <1>2, <1>4, <1>5, Zenon DEF DamageIsLast
<1>7. lines'[n] = Torn /\ n \in DOMAIN lines'
  <2>1. n \in 1..n
    BY <1>1
  <2>. QED BY <1>2, <2>1, Zenon
<1>8. ~Loads' /\ lines' # <<>>
  BY <1>7 DEF Loads
<1>. QED BY <1>1, <1>2, <1>5, <1>4, <1>6, <1>8 DEF Ruined

LEMMA WriteOutcome ==
    ASSUME TypeOK, LinesInv, NEW p \in Processes, CallInv(p), call[p].pc = "append",
           NEW text \in {Entry(p), Torn}, lines' = Written(text)
    PROVE  (ended /\ text = Entry(p) /\ Grown(p)) \/ ((~ended \/ text = Torn) /\ Ruined)
<1>1. Loads /\ call[p].chain = Chain(Len(lines))
  BY DEF CallInv
<1>2. CASE ~ended
  <2>1. lines \in Seq(Entries \cup {Torn}) /\ lines # <<>>
    BY <1>2 DEF TypeOK, LinesInv
  <2>2. lines' = [lines EXCEPT ![Len(lines)] = Torn]
    BY <1>2 DEF Written
  <2>3. /\ lines' \in Seq(Entries \cup {Torn}) /\ Len(lines') = Len(lines)
        /\ \A i \in 1..Len(lines) : lines'[i] = IF i = Len(lines) THEN Torn ELSE lines[i]
    <3>1. Torn \in Entries \cup {Torn}
      OBVIOUS
    <3>. DEFINE t == [lines EXCEPT ![Len(lines)] = Torn]
    <3>2. /\ t \in Seq(Entries \cup {Torn}) /\ Len(t) = Len(lines)
          /\ \A i \in 1..Len(lines) : t[i] = IF i = Len(lines) THEN Torn ELSE lines[i]
      BY <2>1, <3>1, LastReplaced
    <3>3. lines' = t
      BY <2>2
    <3>. HIDE DEF t
    <3>. QED BY <3>2, <3>3, Zenon
  <2>. QED BY <1>1, <1>2, <2>1, <2>3, RunOn
<1>3. CASE ended /\ text = Torn
  BY <1>1, <1>3, FragmentWrite DEF Written
<1>4. CASE ended /\ text = Entry(p)
  BY <1>1, <1>4, WholeWrite DEF Written
<1>. QED BY <1>2, <1>3, <1>4

(* In either case the entries stay unique, and manifests known to a        *)
(* journal that loads stay known.                                          *)
LEMMA WriteKeepsEntries ==
    ASSUME TypeOK, LinesInv, NEW p \in Processes, CallInv(p), call[p].pc = "append",
           Grown(p) \/ Ruined
    PROVE  /\ \A i, j \in DOMAIN lines' :
                 /\ lines'[i] # Torn => Verdict[lines'[i].contribution] = "accepted"
                 /\ lines'[i] # Torn /\ lines'[j] # Torn
                    /\ Manifest[lines'[i].contribution] = Manifest[lines'[j].contribution]
                    => i = j
           /\ Loads' => /\ \E i \in DOMAIN lines' : lines'[i] # Torn
                              /\ Manifest[lines'[i].contribution] = Manifested(p)
                        /\ \A m : Found(m) => Found(m)'
<1>. DEFINE n == Len(lines)
<1>1. lines \in Seq(Entries \cup {Torn}) /\ n \in Nat /\ DOMAIN lines = 1..n
  BY DEF TypeOK
<1>2. CASE Ruined
  BY <1>2 DEF Ruined, LinesInv
<1>3. CASE Grown(p)
  <2>1. Len(lines') = n + 1 /\ lines'[n + 1] = Entry(p) /\ Loads'
        /\ \A i \in 1..n : lines'[i] = lines[i]
    BY <1>1, <1>3 DEF Grown
  <2>2. DOMAIN lines' = 1..(n + 1)
    BY <2>1 DEF Grown
  <2>3. Entry(p) # Torn /\ Entry(p).contribution = call[p].contribution
        /\ Verdict[call[p].contribution] = "accepted"
    BY EntryTyped DEF Entry, TypeOK, Accepted
  <2>4. \A i \in 1..n : lines[i] # Torn => Manifest[lines[i].contribution] # Manifested(p)
    BY <1>1 DEF CallInv, Found
  <2>. QED BY <1>1, <2>1, <2>2, <2>3, <2>4 DEF LinesInv, Found, Manifested
<1>. QED BY <1>2, <1>3

-----------------------------------------------------------------------------
(* How the parts of the invariant survive a step of one call.              *)

LEMMA ManifestedBy ==
    ASSUME NEW p
    PROVE  Manifested(p)' = Manifest[call'[p].contribution]
BY DEF Manifested

LEMMA Others ==
    ASSUME TypeOK, NEW p \in Processes, NEW r, call' = [call EXCEPT ![p] = r]
    PROVE  call'[p] = r /\ \A q \in Processes : q # p => call'[q] = call[q]
BY DEF TypeOK

LEMMA LockStep ==
    ASSUME TypeOK, LockInv, NEW p \in Processes,
           \A q \in Processes : q # p => call'[q] = call[q],
           call'[p].pc \in Holding => lock' = p,
           lock' = lock \/ lock = None \/ lock = p
    PROVE  LockInv'
BY DEF TypeOK, LockInv

LEMMA LinesStep ==
    ASSUME LinesInv, TypeOK, UNCHANGED <<lines, ended>>, faults' \in {faults, faults + 1}
    PROVE  LinesInv'
<1>1. faults \in Nat /\ (faults' = 0 => faults = 0) /\ (faults > 0 => faults' > 0)
  BY DEF TypeOK
<1>2. Loads' = Loads /\ DamageIsLast' = DamageIsLast
  BY DEF Loads, DamageIsLast, Chain
<1>. QED BY <1>1, <1>2 DEF LinesInv

LEMMA CallStep ==
    ASSUME TypeOK, \A q \in Processes : CallInv(q), UNCHANGED lines, NEW p \in Processes,
           \A q \in Processes : q # p => call'[q] = call[q], CallInv(p)'
    PROVE  \A q \in Processes : CallInv(q)'
<1>1. ASSUME NEW q \in Processes, q # p PROVE CallInv(q)'
  <2>1. call'[q] = call[q] /\ Manifested(q)' = Manifested(q)
    BY <1>1 DEF Manifested
  <2>2. Loads' = Loads /\ (\A m : Found(m)' = Found(m)) /\ Chain(Len(lines))' = Chain(Len(lines))
    BY DEF Loads, Found, Chain
  <2>3. Found(Manifested(q))' = Found(Manifested(q))
    BY <2>1 DEF Found
  <2>4. CallInv(q)
    OBVIOUS
  <2>. QED BY <2>1, <2>2, <2>3, <2>4 DEF CallInv
<1>. QED BY <1>1

LEMMA AuditStep ==
    ASSUME TypeOK, AuditInv, UNCHANGED <<lines, audit, returned>>, NEW p \in Processes,
           \A q \in Processes : q # p => call'[q] = call[q],
           call'[p].pc # "auditRecorded"
    PROVE  AuditInv'
<1>1. \A q \in Processes : q # p => Manifested(q)' = Manifested(q)
  BY DEF Manifested
<1>2. Loads' = Loads /\ \A m : Found(m)' = Found(m)
  BY DEF Loads, Found, Chain
<1>3. (Loads => \A m \in returned : Found(m))' /\ RecordedAuditedOnce'
  BY <1>2 DEF AuditInv, RecordedAuditedOnce, Found
<1>. QED BY <1>1, <1>3 DEF AuditInv

(* A call that leaves journal and audit alone and does not go to audit a   *)
(* new entry.                                                              *)
LEMMA QuietStep ==
    ASSUME JournalInv, NEW p \in Processes, NEW r, call' = [call EXCEPT ![p] = r],
           UNCHANGED <<journal, audit, returned>>, faults' \in {faults, faults + 1},
           r.pc \in Holding => lock' = p,
           lock' = lock \/ lock = None \/ lock = p,
           r.pc # "auditRecorded", CallInv(p)'
    PROVE  LockInv' /\ LinesInv' /\ (\A q \in Processes : CallInv(q)') /\ AuditInv'
<1>. USE DEF JournalInv
<1>1. call'[p] = r /\ \A q \in Processes : q # p => call'[q] = call[q]
  BY Others
<1>2. LockInv'
  BY <1>1, LockStep
<1>3. LinesInv'
  BY LinesStep DEF journal
<1>4. \A q \in Processes : CallInv(q)'
  BY <1>1, CallStep DEF journal
<1>5. AuditInv'
  BY <1>1, AuditStep DEF journal
<1>. QED BY <1>2, <1>3, <1>4, <1>5

Rest == LockInv /\ LinesInv /\ (\A q \in Processes : CallInv(q)) /\ AuditInv

LEMMA EndQuiet ==
    ASSUME JournalInv, NEW p \in Processes, End(p), UNCHANGED <<journal, audit, returned>>,
           faults' \in {faults, faults + 1}, lock' = lock \/ lock = None \/ lock = p
    PROVE  Rest'
<1>1. call' = [call EXCEPT ![p] = NoCall] /\ NoCall.pc = "idle"
  BY DEF End, NoCall
<1>2. call'[p].pc = "idle"
  BY <1>1, Others DEF JournalInv
<1>3. CallInv(p)'
  BY <1>2 DEF CallInv
<1>. QED BY <1>1, <1>3, QuietStep, Zenon DEF Rest, Holding

LEMMA RefuseQuiet ==
    ASSUME JournalInv, NEW p \in Processes, NEW o \in {"rejected", "validation_failed"},
           Refuse(p, o), UNCHANGED <<journal, audit, returned>>,
           faults' \in {faults, faults + 1}
    PROVE  Rest'
<1>. DEFINE r == [call[p] EXCEPT !.pc = "auditFailure", !.outcome = o]
<1>1. call' = [call EXCEPT ![p] = r]
  BY DEF Refuse
<1>2. r.pc = "auditFailure" /\ r.outcome = o
  BY DEF JournalInv, TypeOK, Calls
<1>. HIDE DEF r
<1>3. call'[p] = r
  BY <1>1, Others DEF JournalInv
<1>4. CallInv(p)'
  BY <1>2, <1>3 DEF CallInv
<1>5. lock' = lock \/ lock = None \/ lock = p
  BY DEF Refuse, Release
<1>. QED BY <1>1, <1>2, <1>4, <1>5, QuietStep DEF Rest, Holding

LEMMA GoQuiet ==
    ASSUME JournalInv, NEW p \in Processes, NEW to, Go(p, to),
           UNCHANGED <<journal, audit, returned, faults>>,
           to \notin {"append", "auditRecorded", "auditFailure"},
           to \in Holding => lock' = p,
           to = "auditKnown" => Loads /\ Found(Manifested(p)),
           lock' = lock \/ lock = None \/ lock = p
    PROVE  Rest'
<1>. DEFINE r == [call[p] EXCEPT !.pc = to]
<1>1. call' = [call EXCEPT ![p] = r]
  BY DEF Go
<1>2. r.pc = to /\ r.contribution = call[p].contribution
  BY DEF JournalInv, TypeOK, Calls
<1>. HIDE DEF r
<1>3. call'[p] = r
  BY <1>1, Others DEF JournalInv
<1>4. CallInv(p)'
  BY <1>2, <1>3 DEF CallInv, Loads, Found, Chain, Manifested, journal
<1>. QED BY <1>1, <1>2, <1>4, QuietStep DEF Rest, Holding

-----------------------------------------------------------------------------
(* The invariant. *)

(* Writing to the journal: the writer holds the lock, so no other call     *)
(* knows of it more than that its manifest was recorded.                   *)
LEMMA WriteStep ==
    ASSUME JournalInv, NEW p \in Processes, call[p].pc = "append",
           NEW text \in {Entry(p), Torn}, lines' = Written(text),
           NEW r, call' = [call EXCEPT ![p] = r],
           r.pc \in {"idle", "auditFailure"} \/
               (r.pc = "auditRecorded" /\ text = Entry(p)),
           r.pc = "auditFailure" => r.outcome = "validation_failed",
           r.pc = "auditRecorded" => r.contribution = call[p].contribution,
           UNCHANGED <<audit, returned>>, faults' \in {faults, faults + 1},
           ended' \/ faults' = faults + 1, text = Torn => ~ended',
           lock' = lock \/ lock = None \/ lock = p
    PROVE  Rest'
<1>. USE DEF JournalInv
<1>1. call'[p] = r /\ \A q \in Processes : q # p => call'[q] = call[q]
  BY Others
<1>2. Loads /\ ~Found(Manifested(p)) /\ lock = p
  BY DEF CallInv, LockInv, Holding
<1>3. (ended /\ text = Entry(p) /\ Grown(p)) \/ ((~ended \/ text = Torn) /\ Ruined)
  BY WriteOutcome
<1>4. /\ \A i, j \in DOMAIN lines' :
            /\ lines'[i] # Torn => Verdict[lines'[i].contribution] = "accepted"
            /\ lines'[i] # Torn /\ lines'[j] # Torn
               /\ Manifest[lines'[i].contribution] = Manifest[lines'[j].contribution] => i = j
      /\ Loads' => /\ \E i \in DOMAIN lines' : lines'[i] # Torn
                         /\ Manifest[lines'[i].contribution] = Manifested(p)
                   /\ \A m : Found(m) => Found(m)'
  BY <1>3, WriteKeepsEntries
<1>5. LockInv'
  BY <1>1, LockStep DEF Holding
<1>6. LinesInv'
  <2>1. faults \in Nat
    BY DEF TypeOK
  <2>2. DamageIsLast' /\ lines' # <<>>
    BY <1>3 DEF Grown, Ruined, TypeOK
  <2>3. ended' \/ faults' > 0
    BY <2>1
  <2>4. faults' = 0 => Loads'
    BY <1>3, <2>1 DEF Grown, LinesInv
  <2>. QED BY <1>4, <2>2, <2>3, <2>4 DEF LinesInv
<1>7. \A q \in Processes : CallInv(q)'
  <2>1. ASSUME r.pc = "auditRecorded" PROVE Loads' => Found(Manifested(p))'
    <3>1. Manifested(p)' = Manifested(p)
      BY <1>1, <2>1 DEF Manifested
    <3>. QED BY <1>4, <3>1 DEF Found
  <2>2. CallInv(p)'
    BY <1>1, <2>1 DEF CallInv
  <2>3. ASSUME NEW q \in Processes, q # p PROVE CallInv(q)'
    <3>1. call'[q] = call[q] /\ Manifested(q)' = Manifested(q)
      BY <1>1, <2>3 DEF Manifested
    <3>2. call[q].pc \notin Holding
      BY <1>2, <2>3 DEF LockInv
    <3>3. call[q].pc = "auditRecorded" => (Loads' => Found(Manifested(q))')
      <4>1. PICK m : m = Manifested(q)
        OBVIOUS
      <4>2. call[q].pc = "auditRecorded" => Found(m)
        BY <1>2, <4>1 DEF CallInv
      <4>3. Found(m)' => Found(Manifested(q))'
        BY <3>1, <4>1 DEF Found
      <4>. QED BY <1>4, <4>2, <4>3
    <3>. QED BY <3>1, <3>2, <3>3 DEF CallInv, Holding
  <2>. QED BY <2>2, <2>3
<1>8. AuditInv'
  <2>1. Loads' => \A m \in returned' : Found(m)'
    BY <1>2, <1>4 DEF AuditInv
  <2>2. RecordedAuditedOnce'
    BY <1>2, <1>4 DEF AuditInv, RecordedAuditedOnce
  <2>3. \A q \in Processes : q # p => Manifested(q)' = Manifested(q)
    BY <1>1 DEF Manifested
  <2>4. r.pc = "auditRecorded" => Manifested(p)' = Manifested(p)
    BY <1>1 DEF Manifested
  <2>5. \A q \in Processes : call[q].pc = "auditRecorded" => Manifested(q) # Manifested(p)
    BY <1>2 DEF CallInv
  <2>6. \A a \in audit : a.outcome = "recorded" => Manifest[a.contribution] # Manifested(p)
    BY <1>2 DEF AuditInv, RecordedAuditedOnce
  <2>. QED BY <1>1, <2>1, <2>2, <2>3, <2>4, <2>5, <2>6 DEF AuditInv
<1>. QED BY <1>5, <1>6, <1>7, <1>8 DEF Rest

(* Auditing a new entry and ending: no other line or call has its manifest. *)
LEMMA RecordedLogged ==
    ASSUME JournalInv, NEW p \in Processes, call[p].pc = "auditRecorded",
           Log(p, "recorded"), End(p), UNCHANGED <<journal, lock>>,
           faults' \in {faults, faults + 1},
           returned' \in {returned, returned \cup {Manifested(p)}}
    PROVE  Rest'
<1>. USE DEF JournalInv
<1>1. call'[p].pc = "idle" /\ \A q \in Processes : q # p => call'[q] = call[q]
  BY Others, NoCallTyped DEF End
<1>2. LockInv' /\ LinesInv'
  BY <1>1, LockStep, LinesStep DEF journal, Holding
<1>3. CallInv(p)'
  BY <1>1 DEF CallInv
<1>4. \A q \in Processes : CallInv(q)'
  BY <1>1, <1>3, CallStep DEF journal
<1>5. AuditInv'
  <2>. DEFINE l == [attempt |-> call[p].attempt, contribution |-> call[p].contribution,
                    outcome |-> "recorded"]
  <2>1. audit' = audit \cup {l}
    BY DEF Log
  <2>2. \A q \in Processes : q # p => Manifested(q)' = Manifested(q)
    BY <1>1 DEF Manifested
  <2>3. Loads' = Loads /\ \A m : Found(m)' = Found(m)
    BY DEF Loads, Found, Chain, journal
  <2>4. Manifest[l.contribution] = Manifested(p) /\ (Loads => Found(Manifested(p)))
    BY DEF CallInv, Manifested
  <2>5. \A a \in audit : a.outcome = "recorded" => Manifest[a.contribution] # Manifested(p)
    BY DEF AuditInv
  <2>6. (Loads => \A m \in returned : Found(m))'
    BY <2>3, <2>4 DEF AuditInv
  <2>7. RecordedAuditedOnce'
    <3>1. \A a \in audit' : a \in audit \/ a = l
      BY <2>1
    <3>. HIDE DEF l
    <3>. QED BY <2>3, <2>4, <2>5, <3>1 DEF AuditInv, RecordedAuditedOnce
  <2>8. \A q \in Processes : q # p /\ call[q].pc = "auditRecorded" =>
           Manifested(q) # Manifested(p)
    BY DEF AuditInv
  <2>. HIDE DEF l
  <2>. QED BY <1>1, <2>1, <2>2, <2>4, <2>6, <2>7, <2>8 DEF AuditInv
<1>. QED BY <1>2, <1>4, <1>5 DEF Rest

(* Auditing anything else and leaving the audit step.                      *)
LEMMA OtherLogged ==
    ASSUME JournalInv, NEW p \in Processes, NEW o \in Outcomes \ {"recorded"}, Log(p, o),
           NEW r, call' = [call EXCEPT ![p] = r],
           r.pc \in {"idle", "auditFailure"},
           r.pc = "auditFailure" => r.outcome = "validation_failed",
           UNCHANGED journal, faults' \in {faults, faults + 1},
           returned' = returned \/
               (returned' = returned \cup {Manifested(p)} /\ Found(Manifested(p))),
           lock' = lock \/ lock = p
    PROVE  Rest'
<1>. USE DEF JournalInv
<1>1. call'[p] = r /\ \A q \in Processes : q # p => call'[q] = call[q]
  BY Others
<1>2. LockInv' /\ LinesInv'
  BY <1>1, LockStep, LinesStep DEF journal, Holding
<1>3. CallInv(p)'
  BY <1>1 DEF CallInv
<1>4. \A q \in Processes : CallInv(q)'
  BY <1>1, <1>3, CallStep DEF journal
<1>5. AuditInv'
  <2>1. \A a \in audit' : a \in audit \/ a.outcome # "recorded"
    BY DEF Log
  <2>2. \A q \in Processes : q # p => Manifested(q)' = Manifested(q)
    BY <1>1 DEF Manifested
  <2>3. Loads' = Loads /\ \A m : Found(m)' = Found(m)
    BY DEF Loads, Found, Chain, journal
  <2>4. (Loads => \A m \in returned : Found(m))'
    BY <2>3 DEF AuditInv
  <2>5. RecordedAuditedOnce'
    BY <2>1, <2>3 DEF AuditInv, RecordedAuditedOnce
  <2>. QED BY <1>1, <2>1, <2>2, <2>4, <2>5 DEF AuditInv
<1>. QED BY <1>2, <1>4, <1>5 DEF Rest

LEMMA InitInv == Init => JournalInv
<1>. SUFFICES ASSUME Init PROVE JournalInv
  OBVIOUS
<1>1. Loads /\ lines = <<>> /\ DOMAIN lines = {}
  BY DEF Init, Loads
<1>2. \A p \in Processes : call[p].pc = "idle"
  BY DEF Init, NoCall
<1>3. LockInv /\ LinesInv /\ \A p \in Processes : CallInv(p)
  BY <1>1, <1>2 DEF Init, LockInv, LinesInv, DamageIsLast, CallInv, Holding
<1>4. AuditInv
  BY <1>2 DEF Init, AuditInv, RecordedAuditedOnce
<1>. QED BY <1>3, <1>4, InitTyped DEF JournalInv

LEMMA StepInv ==
    ASSUME JournalInv, NEW p \in Processes, Step(p)
    PROVE  Rest'
<1>0. faults' \in {faults, faults + 1}
  BY DEF Step, Validate, Acquire, Load, AppendEntry, AuditRecorded, AuditKnown, AuditFailure
<1>1. CASE Validate(p)
  <2>1. CASE Verdict[call[p].contribution] = "accepted"
    BY <1>1, <2>1, GoQuiet DEF Validate, Verdicts, Holding
  <2>2. CASE Verdict[call[p].contribution] # "accepted"
    <3>1. \E o \in {"rejected", "validation_failed"} : Refuse(p, o)
      <4>1. call[p].contribution \in Contributions
        BY <1>1 DEF Validate, JournalInv, TypeOK
      <4>. QED BY <1>1, <2>2, <4>1 DEF Validate, Verdicts
    <3>. QED BY <1>0, <1>1, <3>1, RefuseQuiet DEF Validate
  <2>. QED BY <2>1, <2>2
<1>2. CASE Acquire(p)
  BY <1>2, GoQuiet DEF Acquire, Holding
<1>3. CASE Load(p)
  <2>. USE <1>3 DEF Load
  <2>1. CASE ~Loads
    BY <1>0, <2>1, RefuseQuiet
  <2>2. CASE Loads /\ Found(Manifested(p))
    <3>1. lock = p
      BY DEF JournalInv, LockInv, Holding
    <3>. QED BY <2>2, <3>1, GoQuiet
  <2>3. CASE Loads /\ ~Found(Manifested(p))
    <3>. DEFINE r == [call[p] EXCEPT !.pc = "append", !.chain = Chain(Len(lines))]
    <3>1. call' = [call EXCEPT ![p] = r] /\ lock' = lock
      BY <2>3
    <3>2. r.pc = "append" /\ r.chain = Chain(Len(lines)) /\ r.contribution = call[p].contribution
      BY DEF JournalInv, TypeOK, Calls
    <3>3. lock = p
      BY DEF JournalInv, LockInv, Holding
    <3>. HIDE DEF r
    <3>4. call'[p] = r
      BY <3>1, Others DEF JournalInv
    <3>5. Loads' /\ ~Found(Manifested(p))' /\ Chain(Len(lines))' = Chain(Len(lines))
      BY <2>3, <3>2, <3>4 DEF Loads, Found, Chain, Manifested, journal
    <3>6. CallInv(p)'
      BY <3>2, <3>4, <3>5 DEF CallInv
    <3>. QED BY <1>0, <3>1, <3>2, <3>3, <3>6, QuietStep DEF Rest
  <2>. QED BY <2>1, <2>2, <2>3
<1>4. CASE AppendEntry(p)
  <2>. DEFINE r == [call[p] EXCEPT !.pc = "auditRecorded"]
  <2>1. call' = [call EXCEPT ![p] = r]
    BY <1>4 DEF AppendEntry, Go
  <2>2. r.pc = "auditRecorded" /\ r.contribution = call[p].contribution
    BY DEF JournalInv, TypeOK, Calls
  <2>3. Entry(p) # Torn
    BY <1>4, EntryTyped DEF AppendEntry, JournalInv
  <2>. HIDE DEF r
  <2>. QED BY <1>0, <1>4, <2>1, <2>2, <2>3, WriteStep DEF AppendEntry, Release
<1>5. CASE AuditRecorded(p)
  BY <1>0, <1>5, RecordedLogged DEF AuditRecorded, Return
<1>6. CASE AuditKnown(p)
  <2>1. Found(Manifested(p))
    BY <1>6 DEF AuditKnown, JournalInv, CallInv
  <2>2. NoCall.pc = "idle" /\ call' = [call EXCEPT ![p] = NoCall]
    BY <1>6 DEF NoCall, AuditKnown, Return, End
  <2>3. lock' = lock \/ lock = p
    BY <1>6 DEF AuditKnown, Release
  <2>. QED BY <1>0, <1>6, <2>1, <2>2, <2>3, OtherLogged DEF AuditKnown, Return, Outcomes
<1>7. CASE AuditFailure(p)
  <2>1. call[p].outcome \in Outcomes \ {"recorded"}
    BY <1>7 DEF AuditFailure, JournalInv, CallInv, Outcomes
  <2>2. NoCall.pc = "idle" /\ call' = [call EXCEPT ![p] = NoCall]
    BY <1>7 DEF NoCall, AuditFailure, End
  <2>. QED BY <1>0, <1>7, <2>1, <2>2, OtherLogged DEF AuditFailure
<1>. QED BY <1>1, <1>2, <1>3, <1>4, <1>5, <1>6, <1>7 DEF Step

LEMMA FailureInv ==
    ASSUME JournalInv, NEW p \in Processes, Failure(p)
    PROVE  Rest'
<1>0. faults' = faults + 1
  BY DEF Failure, AppendCut, OperationFails, AuditFails, Die, Fault
<1>1. CASE AppendCut(p)
  <2>1. PICK text \in {Entry(p), Torn} : lines' = Written(text)
    BY <1>1 DEF AppendCut
  <2>2. lock' = lock \/ lock = None \/ lock = p
    BY <1>1 DEF AppendCut, Refuse, Release
  <2>3. ~ended' /\ UNCHANGED <<audit, returned>> /\ call[p].pc = "append"
    BY <1>1 DEF AppendCut
  <2>4. CASE Refuse(p, "validation_failed")
    <3>. DEFINE r == [call[p] EXCEPT !.pc = "auditFailure", !.outcome = "validation_failed"]
    <3>1. call' = [call EXCEPT ![p] = r]
      BY <2>4 DEF Refuse
    <3>2. r.pc = "auditFailure" /\ r.outcome = "validation_failed"
      BY DEF JournalInv, TypeOK, Calls
    <3>. HIDE DEF r
    <3>. QED BY <1>0, <2>1, <2>2, <2>3, <3>1, <3>2, WriteStep
  <2>5. CASE End(p)
    <3>1. NoCall.pc = "idle" /\ call' = [call EXCEPT ![p] = NoCall]
      BY <2>5 DEF NoCall, End
    <3>. QED BY <1>0, <2>1, <2>2, <2>3, <3>1, WriteStep
  <2>. QED BY <1>1, <2>4, <2>5 DEF AppendCut
<1>2. CASE OperationFails(p)
  BY <1>0, <1>2, RefuseQuiet, EndQuiet DEF OperationFails
<1>3. CASE AuditFails(p)
  <2>1. CASE UNCHANGED audit
    BY <1>0, <1>3, <2>1, RefuseQuiet, EndQuiet DEF AuditFails
  <2>2. CASE call[p].pc = "auditRecorded" /\ Log(p, "recorded")
    BY <1>0, <1>3, <2>2, RecordedLogged DEF AuditFails, journal
  <2>3. CASE call[p].pc = "auditKnown" /\ Log(p, "already_recorded")
    <3>. DEFINE r == [call[p] EXCEPT !.pc = "auditFailure", !.outcome = "validation_failed"]
    <3>1. call' = [call EXCEPT ![p] = r] /\ (lock' = lock \/ lock = p)
      BY <1>3, <2>3 DEF AuditFails, Refuse, Release
    <3>2. r.pc = "auditFailure" /\ r.outcome = "validation_failed"
      BY DEF JournalInv, TypeOK, Calls
    <3>. HIDE DEF r
    <3>. QED BY <1>0, <1>3, <2>3, <3>1, <3>2, OtherLogged DEF AuditFails, Outcomes
  <2>4. CASE call[p].pc = "auditFailure" /\ Log(p, call[p].outcome)
    <3>1. call[p].outcome \in Outcomes \ {"recorded"}
      BY <2>4 DEF JournalInv, CallInv, Outcomes
    <3>2. NoCall.pc = "idle" /\ call' = [call EXCEPT ![p] = NoCall] /\ lock' = lock
      BY <1>3, <2>4 DEF NoCall, AuditFails, End
    <3>. QED BY <1>0, <1>3, <2>4, <3>1, <3>2, OtherLogged DEF AuditFails
  <2>. QED BY <1>3, <2>1, <2>2, <2>3, <2>4 DEF AuditFails
<1>4. CASE Die(p)
  BY <1>0, <1>4, EndQuiet DEF Die, Release
<1>. QED BY <1>1, <1>2, <1>3, <1>4 DEF Failure

LEMMA NextInv == JournalInv /\ [Next]_vars => JournalInv'
<1>. SUFFICES ASSUME JournalInv, [Next]_vars PROVE JournalInv'
  OBVIOUS
<1>1. TypeOK'
  BY NextTyped DEF JournalInv
<1>2. ASSUME NEW p \in Processes, NEW c \in Contributions, Begin(p, c) PROVE Rest'
  <2>. DEFINE r == [NoCall EXCEPT !.pc = "validate", !.contribution = c,
                                  !.attempt = attempts + 1]
  <2>1. call' = [call EXCEPT ![p] = r] /\ r.pc = "validate"
    BY <1>2 DEF Begin, NoCall
  <2>. HIDE DEF r
  <2>2. call'[p] = r
    BY <2>1, Others DEF JournalInv
  <2>3. CallInv(p)'
    BY <2>1, <2>2 DEF CallInv
  <2>. QED BY <1>2, <2>1, <2>3, QuietStep DEF Begin, Rest, Holding
<1>3. ASSUME UNCHANGED vars PROVE Rest'
  <2>. USE <1>3 DEF vars, journal, JournalInv
  <2>1. LockInv'
    BY DEF LockInv
  <2>2. LinesInv'
    BY LinesStep
  <2>3. Loads' = Loads /\ \A m : Found(m)' = Found(m)
    BY DEF Loads, Found, Chain
  <2>4. \A q \in Processes : CallInv(q)'
    BY <2>3 DEF CallInv, Found, Chain, Manifested
  <2>5. (Loads => \A m \in returned : Found(m))' /\ RecordedAuditedOnce'
    BY <2>3 DEF AuditInv, RecordedAuditedOnce
  <2>6. AuditInv'
    BY <2>5 DEF AuditInv, Manifested
  <2>. QED BY <2>1, <2>2, <2>4, <2>6 DEF Rest
<1>4. Rest'
  BY <1>2, <1>3, StepInv, FailureInv DEF Next, Finished
<1>. QED BY <1>1, <1>4 DEF JournalInv, Rest

LEMMA InvAlways == Spec => []JournalInv
BY InitInv, NextInv, PTL DEF Spec

(* For any processes and failures: damage stays in the last line, behind   *)
(* entries linked in order.                                                *)
THEOREM JournalDamageIsLast == Spec => []DamageIsLast
<1>1. JournalInv => DamageIsLast
  BY DEF JournalInv, LinesInv
<1>. QED BY <1>1, InvAlways, PTL

(* A journal that loads holds whatever a call has returned, and without a  *)
(* failure it loads.                                                       *)
THEOREM JournalReturnedIsRecorded == Spec => []ReturnedIsRecorded
<1>1. JournalInv => ReturnedIsRecorded
  BY DEF JournalInv, LinesInv, AuditInv, ReturnedIsRecorded
<1>. QED BY <1>1, InvAlways, PTL

(* One attempt at most is audited as the one that recorded a manifest.     *)
THEOREM JournalRecordedAuditedOnce == Spec => []RecordedAuditedOnce
<1>1. JournalInv => RecordedAuditedOnce
  BY DEF JournalInv, AuditInv
<1>. QED BY <1>1, InvAlways, PTL

-----------------------------------------------------------------------------
(* The journal implements the promised log: a whole write is a Record, any *)
(* other write Ruin, and all else leaves the log as it is.                 *)

LEMMA KeepStep ==
    ASSUME UNCHANGED lines, faults' \in {faults, faults + 1}
    PROVE  Promise!Next
<1>1. Loads' = Loads /\ Chain(Len(lines))' = Chain(Len(lines))
  BY DEF Loads, Chain
<1>. QED BY <1>1 DEF Promise!Next, Promise!Keep

LEMMA RecordStep ==
    ASSUME JournalInv, NEW p \in Processes, call[p].pc = "append", Grown(p),
           faults' \in {faults, faults + 1}
    PROVE  Promise!Next
<1>. DEFINE n == Len(lines)
            c == call[p].contribution
<1>1. lines \in Seq(Entries \cup {Torn}) /\ n \in Nat /\ DOMAIN lines = 1..n
  BY DEF JournalInv, TypeOK
<1>2. Loads /\ Loads' /\ ~Found(Manifested(p))
  BY DEF Grown, JournalInv, CallInv
<1>3. c \in Contributions /\ Verdict[c] = "accepted"
  BY DEF JournalInv, TypeOK, Accepted
<1>4. Chain(Len(lines)) \in Seq(Contributions) /\ DOMAIN Chain(Len(lines)) = 1..n
      /\ Len(Chain(Len(lines))) = n
  <2>1. Chain(Len(lines)) \in Seq(Contributions)
    BY <1>2, ChainTyped DEF JournalInv
  <2>2. DOMAIN Chain(Len(lines)) = 1..n
    BY DEF Chain
  <2>. QED BY <1>1, <2>1, <2>2
<1>5. \A i \in 1..n : Manifest[Chain(Len(lines))[i]] # Manifest[c]
  BY <1>1, <1>2 DEF Chain, Found, Manifested, Loads
<1>6. Chain(Len(lines))' = Append(Chain(Len(lines)), c)
  <2>1. Len(lines') = n + 1 /\ lines'[n + 1].contribution = c
        /\ \A i \in 1..n : lines'[i] = lines[i]
    BY <1>1 DEF Grown, Entry
  <2>2. Chain(Len(lines))' = [i \in 1..(n + 1) |-> lines'[i].contribution]
    BY <2>1 DEF Chain
  <2>3. Append(Chain(Len(lines)), c) =
            [i \in 1..(n + 1) |-> IF i = n + 1 THEN c ELSE Chain(Len(lines))[i]]
    BY <1>1, <1>3, <1>4
  <2>4. \A i \in 1..(n + 1) :
            lines'[i].contribution = IF i = n + 1 THEN c ELSE Chain(Len(lines))[i]
    BY <1>1, <2>1 DEF Chain
  <2>. QED BY <2>2, <2>3, <2>4
<1>7. Promise!Record(c)
  BY <1>2, <1>3, <1>4, <1>5, <1>6 DEF Promise!Record
<1>. QED BY <1>3, <1>7 DEF Promise!Next

LEMMA RuinStep ==
    ASSUME Ruined, faults' > 0, faults' \in {faults, faults + 1}
    PROVE  Promise!Next
BY DEF Ruined, Promise!Next, Promise!Ruin

LEMMA PromiseInit == Init => Promise!Init
<1>. SUFFICES ASSUME Init PROVE Promise!Init
  OBVIOUS
<1>1. Loads /\ Chain(Len(lines)) = <<>>
  BY DEF Init, Loads, Chain
<1>. QED BY <1>1 DEF Init, Promise!Init

LEMMA PromiseStep == JournalInv /\ [Next]_vars => [Promise!Next]_(Promise!vars)
<1>. SUFFICES ASSUME JournalInv, [Next]_vars PROVE [Promise!Next]_(Promise!vars)
  OBVIOUS
<1>1. ASSUME NEW p \in Processes, Step(p) \/ Failure(p) PROVE Promise!Next
  <2>1. faults' \in {faults, faults + 1}
    BY <1>1 DEF Step, Validate, Acquire, Load, AppendEntry, AuditRecorded, AuditKnown,
                AuditFailure, Failure, AppendCut, OperationFails, AuditFails, Die, Fault
  <2>2. CASE UNCHANGED lines
    BY <2>1, <2>2, KeepStep
  <2>3. CASE AppendEntry(p) \/ AppendCut(p)
    <3>1. call[p].pc = "append" /\ faults \in Nat
      BY <2>3 DEF AppendEntry, AppendCut, JournalInv, TypeOK
    <3>2. PICK text \in {Entry(p), Torn} : lines' = Written(text) /\ (text = Torn => faults' > 0)
      <4>1. Entry(p) # Torn
        BY <3>1, EntryTyped DEF JournalInv
      <4>2. CASE AppendEntry(p)
        BY <4>1, <4>2 DEF AppendEntry
      <4>3. CASE AppendCut(p)
        <5>1. faults' > 0
          BY <3>1, <4>3 DEF AppendCut, Fault
        <5>. QED BY <4>3, <5>1 DEF AppendCut
      <4>. QED BY <2>3, <4>2, <4>3
    <3>3. ~ended => faults' > 0
      BY <2>1, <3>1 DEF JournalInv, LinesInv
    <3>4. Grown(p) \/ (Ruined /\ faults' > 0)
      BY <3>1, <3>2, <3>3, WriteOutcome DEF JournalInv
    <3>. QED BY <2>1, <3>1, <3>4, RecordStep, RuinStep
  <2>. QED BY <1>1, <2>2, <2>3 DEF Step, Validate, Acquire, Load, AuditRecorded, AuditKnown,
              AuditFailure, Failure, OperationFails, AuditFails, Die, journal
<1>2. ASSUME NEW p \in Processes, NEW c \in Contributions, Begin(p, c) PROVE Promise!Next
  BY <1>2, KeepStep DEF Begin, journal
<1>3. ASSUME UNCHANGED vars PROVE Promise!Next
  BY <1>3, KeepStep DEF vars, journal
<1>. QED BY <1>1, <1>2, <1>3 DEF Next, Finished

(* The calls on one journal, overlapping and failing as they may, keep the *)
(* promise of an append-only log with one entry for each manifest.         *)
THEOREM JournalKeepsPromise == Spec => KeepsPromise
BY PromiseInit, PromiseStep, InvAlways, PTL DEF Spec, KeepsPromise, Promise!Spec

(* Whatever fails and however calls overlap, earlier entries stay linked   *)
(* and a journal that loads holds every entry that was returned.           *)
THEOREM JournalEntriesAreKept == Spec => []EntriesAreKept
BY JournalDamageIsLast, JournalReturnedIsRecorded, PTL DEF EntriesAreKept
-----------------------------------------------------------------------------
(* One audit line for each attempt. *)

(* Without a failure an attempt number belongs to one call, and until that *)
(* call has ended no audit line bears it.                                  *)
Numbered ==
    /\ \A p \in Processes : /\ call[p].attempt \in 0..attempts
                            /\ call[p].pc = "idle" <=> call[p].attempt = 0
    /\ \A p, q \in Processes :
          call[p].attempt = call[q].attempt /\ call[p].attempt # 0 => p = q
    /\ \A a \in audit : /\ a.attempt \in 1..attempts
                        /\ \A p \in Processes : call[p].attempt # a.attempt
AttemptInv == faults = 0 => Numbered /\ EveryAttemptAudited

LEMMA NoCallNumbered ==
    NoCall.attempt = 0 /\ NoCall.pc = "idle"
BY DEF NoCall

LEMMA InitAttempts == Init => AttemptInv
<1>. SUFFICES ASSUME Init PROVE AttemptInv
  OBVIOUS
<1>1. \A p \in Processes : call[p] = NoCall
  BY DEF Init
<1>2. attempts = 0 /\ audit = {}
  BY DEF Init
<1>3. Numbered
  BY <1>1, <1>2, NoCallNumbered DEF Numbered
<1>4. EveryAttemptAudited
  BY <1>2 DEF EveryAttemptAudited
<1>. QED BY <1>3, <1>4 DEF AttemptInv

(* A step inside a call keeps its number and writes no audit line.         *)
LEMMA InsideKeepsAttempts ==
    ASSUME TypeOK, AttemptInv, NEW p \in Processes, NEW r \in Calls,
           call' = [call EXCEPT ![p] = r], r.attempt = call[p].attempt,
           r.pc # "idle", call[p].pc # "idle",
           UNCHANGED <<audit, attempts, faults>>
    PROVE  AttemptInv'
<1>. SUFFICES ASSUME faults = 0 PROVE Numbered' /\ EveryAttemptAudited'
  BY DEF AttemptInv
<1>1. Numbered /\ EveryAttemptAudited
  BY DEF AttemptInv
<1>2. \A q \in Processes : /\ call'[q].attempt = call[q].attempt
                           /\ call'[q].pc = "idle" <=> call[q].pc = "idle"
  BY DEF TypeOK
<1>3. audit' = audit /\ attempts' = attempts
  OBVIOUS
<1>4. Numbered'
  BY <1>1, <1>2, <1>3 DEF Numbered
<1>5. EveryAttemptAudited'
  BY <1>1, <1>2, <1>3 DEF EveryAttemptAudited
<1>. QED BY <1>4, <1>5

(* A call that begins takes the next number, which no other call and no    *)
(* audit line has.                                                         *)
LEMMA BeginKeepsAttempts ==
    ASSUME TypeOK, AttemptInv, NEW p \in Processes, NEW c \in Contributions, Begin(p, c)
    PROVE  AttemptInv'
<1>. SUFFICES ASSUME faults = 0 PROVE Numbered' /\ EveryAttemptAudited'
  BY DEF AttemptInv, Begin
<1>1. Numbered /\ EveryAttemptAudited /\ attempts \in Nat
  BY DEF AttemptInv, TypeOK
<1>2. attempts' = attempts + 1 /\ audit' = audit
  BY DEF Begin
<1>3. call'[p].attempt = attempts + 1 /\ call'[p].pc = "validate"
  BY DEF Begin, TypeOK, NoCall
<1>4. \A q \in Processes \ {p} : call'[q] = call[q]
  BY DEF Begin, TypeOK
<1>5. call[p].attempt = 0
  BY <1>1 DEF Begin, Numbered
<1>6. Numbered'
  <2>1. \A q \in Processes : /\ call'[q].attempt \in 0..attempts'
                             /\ call'[q].pc = "idle" <=> call'[q].attempt = 0
    BY <1>1, <1>2, <1>3, <1>4 DEF Numbered
  <2>2. \A q, s \in Processes :
           call'[q].attempt = call'[s].attempt /\ call'[q].attempt # 0 => q = s
    BY <1>1, <1>3, <1>4 DEF Numbered
  <2>3. \A a \in audit : /\ a.attempt \in 1..attempts'
                         /\ \A q \in Processes : call'[q].attempt # a.attempt
    BY <1>1, <1>2, <1>3, <1>4 DEF Numbered
  <2>. QED BY <1>2, <2>1, <2>2, <2>3 DEF Numbered
<1>7. EveryAttemptAudited'
  <2>. SUFFICES ASSUME NEW n \in 1..attempts'
                PROVE  \/ \E q \in Processes : call'[q].attempt = n
                       \/ \E a \in audit : \A b \in audit : b.attempt = n <=> b = a
    BY <1>2 DEF EveryAttemptAudited
  <2>1. CASE n = attempts + 1
    BY <2>1, <1>3
  <2>2. CASE n \in 1..attempts
    <3>1. CASE \E q \in Processes : call[q].attempt = n
      BY <3>1, <2>2, <1>4, <1>5
    <3>2. CASE ~\E q \in Processes : call[q].attempt = n
      BY <3>2, <2>2, <1>1 DEF EveryAttemptAudited
    <3>. QED BY <3>1, <3>2
  <2>. QED BY <2>1, <2>2, <1>1, <1>2
<1>. QED BY <1>6, <1>7

(* A call that ends has left the one line with its number.                 *)
LEMMA EndKeepsAttempts ==
    ASSUME TypeOK, AttemptInv, NEW p \in Processes, NEW outcome \in Outcomes,
           call[p].pc # "idle", Log(p, outcome), End(p), UNCHANGED <<attempts, faults>>
    PROVE  AttemptInv'
<1>. SUFFICES ASSUME faults = 0 PROVE Numbered' /\ EveryAttemptAudited'
  BY DEF AttemptInv
<1>1. Numbered /\ EveryAttemptAudited
  BY DEF AttemptInv
<1>2. PICK line : /\ line.attempt = call[p].attempt
                  /\ audit' = audit \cup {line}
  <2>. DEFINE l == [attempt |-> call[p].attempt,
                    contribution |-> call[p].contribution, outcome |-> outcome]
  <2>1. l.attempt = call[p].attempt /\ audit' = audit \cup {l}
    BY DEF Log
  <2>. QED BY <2>1
<1>3. call'[p].attempt = 0 /\ call'[p].pc = "idle"
  BY NoCallNumbered DEF End, TypeOK
<1>4. \A q \in Processes \ {p} : call'[q] = call[q]
  BY DEF End, TypeOK
<1>5. line.attempt \in 1..attempts
  BY <1>1, <1>2 DEF Numbered, TypeOK
<1>6. \A q \in Processes : call'[q].attempt # line.attempt
  BY <1>1, <1>2, <1>3, <1>4, <1>5 DEF Numbered
<1>7. \A a \in audit : a.attempt # line.attempt
  BY <1>1, <1>2 DEF Numbered
<1>8. Numbered'
  <2>1. \A q \in Processes : /\ call'[q].attempt \in 0..attempts
                             /\ call'[q].pc = "idle" <=> call'[q].attempt = 0
    BY <1>1, <1>3, <1>4 DEF Numbered, TypeOK
  <2>2. \A q, s \in Processes :
           call'[q].attempt = call'[s].attempt /\ call'[q].attempt # 0 => q = s
    BY <1>1, <1>3, <1>4 DEF Numbered
  <2>3. \A a \in audit : /\ a.attempt \in 1..attempts
                         /\ \A q \in Processes : call'[q].attempt # a.attempt
    BY <1>1, <1>3, <1>4 DEF Numbered
  <2>. QED BY <1>2, <1>5, <1>6, <2>1, <2>2, <2>3 DEF Numbered
<1>9. EveryAttemptAudited'
  <2>. SUFFICES ASSUME NEW n \in 1..attempts
                PROVE  \/ \E q \in Processes : call'[q].attempt = n
                       \/ \E a \in audit' : \A b \in audit' : b.attempt = n <=> b = a
    BY DEF EveryAttemptAudited
  <2>1. CASE n = line.attempt
    <3>1. \A b \in audit' : b.attempt = n <=> b = line
      BY <2>1, <1>2, <1>7
    <3>. QED BY <3>1, <1>2
  <2>2. CASE n # line.attempt /\ \E q \in Processes : call[q].attempt = n
    BY <2>2, <1>2, <1>4
  <2>3. CASE n # line.attempt /\ ~\E q \in Processes : call[q].attempt = n
    <3>1. PICK a \in audit : \A b \in audit : b.attempt = n <=> b = a
      BY <2>3, <1>1 DEF EveryAttemptAudited
    <3>2. a # line
      BY <3>1, <1>7
    <3>3. \A b \in audit' : b.attempt = n <=> b = a
      BY <3>1, <3>2, <2>3, <1>2
    <3>. QED BY <3>1, <3>3, <1>2
  <2>. QED BY <2>1, <2>2, <2>3
<1>. QED BY <1>8, <1>9

LEMMA GoKeepsAttempts ==
    ASSUME TypeOK, AttemptInv, NEW p \in Processes, NEW to \in Steps \ {"idle"}, Go(p, to),
           call[p].pc # "idle", UNCHANGED <<audit, attempts, faults>>
    PROVE  AttemptInv'
<1>. PICK r : r = [call[p] EXCEPT !.pc = to]
  OBVIOUS
<1>0. call[p] \in Calls /\ to \in Steps
  BY DEF TypeOK
<1>1. r \in Calls /\ r.attempt = call[p].attempt /\ r.pc = to
  BY <1>0 DEF Calls
<1>2. call' = [call EXCEPT ![p] = r]
  BY DEF Go
<1>. QED BY <1>1, <1>2, InsideKeepsAttempts

LEMMA RefuseKeepsAttempts ==
    ASSUME TypeOK, AttemptInv, NEW p \in Processes, NEW outcome \in Outcomes,
           Refuse(p, outcome), call[p].pc # "idle", UNCHANGED <<audit, attempts, faults>>
    PROVE  AttemptInv'
<1>. PICK r : r = [call[p] EXCEPT !.pc = "auditFailure", !.outcome = outcome]
  OBVIOUS
<1>1. r \in Calls /\ r.attempt = call[p].attempt /\ r.pc = "auditFailure"
  BY DEF TypeOK, Calls, Steps
<1>2. call' = [call EXCEPT ![p] = r]
  BY DEF Refuse
<1>. QED BY <1>1, <1>2, InsideKeepsAttempts

LEMMA StepKeepsAttempts ==
    ASSUME TypeOK, AttemptInv, NEW p \in Processes, Step(p)
    PROVE  AttemptInv'
<1>. /\ {"lock", "load", "append", "auditKnown", "auditRecorded"} \subseteq Steps \ {"idle"}
     /\ {"rejected", "validation_failed", "recorded", "already_recorded"} \subseteq Outcomes
  BY DEF Steps, Outcomes
<1>1. CASE Validate(p)
  <2>. call[p].pc # "idle" /\ UNCHANGED <<audit, attempts, faults>>
    BY <1>1 DEF Validate
  <2>1. CASE Go(p, "lock")
    BY <2>1, GoKeepsAttempts
  <2>2. CASE \E o \in {"rejected", "validation_failed"} : Refuse(p, o)
    BY <2>2, RefuseKeepsAttempts
  <2>3. call[p].contribution \in Contributions
    BY <1>1 DEF Validate, TypeOK
  <2>4. Verdict[call[p].contribution] \in {"accepted", "rejected", "invalid"}
    BY <2>3 DEF Verdicts
  <2>. QED BY <1>1, <2>1, <2>2, <2>4 DEF Validate
<1>2. CASE Acquire(p)
  BY <1>2, GoKeepsAttempts DEF Acquire
<1>3. CASE Load(p)
  <2>. call[p].pc # "idle" /\ UNCHANGED <<audit, attempts, faults>>
    BY <1>3 DEF Load
  <2>1. CASE Refuse(p, "validation_failed")
    BY <2>1, RefuseKeepsAttempts
  <2>2. CASE Go(p, "auditKnown")
    BY <2>2, GoKeepsAttempts
  <2>3. CASE Loads /\ call' = [call EXCEPT ![p].pc = "append", ![p].chain = Chain(Len(lines))]
    <3>. PICK r : r = [call[p] EXCEPT !.pc = "append", !.chain = Chain(Len(lines))]
      OBVIOUS
    <3>0. /\ call[p] \in Calls /\ "append" \in Steps
          /\ Chain(Len(lines)) \in Seq(Contributions)
      BY <2>3, ChainTyped DEF TypeOK
    <3>1. r \in Calls /\ r.attempt = call[p].attempt /\ r.pc = "append"
      BY <3>0 DEF Calls
    <3>2. call' = [call EXCEPT ![p] = r]
      BY <2>3
    <3>. QED BY <3>1, <3>2, InsideKeepsAttempts
  <2>. QED BY <1>3, <2>1, <2>2, <2>3 DEF Load
<1>4. CASE AppendEntry(p)
  BY <1>4, GoKeepsAttempts DEF AppendEntry
<1>5. CASE AuditRecorded(p)
  BY <1>5, EndKeepsAttempts DEF AuditRecorded, Return
<1>6. CASE AuditKnown(p)
  BY <1>6, EndKeepsAttempts DEF AuditKnown, Return
<1>7. CASE AuditFailure(p)
  <2>1. call[p].outcome \in Outcomes
    BY DEF TypeOK, Calls
  <2>. QED BY <1>7, <2>1, EndKeepsAttempts DEF AuditFailure
<1>. QED BY <1>1, <1>2, <1>3, <1>4, <1>5, <1>6, <1>7 DEF Step

LEMMA NextKeepsAttempts == TypeOK /\ AttemptInv /\ [Next]_vars => AttemptInv'
<1>. SUFFICES ASSUME TypeOK, AttemptInv, [Next]_vars PROVE AttemptInv'
  OBVIOUS
<1>1. CASE UNCHANGED vars
  BY <1>1 DEF vars, journal, AttemptInv, Numbered, EveryAttemptAudited
<1>2. CASE \E p \in Processes, c \in Contributions : Begin(p, c)
  BY <1>2, BeginKeepsAttempts
<1>3. CASE \E p \in Processes : Step(p)
  BY <1>3, StepKeepsAttempts
<1>4. CASE \E p \in Processes : Failure(p)
  <2>1. faults' = faults + 1 /\ faults \in Nat
    BY <1>4 DEF Failure, AppendCut, OperationFails, AuditFails, Die, Fault, TypeOK
  <2>. QED BY <2>1 DEF AttemptInv
<1>. QED BY <1>1, <1>2, <1>3, <1>4 DEF Next, Finished

(* Attempts are numbered, so an attempt that has ended without a failure   *)
(* left exactly one line of the audit.                                     *)
THEOREM JournalEveryAttemptAudited == Spec => []EveryAttemptAudited
<1>1. AttemptInv => EveryAttemptAudited
  BY DEF AttemptInv, EveryAttemptAudited
<1>. QED BY <1>1, JournalTypeCorrect, InitAttempts, NextKeepsAttempts, PTL DEF Spec
=============================================================================
