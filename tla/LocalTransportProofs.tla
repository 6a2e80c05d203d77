------------------------- MODULE LocalTransportProofs -------------------------
(***************************************************************************)
(* What is proved of LocalTransport for any nodes, batch and logs, any     *)
(* number of commands running at once and any number of them dying: the    *)
(* shape of files and commands, that claims never outrun the ledger, when  *)
(* an assignment can be credited twice, and that marks follow reports.     *)
(* Each rests on an invariant of what a running command holds in memory,   *)
(* so on where in its steps it is.                                         *)
(***************************************************************************)
EXTENDS LocalTransportProperties, SequenceTheorems, WellFoundedInduction, TLAPS

-----------------------------------------------------------------------------
(* The steps a pass may have before it: what PassSteps gives, and its ends.*)
CreditPath(keeps, reports) ==
    CASE keeps /\ reports ->
            {<<"readInbox", "readLedger", "ledger", "outbox", "state">>,
             <<"readLedger", "ledger", "outbox", "state">>,
             <<"ledger", "outbox", "state">>, <<"outbox", "state">>, <<"state">>}
      [] ~keeps /\ reports ->
            {<<"readInbox", "readLedger", "ledger", "outbox">>,
             <<"readLedger", "ledger", "outbox">>, <<"ledger", "outbox">>,
             <<"outbox">>}
      [] keeps /\ ~reports ->
            {<<"readInbox", "readLedger", "ledger", "state">>,
             <<"readLedger", "ledger", "state">>, <<"ledger", "state">>, <<"state">>}
      [] ~keeps /\ ~reports ->
            {<<"readInbox", "readLedger", "ledger">>, <<"readLedger", "ledger">>,
             <<"ledger">>}
PlainPath(keeps, reports) ==
    CASE keeps /\ reports ->
            {<<"readInbox", "outbox", "state">>, <<"outbox", "state">>, <<"state">>}
      [] ~keeps /\ reports ->
            {<<"readInbox", "outbox">>, <<"outbox">>}
      [] keeps /\ ~reports ->
            {<<"readInbox", "state">>, <<"state">>}
      [] ~keeps /\ ~reports ->
            {<<"readInbox">>}
Path(credits, keeps, reports) ==
    IF credits THEN CreditPath(keeps, reports) ELSE PlainPath(keeps, reports)

LEMMA Tuples ==
  ASSUME NEW X, NEW a \in X, NEW b \in X, NEW c \in X, NEW d \in X, NEW e \in X
  PROVE  /\ <<a>> \in Seq(X) /\ <<a, b>> \in Seq(X) /\ <<a, b, c>> \in Seq(X)
         /\ <<a, b, c, d>> \in Seq(X) /\ <<a, b, c, d, e>> \in Seq(X)
         /\ Len(<<a>>) = 1 /\ Len(<<a, b>>) = 2 /\ Len(<<a, b, c>>) = 3
         /\ Len(<<a, b, c, d>>) = 4 /\ Len(<<a, b, c, d, e>>) = 5
OBVIOUS

LEMMA Concat11 ==
  ASSUME NEW a \in Steps, NEW b \in Steps
  PROVE  <<a>> \o <<b>> = <<a, b>>
<1>1. \A i \in 1..2 : (<<a>> \o <<b>>)[i] = <<a, b>>[i]
  BY Tuples, ConcatProperties
<1>2. <<a>> \o <<b>> \in Seq(Steps) /\ Len(<<a>> \o <<b>>) = 2
  BY Tuples, ConcatProperties
<1>3. <<a, b>> \in Seq(Steps) /\ Len(<<a, b>>) = 2
  BY Tuples
<1>. QED  BY <1>1, <1>2, <1>3, SeqEqual

LEMMA Concat12 ==
  ASSUME NEW a \in Steps, NEW b \in Steps, NEW c \in Steps
  PROVE  <<a>> \o <<b, c>> = <<a, b, c>>
<1>1. \A i \in 1..3 : (<<a>> \o <<b, c>>)[i] = <<a, b, c>>[i]
  BY Tuples, ConcatProperties
<1>2. <<a>> \o <<b, c>> \in Seq(Steps) /\ Len(<<a>> \o <<b, c>>) = 3
  BY Tuples, ConcatProperties
<1>3. <<a, b, c>> \in Seq(Steps) /\ Len(<<a, b, c>>) = 3
  BY Tuples
<1>. QED  BY <1>1, <1>2, <1>3, SeqEqual

LEMMA Concat21 ==
  ASSUME NEW a \in Steps, NEW b \in Steps, NEW c \in Steps
  PROVE  <<a, b>> \o <<c>> = <<a, b, c>>
<1>1. \A i \in 1..3 : (<<a, b>> \o <<c>>)[i] = <<a, b, c>>[i]
  BY Tuples, ConcatProperties
<1>2. <<a, b>> \o <<c>> \in Seq(Steps) /\ Len(<<a, b>> \o <<c>>) = 3
  BY Tuples, ConcatProperties
<1>3. <<a, b, c>> \in Seq(Steps) /\ Len(<<a, b, c>>) = 3
  BY Tuples
<1>. QED  BY <1>1, <1>2, <1>3, SeqEqual

LEMMA Concat31 ==
  ASSUME NEW a \in Steps, NEW b \in Steps, NEW c \in Steps, NEW d \in Steps
  PROVE  <<a, b, c>> \o <<d>> = <<a, b, c, d>>
<1>1. \A i \in 1..4 : (<<a, b, c>> \o <<d>>)[i] = <<a, b, c, d>>[i]
  BY Tuples, ConcatProperties
<1>2. <<a, b, c>> \o <<d>> \in Seq(Steps) /\ Len(<<a, b, c>> \o <<d>>) = 4
  BY Tuples, ConcatProperties
<1>3. <<a, b, c, d>> \in Seq(Steps) /\ Len(<<a, b, c, d>>) = 4
  BY Tuples
<1>. QED  BY <1>1, <1>2, <1>3, SeqEqual

LEMMA Concat41 ==
  ASSUME NEW a \in Steps, NEW b \in Steps, NEW c \in Steps, NEW d \in Steps, NEW e \in Steps
  PROVE  <<a, b, c, d>> \o <<e>> = <<a, b, c, d, e>>
<1>1. \A i \in 1..5 : (<<a, b, c, d>> \o <<e>>)[i] = <<a, b, c, d, e>>[i]
  BY Tuples, ConcatProperties
<1>2. <<a, b, c, d>> \o <<e>> \in Seq(Steps) /\ Len(<<a, b, c, d>> \o <<e>>) = 5
  BY Tuples, ConcatProperties
<1>3. <<a, b, c, d, e>> \in Seq(Steps) /\ Len(<<a, b, c, d, e>>) = 5
  BY Tuples
<1>. QED  BY <1>1, <1>2, <1>3, SeqEqual

LEMMA StepsAre ==
  "readInbox" \in Steps /\ "readLedger" \in Steps /\ "ledger" \in Steps /\ "outbox" \in Steps
    /\ "state" \in Steps /\ "inboxes" \in Steps /\ "outboxes" \in Steps /\ "log" \in Steps
BY DEF Steps

(* A pass begins with the whole path.                                      *)
LEMMA PassIsPath ==
  ASSUME NEW c \in BOOLEAN, NEW k \in BOOLEAN, NEW r \in BOOLEAN
  PROVE  PassSteps(c, k, r) \in Path(c, k, r) /\ Head(PassSteps(c, k, r)) = "readInbox"
<1>a. \A s \in Seq(Steps) : s \o <<>> = s
  BY ConcatEmptySeq
<1>b0. <<"readInbox">> \o <<"readLedger", "ledger">>
         = <<"readInbox", "readLedger", "ledger">>
  BY Concat12, StepsAre
<1>b1. <<"readInbox", "readLedger", "ledger">> \o <<>>
         = <<"readInbox", "readLedger", "ledger">>
  BY <1>a, Tuples, StepsAre
<1>b2. <<"readInbox", "readLedger", "ledger">> \o <<"outbox">>
         = <<"readInbox", "readLedger", "ledger", "outbox">>
  BY Concat31, StepsAre
<1>b3. <<"readInbox", "readLedger", "ledger">> \o <<"state">>
         = <<"readInbox", "readLedger", "ledger", "state">>
  BY Concat31, StepsAre
<1>b4. <<"readInbox", "readLedger", "ledger", "outbox">> \o <<>>
         = <<"readInbox", "readLedger", "ledger", "outbox">>
  BY <1>a, Tuples, StepsAre
<1>b5. <<"readInbox", "readLedger", "ledger", "outbox">> \o <<"state">>
         = <<"readInbox", "readLedger", "ledger", "outbox", "state">>
  BY Concat41, StepsAre
<1>b6. <<"readInbox">> \o <<>>
         = <<"readInbox">>
  BY <1>a, Tuples, StepsAre
<1>b7. <<"readInbox">> \o <<"outbox">>
         = <<"readInbox", "outbox">>
  BY Concat11, StepsAre
<1>b8. <<"readInbox">> \o <<"state">>
         = <<"readInbox", "state">>
  BY Concat11, StepsAre
<1>b9. <<"readInbox", "outbox">> \o <<>>
         = <<"readInbox", "outbox">>
  BY <1>a, Tuples, StepsAre
<1>b10. <<"readInbox", "outbox">> \o <<"state">>
         = <<"readInbox", "outbox", "state">>
  BY Concat21, StepsAre
<1>1. CASE c /\ k /\ r
  <2>1. PassSteps(c, k, r) = <<"readInbox", "readLedger", "ledger", "outbox", "state">>
    BY <1>1, <1>b0, <1>b1, <1>b2, <1>b3, <1>b4, <1>b5, <1>b6, <1>b7, <1>b8, <1>b9, <1>b10 DEF PassSteps
  <2>. QED  BY <2>1, <1>1 DEF Path, CreditPath
<1>2. CASE c /\ ~k /\ r
  <2>1. PassSteps(c, k, r) = <<"readInbox", "readLedger", "ledger", "outbox">>
    BY <1>2, <1>b0, <1>b1, <1>b2, <1>b3, <1>b4, <1>b5, <1>b6, <1>b7, <1>b8, <1>b9, <1>b10 DEF PassSteps
  <2>. QED  BY <2>1, <1>2 DEF Path, CreditPath
<1>3. CASE c /\ k /\ ~r
  <2>1. PassSteps(c, k, r) = <<"readInbox", "readLedger", "ledger", "state">>
    BY <1>3, <1>b0, <1>b1, <1>b2, <1>b3, <1>b4, <1>b5, <1>b6, <1>b7, <1>b8, <1>b9, <1>b10 DEF PassSteps
  <2>. QED  BY <2>1, <1>3 DEF Path, CreditPath
<1>4. CASE c /\ ~k /\ ~r
  <2>1. PassSteps(c, k, r) = <<"readInbox", "readLedger", "ledger">>
    BY <1>4, <1>b0, <1>b1, <1>b2, <1>b3, <1>b4, <1>b5, <1>b6, <1>b7, <1>b8, <1>b9, <1>b10 DEF PassSteps
  <2>. QED  BY <2>1, <1>4 DEF Path, CreditPath
<1>5. CASE ~c /\ k /\ r
  <2>1. PassSteps(c, k, r) = <<"readInbox", "outbox", "state">>
    BY <1>5, <1>b0, <1>b1, <1>b2, <1>b3, <1>b4, <1>b5, <1>b6, <1>b7, <1>b8, <1>b9, <1>b10 DEF PassSteps
  <2>. QED  BY <2>1, <1>5 DEF Path, PlainPath
<1>6. CASE ~c /\ ~k /\ r
  <2>1. PassSteps(c, k, r) = <<"readInbox", "outbox">>
    BY <1>6, <1>b0, <1>b1, <1>b2, <1>b3, <1>b4, <1>b5, <1>b6, <1>b7, <1>b8, <1>b9, <1>b10 DEF PassSteps
  <2>. QED  BY <2>1, <1>6 DEF Path, PlainPath
<1>7. CASE ~c /\ k /\ ~r
  <2>1. PassSteps(c, k, r) = <<"readInbox", "state">>
    BY <1>7, <1>b0, <1>b1, <1>b2, <1>b3, <1>b4, <1>b5, <1>b6, <1>b7, <1>b8, <1>b9, <1>b10 DEF PassSteps
  <2>. QED  BY <2>1, <1>7 DEF Path, PlainPath
<1>8. CASE ~c /\ ~k /\ ~r
  <2>1. PassSteps(c, k, r) = <<"readInbox">>
    BY <1>8, <1>b0, <1>b1, <1>b2, <1>b3, <1>b4, <1>b5, <1>b6, <1>b7, <1>b8, <1>b9, <1>b10 DEF PassSteps
  <2>. QED  BY <2>1, <1>8 DEF Path, PlainPath
<1>. QED  BY <1>1, <1>2, <1>3, <1>4, <1>5, <1>6, <1>7, <1>8

(* What follows each step on a path.                                       *)
Follows(t, c, k, r) ==
    /\ t # <<>> /\ t \in Seq(Steps)
    /\ Tail(t) \in Path(c, k, r) \cup {<<>>}
    /\ Head(t) \in {"readInbox", "readLedger", "ledger", "outbox", "state"}
    /\ Head(t) = "readInbox" =>
          /\ c => Tail(t) # <<>> /\ Head(Tail(t)) = "readLedger"
          /\ ~c /\ Tail(t) # <<>> => Head(Tail(t)) = (IF r THEN "outbox" ELSE "state")
    /\ Head(t) = "readLedger" => c /\ Tail(t) # <<>> /\ Head(Tail(t)) = "ledger"
    /\ Head(t) = "ledger" =>
          /\ c
          /\ k \/ r => Tail(t) # <<>>
          /\ r => Head(Tail(t)) = "outbox"
          /\ k /\ ~r => Head(Tail(t)) = "state"
          /\ ~k /\ ~r => Tail(t) = <<>>
    /\ Head(t) = "outbox" =>
          /\ r
          /\ k => Tail(t) # <<>> /\ Head(Tail(t)) = "state"
          /\ ~k => Tail(t) = <<>>
    /\ Head(t) = "state" => k /\ Tail(t) = <<>>

LEMMA PathFollows ==
  ASSUME NEW c \in BOOLEAN, NEW k \in BOOLEAN, NEW r \in BOOLEAN, NEW t \in Path(c, k, r)
  PROVE  Follows(t, c, k, r)
<1>1. CASE c /\ k /\ r
  <2>1. CASE t = <<"readInbox", "readLedger", "ledger", "outbox", "state">>
    BY <2>1, <1>1 DEF Path, CreditPath, Follows, Steps
  <2>2. CASE t = <<"readLedger", "ledger", "outbox", "state">>
    BY <2>2, <1>1 DEF Path, CreditPath, Follows, Steps
  <2>3. CASE t = <<"ledger", "outbox", "state">>
    BY <2>3, <1>1 DEF Path, CreditPath, Follows, Steps
  <2>4. CASE t = <<"outbox", "state">>
    BY <2>4, <1>1 DEF Path, CreditPath, Follows, Steps
  <2>5. CASE t = <<"state">>
    BY <2>5, <1>1 DEF Path, CreditPath, Follows, Steps
  <2>. QED  BY <2>1, <2>2, <2>3, <2>4, <2>5, <1>1 DEF Path, CreditPath
<1>2. CASE c /\ ~k /\ r
  <2>1. CASE t = <<"readInbox", "readLedger", "ledger", "outbox">>
    BY <2>1, <1>2 DEF Path, CreditPath, Follows, Steps
  <2>2. CASE t = <<"readLedger", "ledger", "outbox">>
    BY <2>2, <1>2 DEF Path, CreditPath, Follows, Steps
  <2>3. CASE t = <<"ledger", "outbox">>
    BY <2>3, <1>2 DEF Path, CreditPath, Follows, Steps
  <2>4. CASE t = <<"outbox">>
    BY <2>4, <1>2 DEF Path, CreditPath, Follows, Steps
  <2>. QED  BY <2>1, <2>2, <2>3, <2>4, <1>2 DEF Path, CreditPath
<1>3. CASE c /\ k /\ ~r
  <2>1. CASE t = <<"readInbox", "readLedger", "ledger", "state">>
    BY <2>1, <1>3 DEF Path, CreditPath, Follows, Steps
  <2>2. CASE t = <<"readLedger", "ledger", "state">>
    BY <2>2, <1>3 DEF Path, CreditPath, Follows, Steps
  <2>3. CASE t = <<"ledger", "state">>
    BY <2>3, <1>3 DEF Path, CreditPath, Follows, Steps
  <2>4. CASE t = <<"state">>
    BY <2>4, <1>3 DEF Path, CreditPath, Follows, Steps
  <2>. QED  BY <2>1, <2>2, <2>3, <2>4, <1>3 DEF Path, CreditPath
<1>4. CASE c /\ ~k /\ ~r
  <2>1. CASE t = <<"readInbox", "readLedger", "ledger">>
    BY <2>1, <1>4 DEF Path, CreditPath, Follows, Steps
  <2>2. CASE t = <<"readLedger", "ledger">>
    BY <2>2, <1>4 DEF Path, CreditPath, Follows, Steps
  <2>3. CASE t = <<"ledger">>
    BY <2>3, <1>4 DEF Path, CreditPath, Follows, Steps
  <2>. QED  BY <2>1, <2>2, <2>3, <1>4 DEF Path, CreditPath
<1>5. CASE ~c /\ k /\ r
  <2>1. CASE t = <<"readInbox", "outbox", "state">>
    BY <2>1, <1>5 DEF Path, PlainPath, Follows, Steps
  <2>2. CASE t = <<"outbox", "state">>
    BY <2>2, <1>5 DEF Path, PlainPath, Follows, Steps
  <2>3. CASE t = <<"state">>
    BY <2>3, <1>5 DEF Path, PlainPath, Follows, Steps
  <2>. QED  BY <2>1, <2>2, <2>3, <1>5 DEF Path, PlainPath
<1>6. CASE ~c /\ ~k /\ r
  <2>1. CASE t = <<"readInbox", "outbox">>
    BY <2>1, <1>6 DEF Path, PlainPath, Follows, Steps
  <2>2. CASE t = <<"outbox">>
    BY <2>2, <1>6 DEF Path, PlainPath, Follows, Steps
  <2>. QED  BY <2>1, <2>2, <1>6 DEF Path, PlainPath
<1>7. CASE ~c /\ k /\ ~r
  <2>1. CASE t = <<"readInbox", "state">>
    BY <2>1, <1>7 DEF Path, PlainPath, Follows, Steps
  <2>2. CASE t = <<"state">>
    BY <2>2, <1>7 DEF Path, PlainPath, Follows, Steps
  <2>. QED  BY <2>1, <2>2, <1>7 DEF Path, PlainPath
<1>8. CASE ~c /\ ~k /\ ~r
  <2>1. CASE t = <<"readInbox">>
    BY <2>1, <1>8 DEF Path, PlainPath, Follows, Steps
  <2>. QED  BY <2>1, <1>8 DEF Path, PlainPath
<1>. QED  BY <1>1, <1>2, <1>3, <1>4, <1>5, <1>6, <1>7, <1>8

(* The least of some nodes is one of them.                                 *)
LEMMA FirstIsThere ==
  ASSUME NEW S, S \subseteq Nodes, S # {}
  PROVE  First(S) \in S
<1>. DEFINE Less == {ss \in Nat \X Nat : ss[1] < ss[2]}
<1>1. IsWellFoundedOn(Less, Nat)
  <2>1. OpToRel(<, Nat) = Less
    BY Zenon DEF OpToRel
  <2>. QED  BY <2>1, NatLessThanWellFounded, Zenon
<1>2. S \subseteq Nat
  BY TransportAssumption DEF TransportAssumption
<1>3. PICK n \in S : \A m \in S : ~(<<m, n>> \in Less)
  <2>. HIDE DEF Less
  <2>. QED  BY <1>1, <1>2, WFMin
<1>4. \A m \in S : n <= m
  <2>. SUFFICES ASSUME NEW m \in S  PROVE n <= m
    OBVIOUS
  <2>1. m \in Nat /\ n \in Nat /\ <<m, n>> \in Nat \X Nat /\ <<m, n>>[1] = m /\ <<m, n>>[2] = n
    BY <1>2
  <2>2. ~(m < n)
    BY <1>3, <2>1, Zenon
  <2>. QED  BY <2>1, <2>2
<1>. QED  BY <1>4 DEF First

-----------------------------------------------------------------------------
(* What a running command holds, and what it is about to do.               *)
Held == [cmd : {"none", "materialize", "process", "collect"}, todo : Seq(Steps),
         node : {0} \cup Nodes, nodes : SUBSET Nodes, ids : SUBSET IDs, known : SUBSET IDs,
         credits : BOOLEAN, keeps : BOOLEAN, reports : BOOLEAN, ledger : [IDs -> Nat]]

Stands(h, step) == h.todo # <<>> /\ Head(h.todo) = step

Passing(h) ==
    /\ h.cmd = "process" /\ h.node \in Nodes
    /\ h.ids \subseteq Addressed(h.node) /\ h.known \subseteq Addressed(h.node)
    /\ h.todo \in Path(h.credits, h.keeps, h.reports)
Sorting(h) == h.cmd = "materialize" /\ h.todo = <<"inboxes">> /\ h.nodes # {}
Gathering(h, boxes) ==
    /\ h.cmd = "collect" /\ h.nodes \subseteq boxes
    /\ h.todo = <<"log">> \/ (h.todo = <<"outboxes", "log">> /\ h.nodes # {})
Shaped(h, boxes) == h = Idle \/ Sorting(h) \/ Passing(h) \/ Gathering(h, boxes)

Files(f) == DOMAIN f \subseteq Nodes /\ \A n \in DOMAIN f : f[n] \subseteq Addressed(n)

DiskInv ==
    /\ log \in {{}} \cup Logs /\ collected \in SUBSET IDs
    /\ Files(inbox) /\ Files(outbox)
    /\ ledger \in [IDs -> Nat]
    /\ DOMAIN state = Nodes /\ \A n \in Nodes : state[n] \subseteq Addressed(n)
HistoryInv ==
    /\ lost \in SUBSET IDs /\ unlisted \in SUBSET IDs
    /\ crowded \in SUBSET Nodes /\ repeated \in SUBSET Nodes
    /\ commands \in 0..MaxCommands /\ faults \in 0..MaxFaults
ProcInv ==
    /\ proc \in [Procs -> Held]
    /\ \A p \in Procs : Shaped(proc[p], DOMAIN outbox)

TypeInv == DiskInv /\ HistoryInv /\ ProcInv

LEMMA IdleIsHeld == Idle \in Held /\ Idle.todo = <<>> /\ Idle.cmd = "none"
BY DEF Idle, Held, NoRecords

(* Where a command stands tells which command it is.                       *)
LEMMA PassStands ==
  ASSUME NEW h \in Held, NEW boxes, Shaped(h, boxes),
         NEW step \in {"readInbox", "readLedger", "ledger", "outbox", "state"}, Stands(h, step)
  PROVE  Passing(h)
<1>1. h # Idle
  BY IdleIsHeld DEF Stands
<1>2. ~Sorting(h) /\ ~Gathering(h, boxes)
  BY DEF Stands, Sorting, Gathering
<1>. QED  BY <1>1, <1>2 DEF Shaped

LEMMA OtherStands ==
  ASSUME NEW h \in Held, NEW boxes, Shaped(h, boxes)
  PROVE  /\ Stands(h, "inboxes") => Sorting(h) /\ Tail(h.todo) = <<>>
         /\ Stands(h, "outboxes") =>
               Gathering(h, boxes) /\ Tail(h.todo) = <<"log">> /\ h.nodes # {}
         /\ Stands(h, "log") => Gathering(h, boxes) /\ Tail(h.todo) = <<>>
<1>1. Stands(h, "inboxes") \/ Stands(h, "outboxes") \/ Stands(h, "log") => h # Idle /\ ~Passing(h)
  <2>1. Passing(h) => Head(h.todo) \in {"readInbox", "readLedger", "ledger", "outbox", "state"}
    BY PathFollows DEF Passing, Follows, Held
  <2>. QED  BY <2>1, IdleIsHeld DEF Stands
<1>2. Stands(h, "inboxes") => Sorting(h) /\ h.todo = <<"inboxes">>
  BY <1>1 DEF Shaped, Sorting, Gathering, Stands
<1>3. Stands(h, "outboxes") => Gathering(h, boxes) /\ h.todo = <<"outboxes", "log">> /\ h.nodes # {}
  BY <1>1 DEF Shaped, Sorting, Gathering, Stands
<1>4. Stands(h, "log") => Gathering(h, boxes) /\ h.todo = <<"log">>
  BY <1>1 DEF Shaped, Sorting, Gathering, Stands
<1>5. /\ Tail(<<"inboxes">>) = <<>> /\ Tail(<<"log">>) = <<>>
      /\ Tail(<<"outboxes", "log">>) = <<"log">>
  OBVIOUS
<1>. QED  BY <1>2, <1>3, <1>4, <1>5, Zenon

(* A command that proceeds has ended or holds what it held, a step on.     *)
Onward(g, h) ==
    /\ g \in Held
    /\ IF Tail(h.todo) = <<>> THEN g = Idle
       ELSE /\ g.todo = Tail(h.todo) /\ g.cmd = h.cmd /\ g.node = h.node /\ g.nodes = h.nodes
            /\ g.ids = h.ids /\ g.known = h.known /\ g.ledger = h.ledger
            /\ g.credits = h.credits /\ g.keeps = h.keeps /\ g.reports = h.reports

Elsewhere(p) == \A q \in Procs \ {p} : proc'[q] = proc[q]

LEMMA Proceeds ==
  ASSUME proc \in [Procs -> Held], NEW p \in Procs, NEW h \in Held, h.todo # <<>>, Proceed(p, h)
  PROVE  proc' \in [Procs -> Held] /\ Onward(proc'[p], h) /\ Elsewhere(p)
<1>1. Tail(h.todo) \in Seq(Steps)
  BY DEF Held
<1>. DEFINE g == IF Tail(h.todo) = <<>> THEN Idle ELSE [h EXCEPT !.todo = Tail(h.todo)]
<1>2. g \in Held
  BY <1>1, IdleIsHeld DEF Held
<1>3. Onward(g, h)
  BY <1>2 DEF Onward, Held
<1>4. proc' = [proc EXCEPT ![p] = g]
  BY DEF Proceed
<1>. HIDE DEF g
<1>. QED  BY <1>2, <1>3, <1>4 DEF Elsewhere

(* A pass that proceeds is a pass, or has ended.                           *)
LEMMA PassProceeds ==
  ASSUME NEW h \in Held, NEW g, Passing(h), Onward(g, h)
  PROVE  IF Tail(h.todo) = <<>> THEN g = Idle ELSE Passing(g)
<1>1. Tail(h.todo) \in Path(h.credits, h.keeps, h.reports) \cup {<<>>}
  BY PathFollows DEF Follows, Held, Passing
<1>. QED  BY <1>1 DEF Onward, Passing

LEMMA ProcKept ==
  ASSUME ProcInv, NEW p \in Procs, proc' \in [Procs -> Held], Elsewhere(p),
         DOMAIN outbox \subseteq DOMAIN outbox', Shaped(proc'[p], DOMAIN outbox')
  PROVE  ProcInv'
<1>1. \A q \in Procs \ {p} : Shaped(proc'[q], DOMAIN outbox')
  BY DEF ProcInv, Elsewhere, Shaped, Gathering
<1>. QED  BY <1>1 DEF ProcInv

LEMMA Replaced ==
  ASSUME proc \in [Procs -> Held], NEW p \in Procs, NEW g \in Held, proc' = [proc EXCEPT ![p] = g]
  PROVE  proc' \in [Procs -> Held] /\ proc'[p] = g /\ Elsewhere(p)
BY DEF Elsewhere

(* One step of a pass: what Proceed leaves of a pass is shaped.            *)
LEMMA PassMoves ==
  ASSUME ProcInv, NEW p \in Procs, NEW h \in Held, Passing(h), Proceed(p, h),
         DOMAIN outbox \subseteq DOMAIN outbox'
  PROVE  ProcInv'
<1>1. h.todo # <<>>
  BY PathFollows DEF Passing, Follows, Held
<1>2. proc' \in [Procs -> Held] /\ Onward(proc'[p], h) /\ Elsewhere(p)
  BY <1>1, Proceeds DEF ProcInv
<1>3. proc'[p] = Idle \/ Passing(proc'[p])
  BY <1>2, PassProceeds
<1>. QED  BY <1>2, <1>3, ProcKept DEF Shaped

LEMMA BatchTyped ==
  /\ Nodes \subseteq Nat /\ \A i \in IDs : Batch[i] \in Nodes
  /\ \A x \in {{}} \cup Logs : x \subseteq IDs
  /\ MaxCommands \in Nat /\ MaxFaults \in Nat
BY TransportAssumption DEF TransportAssumption

LEMMA PutTyped ==
  ASSUME NEW f, Files(f), NEW n \in Nodes, NEW x, x \subseteq Addressed(n)
  PROVE  Files(Put(f, n, x)) /\ DOMAIN f \subseteq DOMAIN Put(f, n, x)
BY DEF Files, Put

LEMMA TypeInit == Init => TypeInv
<1>. SUFFICES ASSUME Init  PROVE TypeInv
  OBVIOUS
<1>1. DiskInv
  BY DEF Init, DiskInv, Files, NoRecords
<1>2. HistoryInv
  <2>1. lost = {} /\ unlisted = {} /\ crowded = {} /\ repeated = {} /\ commands = 0 /\ faults = 0
    BY DEF Init
  <2>2. 0 \in 0..MaxCommands /\ 0 \in 0..MaxFaults
    BY BatchTyped
  <2>. QED  BY <2>1, <2>2 DEF HistoryInv
<1>3. ProcInv
  BY IdleIsHeld DEF Init, ProcInv, Shaped
<1>. QED  BY <1>1, <1>2, <1>3 DEF TypeInv

LEMMA TypeStep == TypeInv /\ [Next]_vars => TypeInv'
<1>. SUFFICES ASSUME DiskInv, HistoryInv, ProcInv, [Next]_vars
              PROVE  DiskInv' /\ HistoryInv' /\ ProcInv'
  BY DEF TypeInv
<1>. USE DEF disk, history, counts
<1>0. CASE UNCHANGED vars
  BY <1>0 DEF vars, DiskInv, HistoryInv, ProcInv
<1>1. CASE Dispatch
  <2>1. DiskInv'
    BY <1>1 DEF Dispatch, DiskInv
  <2>2. HistoryInv'
    BY <1>1, BatchTyped DEF Dispatch, HistoryInv
  <2>3. ProcInv'
    BY <1>1 DEF Dispatch, ProcInv
  <2>. QED  BY <2>1, <2>2, <2>3
<1>2. ASSUME NEW p \in Procs, Materialize(p)  PROVE DiskInv' /\ HistoryInv' /\ ProcInv'
  <2>. DEFINE g == [Idle EXCEPT !.cmd = "materialize", !.todo = <<"inboxes">>, !.ids = log,
                                !.nodes = {Batch[i] : i \in log}]
  <2>1. log \subseteq IDs /\ log # {}
    BY <1>2, BatchTyped DEF Materialize, DiskInv
  <2>2. {Batch[i] : i \in log} \subseteq Nodes /\ {Batch[i] : i \in log} # {}
    BY <2>1, BatchTyped
  <2>3. <<"inboxes">> \in Seq(Steps)
    BY StepsAre
  <2>4. g \in Held /\ Sorting(g)
    BY <2>1, <2>2, <2>3 DEF Idle, NoRecords, Held, Sorting
  <2>5. proc' = [proc EXCEPT ![p] = g]
    BY <1>2 DEF Materialize, Begin
  <2>. HIDE DEF g
  <2>6. ProcInv'
    <3>1. proc' \in [Procs -> Held] /\ proc'[p] = g /\ Elsewhere(p)
      BY <2>4, <2>5, Replaced DEF ProcInv
    <3>. QED  BY <1>2, <2>4, <3>1, ProcKept DEF Materialize, Shaped
  <2>7. HistoryInv'
    BY <1>2, BatchTyped DEF Materialize, Begin, HistoryInv
  <2>8. DiskInv'
    BY <1>2 DEF Materialize, DiskInv
  <2>. QED  BY <2>6, <2>7, <2>8
<1>3. ASSUME NEW p \in Procs, WriteInbox(p)  PROVE DiskInv' /\ HistoryInv' /\ ProcInv'
  <2>. DEFINE h == proc[p]  n == First(h.nodes)  left == h.nodes \ {n}
  <2>1. h \in Held /\ h.todo # <<>> /\ Sorting(h) /\ Tail(h.todo) = <<>>
    BY <1>3, OtherStands DEF WriteInbox, At, Stands, ProcInv
  <2>2. h.nodes \subseteq Nodes /\ h.nodes # {}
    BY <2>1 DEF Sorting, Held
  <2>3. n \in Nodes
    BY <2>2, FirstIsThere
  <2>4. DiskInv'
    <3>1. {i \in h.ids : Batch[i] = n} \subseteq Addressed(n)
      BY <2>1 DEF Held, Addressed
    <3>. QED  BY <1>3, <2>3, <3>1, PutTyped DEF WriteInbox, DiskInv
  <2>5. CASE left = {}
    <3>. HIDE DEF h
    <3>1. Proceed(p, h)
      BY <1>3, <2>5 DEF WriteInbox, h
    <3>2. proc' \in [Procs -> Held] /\ Onward(proc'[p], h) /\ Elsewhere(p)
      BY <2>1, <3>1, Proceeds DEF ProcInv
    <3>. QED  BY <1>3, <2>1, <2>4, <3>2, ProcKept DEF WriteInbox, HistoryInv, Onward, Shaped
  <2>6. CASE left # {}
    <3>. DEFINE g == [h EXCEPT !.nodes = left]
    <3>1. proc' = [proc EXCEPT ![p] = g]
      BY <1>3, <2>6 DEF WriteInbox
    <3>2. g \in Held /\ Sorting(g)
      BY <2>1, <2>2, <2>6 DEF Held, Sorting
    <3>. HIDE DEF g
    <3>3. proc' \in [Procs -> Held] /\ proc'[p] = g /\ Elsewhere(p)
      BY <3>1, <3>2, Replaced DEF ProcInv
    <3>. QED  BY <1>3, <2>4, <3>2, <3>3, ProcKept DEF WriteInbox, HistoryInv, Shaped
  <2>. QED  BY <2>5, <2>6
<1>4. ASSUME NEW p \in Procs, NEW n \in Nodes, NEW c \in BOOLEAN, NEW k \in BOOLEAN, NEW r \in BOOLEAN,
                Process(p, n, c, k, r)
      PROVE  DiskInv' /\ HistoryInv' /\ ProcInv'
  <2>. DEFINE g == [Idle EXCEPT !.cmd = "process", !.todo = PassSteps(c, k, r), !.node = n, !.known = Known(n, k),
                                !.credits = c, !.keeps = k, !.reports = r]
  <2>1. PassSteps(c, k, r) \in Path(c, k, r) /\ PassSteps(c, k, r) \in Seq(Steps)
    BY PassIsPath, PathFollows DEF Follows
  <2>2. Known(n, k) \subseteq Addressed(n) /\ Known(n, k) \subseteq IDs
    BY DEF Known, DiskInv, Addressed
  <2>3. g \in Held /\ Passing(g)
    BY <2>1, <2>2 DEF Idle, NoRecords, Held, Passing
  <2>4. proc' = [proc EXCEPT ![p] = g]
    BY <1>4 DEF Process, Begin
  <2>. HIDE DEF g
  <2>5. ProcInv'
    <3>1. proc' \in [Procs -> Held] /\ proc'[p] = g /\ Elsewhere(p)
      BY <2>3, <2>4, Replaced DEF ProcInv
    <3>. QED  BY <1>4, <2>3, <3>1, ProcKept DEF Process, Shaped
  <2>6. HistoryInv'
    BY <1>4, BatchTyped DEF Process, Begin, HistoryInv
  <2>7. DiskInv'
    BY <1>4 DEF Process, DiskInv
  <2>. QED  BY <2>5, <2>6, <2>7
<1>5. ASSUME NEW p \in Procs, ReadInbox(p)  PROVE DiskInv' /\ HistoryInv' /\ ProcInv'
  <2>1. proc[p] \in Held /\ Passing(proc[p])
    BY <1>5, PassStands DEF ReadInbox, At, Stands, ProcInv
  <2>2. ProcInv'
    <3>1. CASE HasInbox(proc[p].node)
      <4>. DEFINE g == [proc[p] EXCEPT !.ids = inbox[proc[p].node]]
      <4>1. g \in Held /\ Passing(g)
        BY <2>1, <3>1 DEF Held, Passing, HasInbox, DiskInv, Files, Addressed
      <4>2. Proceed(p, g)
        BY <1>5, <3>1 DEF ReadInbox
      <4>. HIDE DEF g
      <4>. QED  BY <1>5, <4>1, <4>2, PassMoves DEF ReadInbox
    <3>2. CASE ~HasInbox(proc[p].node)
      <4>1. proc' = [proc EXCEPT ![p] = Idle]
        BY <1>5, <3>2 DEF ReadInbox
      <4>2. proc' \in [Procs -> Held] /\ proc'[p] = Idle /\ Elsewhere(p)
        BY <4>1, IdleIsHeld, Replaced DEF ProcInv
      <4>. QED  BY <1>5, <4>2, ProcKept DEF ReadInbox, Shaped
    <3>. QED  BY <3>1, <3>2
  <2>. QED  BY <1>5, <2>2 DEF ReadInbox, DiskInv, HistoryInv
<1>6. ASSUME NEW p \in Procs, ReadLedger(p)  PROVE DiskInv' /\ HistoryInv' /\ ProcInv'
  <2>. DEFINE g == [proc[p] EXCEPT !.ledger = ledger]
  <2>1. g \in Held /\ Passing(g)
    <3>1. proc[p] \in Held /\ Passing(proc[p])
      BY <1>6, PassStands DEF ReadLedger, At, Stands, ProcInv
    <3>. QED  BY <3>1 DEF Held, Passing, DiskInv
  <2>2. Proceed(p, g)
    BY <1>6 DEF ReadLedger
  <2>. HIDE DEF g
  <2>. QED  BY <1>6, <2>1, <2>2, PassMoves DEF ReadLedger, DiskInv, HistoryInv
<1>7. ASSUME NEW p \in Procs, SaveLedger(p)  PROVE DiskInv' /\ HistoryInv' /\ ProcInv'
  <2>1. proc[p] \in Held /\ Passing(proc[p]) /\ Proceed(p, proc[p])
    BY <1>7, PassStands DEF SaveLedger, At, Stands, ProcInv
  <2>2. DiskInv'
    BY <1>7, <2>1 DEF SaveLedger, DiskInv, Held
  <2>3. HistoryInv'
    BY <1>7 DEF SaveLedger, HistoryInv
  <2>. QED  BY <1>7, <2>1, <2>2, <2>3, PassMoves DEF SaveLedger
<1>8. ASSUME NEW p \in Procs, WriteOutbox(p)  PROVE DiskInv' /\ HistoryInv' /\ ProcInv'
  <2>1. proc[p] \in Held /\ Passing(proc[p]) /\ Proceed(p, proc[p])
    BY <1>8, PassStands DEF WriteOutbox, At, Stands, ProcInv
  <2>2. Fresh(p) \subseteq Addressed(proc[p].node) /\ proc[p].node \in Nodes
    BY <2>1 DEF Fresh, Passing
  <2>3. Files(outbox') /\ DOMAIN outbox \subseteq DOMAIN outbox'
    BY <1>8, <2>2, PutTyped DEF WriteOutbox, DiskInv
  <2>4. DiskInv' /\ HistoryInv'
    <3>1. Unlisted(p) \subseteq IDs
      BY <2>2 DEF Unlisted, Addressed
    <3>. QED  BY <1>8, <2>3, <3>1 DEF WriteOutbox, DiskInv, HistoryInv
  <2>. QED  BY <2>1, <2>3, <2>4, PassMoves
<1>9. ASSUME NEW p \in Procs, SaveState(p)  PROVE DiskInv' /\ HistoryInv' /\ ProcInv'
  <2>1. proc[p] \in Held /\ Passing(proc[p]) /\ Proceed(p, proc[p])
    BY <1>9, PassStands DEF SaveState, At, Stands, ProcInv
  <2>2. DiskInv'
    BY <1>9, <2>1 DEF SaveState, DiskInv, Fresh, Passing
  <2>3. HistoryInv'
    <3>1. Unlisted(p) \subseteq IDs
      BY <2>1 DEF Unlisted, Fresh, Held
    <3>. QED  BY <1>9, <3>1 DEF SaveState, HistoryInv
  <2>. QED  BY <1>9, <2>1, <2>2, <2>3, PassMoves DEF SaveState
<1>10. ASSUME NEW p \in Procs, Collect(p)  PROVE DiskInv' /\ HistoryInv' /\ ProcInv'
  <2>. DEFINE g == [Idle EXCEPT !.cmd = "collect", !.nodes = DOMAIN outbox,
                                !.todo = IF DOMAIN outbox = {} THEN <<"log">>
                                         ELSE <<"outboxes", "log">>]
  <2>1. <<"log">> \in Seq(Steps) /\ <<"outboxes", "log">> \in Seq(Steps)
    BY StepsAre, Tuples
  <2>2. g \in Held /\ Gathering(g, DOMAIN outbox)
    BY <2>1 DEF Idle, NoRecords, Held, Gathering, DiskInv, Files
  <2>3. proc' = [proc EXCEPT ![p] = g]
    BY <1>10 DEF Collect, Begin
  <2>. HIDE DEF g
  <2>4. ProcInv'
    <3>1. proc' \in [Procs -> Held] /\ proc'[p] = g /\ Elsewhere(p)
      BY <2>2, <2>3, Replaced DEF ProcInv
    <3>. QED  BY <1>10, <2>2, <3>1, ProcKept DEF Collect, Shaped
  <2>5. HistoryInv'
    BY <1>10, BatchTyped DEF Collect, Begin, HistoryInv
  <2>6. DiskInv'
    BY <1>10 DEF Collect, DiskInv
  <2>. QED  BY <2>4, <2>5, <2>6
<1>11. ASSUME NEW p \in Procs, ReadOutbox(p)  PROVE DiskInv' /\ HistoryInv' /\ ProcInv'
  <2>. DEFINE n == First(proc[p].nodes)  g == Gathered(p, n)
  <2>1. /\ proc[p] \in Held /\ proc[p].todo # <<>> /\ Gathering(proc[p], DOMAIN outbox)
        /\ Tail(proc[p].todo) = <<"log">> /\ proc[p].nodes # {} /\ Stands(proc[p], "outboxes")
    BY <1>11, OtherStands DEF ReadOutbox, At, Stands, ProcInv
  <2>2. n \in proc[p].nodes /\ n \in Nodes /\ n \in DOMAIN outbox
    BY <2>1, FirstIsThere DEF Gathering, Held
  <2>3. /\ g \in Held /\ g.todo = proc[p].todo /\ g.cmd = "collect" /\ g.nodes \subseteq proc[p].nodes
        /\ g.nodes \subseteq DOMAIN outbox
    BY <2>1, <2>2 DEF Gathered, Held, Gathering, DiskInv, Files, Addressed
  <2>4. IF g.nodes = {} THEN Proceed(p, g) ELSE proc' = [proc EXCEPT ![p] = g]
    BY <1>11 DEF ReadOutbox
  <2>. HIDE DEF g, n
  <2>5. ProcInv'
    <3>1. CASE g.nodes = {}
      <4>1. proc' \in [Procs -> Held] /\ Onward(proc'[p], g) /\ Elsewhere(p)
        BY <2>1, <2>3, <2>4, <3>1, Proceeds DEF ProcInv
      <4>2. Gathering(proc'[p], DOMAIN outbox)
        BY <2>1, <2>3, <4>1, <<"log">> # <<>> DEF Onward, Gathering
      <4>. QED  BY <1>11, <4>1, <4>2, ProcKept DEF ReadOutbox, Shaped
    <3>2. CASE g.nodes # {}
      <4>1. proc' \in [Procs -> Held] /\ proc'[p] = g /\ Elsewhere(p)
        BY <2>3, <2>4, <3>2, Replaced DEF ProcInv
      <4>2. Gathering(g, DOMAIN outbox)
        BY <2>1, <2>3, <3>2 DEF Gathering
      <4>. QED  BY <1>11, <4>1, <4>2, ProcKept DEF ReadOutbox, Shaped
    <3>. QED  BY <3>1, <3>2
  <2>. QED  BY <1>11, <2>5 DEF ReadOutbox, DiskInv, HistoryInv
<1>12. ASSUME NEW p \in Procs, WriteCollected(p)  PROVE DiskInv' /\ HistoryInv' /\ ProcInv'
  <2>1. proc[p] \in Held /\ proc[p].todo # <<>> /\ Tail(proc[p].todo) = <<>> /\ Proceed(p, proc[p])
    BY <1>12, OtherStands DEF WriteCollected, At, Stands, ProcInv
  <2>2. proc' \in [Procs -> Held] /\ Onward(proc'[p], proc[p]) /\ Elsewhere(p)
    BY <2>1, Proceeds DEF ProcInv
  <2>3. ProcInv'
    BY <1>12, <2>1, <2>2, ProcKept DEF WriteCollected, Onward, Shaped
  <2>4. DiskInv'
    BY <1>12, <2>1 DEF WriteCollected, DiskInv, Held
  <2>. QED  BY <1>12, <2>3, <2>4 DEF WriteCollected, HistoryInv
<1>13. ASSUME NEW p \in Procs, Die(p)  PROVE DiskInv' /\ HistoryInv' /\ ProcInv'
  <2>1. proc' \in [Procs -> Held] /\ proc'[p] = Idle /\ Elsewhere(p)
    BY <1>13, IdleIsHeld, Replaced DEF Die, ProcInv
  <2>2. ProcInv'
    BY <1>13, <2>1, ProcKept DEF Die, Shaped
  <2>3. At(p, "outbox") \/ At(p, "state") => proc[p].node \in Nodes
    BY PassStands DEF At, Stands, ProcInv, Passing
  <2>4. repeated' \in SUBSET Nodes
    BY <1>13, <2>3 DEF Die, HistoryInv
  <2>5. faults' \in 0..MaxFaults
    BY <1>13, BatchTyped DEF Die, HistoryInv
  <2>6. HistoryInv'
    BY <1>13, <2>4, <2>5 DEF Die, HistoryInv
  <2>. QED  BY <1>13, <2>2, <2>6 DEF Die, DiskInv
<1>. QED
  BY <1>0, <1>1, <1>2, <1>3, <1>4, <1>5, <1>6, <1>7, <1>8, <1>9, <1>10, <1>11, <1>12, <1>13
  DEF Next

(* Files and commands have the shape the code gives them.                  *)
THEOREM TransportTypeCorrect == Spec => []TypeOK
<1>1. TypeInv => TypeOK
  <2>. SUFFICES ASSUME TypeInv  PROVE TypeOK
    OBVIOUS
  <2>1. ASSUME NEW p \in Procs, At(p, "inboxes") \/ At(p, "outboxes")
        PROVE  proc[p].nodes # {}
    BY <2>1, OtherStands DEF TypeInv, ProcInv, At, Stands, Sorting
  <2>2. \A f \in {inbox, outbox} :
           DOMAIN f \subseteq Nodes /\ \A n \in DOMAIN f : f[n] \subseteq Addressed(n)
    BY DEF TypeInv, DiskInv, Files
  <2>3. \A p \in Procs : proc[p] \in Held
    BY DEF TypeInv, ProcInv
  <2>. QED  BY <2>1, <2>2, <2>3 DEF TypeInv, DiskInv, HistoryInv, TypeOK, Held
<1>. QED  BY <1>1, TypeInit, TypeStep, PTL DEF Spec

-----------------------------------------------------------------------------
(* Claims: what files or commands say of assignments, none without credit. *)
Claims(h, i) ==
    \/ h.cmd = "collect" /\ i \in h.ids
    \/ /\ h.cmd = "process"
       /\ \/ i \in h.known
          \/ h.credits /\ i \in h.ids /\ (Stands(h, "outbox") \/ Stands(h, "state"))
Claimed(i) ==
    \/ i \in collected
    \/ \E n \in Nodes : i \in state[n]
    \/ \E n \in DOMAIN outbox : i \in outbox[n]
    \/ \E p \in Procs : Claims(proc[p], i)
Accounted(i) == ledger[i] >= 1 \/ i \in lost \/ i \in unlisted
CreditInv == \A i \in IDs : Claimed(i) => Accounted(i)

LEMMA IdleClaims == \A i : ~Claims(Idle, i)
BY IdleIsHeld DEF Claims

(* Only with the ledger saved does a pass come to claim anything new.      *)
LEMMA PassClaims ==
  ASSUME NEW h \in Held, NEW g, Passing(h), Onward(g, h), NEW i, Claims(g, i)
  PROVE  h.cmd = "process" /\ (Claims(h, i) \/ (Stands(h, "ledger") /\ i \in h.ids))
<1>1. Follows(h.todo, h.credits, h.keeps, h.reports)
  BY PathFollows DEF Held, Passing
<1>2. /\ Tail(h.todo) # <<>> /\ g.todo = Tail(h.todo) /\ g.cmd = "process" /\ g.ids = h.ids
      /\ g.known = h.known /\ g.credits = h.credits
  BY IdleClaims DEF Onward, Passing
<1>. QED  BY <1>1, <1>2 DEF Claims, Stands, Follows, Passing

LEMMA ClaimsElsewhere ==
  ASSUME NEW p \in Procs, Elsewhere(p), UNCHANGED <<outbox, state, collected>>, NEW i, Claimed(i)',
         Claims(proc'[p], i) => Claimed(i)
  PROVE  Claimed(i)
<1>1. (\E q \in Procs : Claims(proc'[q], i)) => Claimed(i)
  BY DEF Elsewhere, Claimed
<1>2. (i \in collected \/ (\E n \in Nodes : i \in state[n]) \/ \E n \in DOMAIN outbox : i \in outbox[n])
      => Claimed(i)
  BY DEF Claimed
<1>. QED  BY <1>1, <1>2 DEF Claimed, Claims, Stands

LEMMA CreditStep == TypeInv /\ CreditInv /\ [Next]_vars => CreditInv'
<1>. SUFFICES ASSUME TypeInv, CreditInv, [Next]_vars, NEW i \in IDs, Claimed(i)'
              PROVE  Accounted(i)'
  BY DEF CreditInv
<1>. USE DEF disk, history, counts
<1>a. DiskInv /\ ProcInv
  BY DEF TypeInv
<1>b. Claimed(i) /\ UNCHANGED <<ledger, lost>> /\ unlisted \subseteq unlisted' => Accounted(i)'
  BY DEF CreditInv, Accounted
<1>0. CASE UNCHANGED vars
  <2>1. Claimed(i)
    BY <1>0 DEF vars, Claimed, Claims, Stands
  <2>. QED  BY <2>1, <1>b, <1>0 DEF vars
<1>1. CASE Dispatch
  <2>1. Claimed(i)
    BY <1>1 DEF Dispatch, Claimed, Claims, Stands
  <2>. QED  BY <2>1, <1>b, <1>1 DEF Dispatch
<1>2. ASSUME NEW p \in Procs, Materialize(p)  PROVE Accounted(i)'
  <2>1. Elsewhere(p) /\ proc'[p].cmd = "materialize"
    BY <1>2, <1>a DEF Materialize, Begin, Elsewhere, ProcInv, Idle
  <2>2. Claimed(i)
    BY <1>2, <2>1, ClaimsElsewhere DEF Materialize, Claims
  <2>. QED  BY <2>2, <1>b, <1>2 DEF Materialize
<1>3. ASSUME NEW p \in Procs, WriteInbox(p)  PROVE Accounted(i)'
  <2>1. proc[p] \in Held /\ Sorting(proc[p]) /\ Tail(proc[p].todo) = <<>>
    BY <1>3, <1>a, OtherStands DEF WriteInbox, At, Stands, ProcInv
  <2>. DEFINE n == First(proc[p].nodes)  left == proc[p].nodes \ {n}
  <2>2. Elsewhere(p) /\ ~Claims(proc'[p], i)
    <3>1. CASE left = {}
      <4>1. proc' = [proc EXCEPT ![p] = Idle]
        BY <1>3, <2>1, <3>1 DEF WriteInbox, Proceed
      <4>. QED  BY <1>a, <4>1, IdleClaims DEF Elsewhere, ProcInv
    <3>2. CASE left # {}
      <4>1. proc' = [proc EXCEPT ![p].nodes = left]
        BY <1>3, <3>2 DEF WriteInbox
      <4>2. Elsewhere(p) /\ proc'[p].cmd = "materialize"
        BY <1>a, <2>1, <4>1 DEF Elsewhere, ProcInv, Held, Sorting
      <4>. QED  BY <4>2 DEF Claims
    <3>. QED  BY <3>1, <3>2
  <2>3. Claimed(i)
    BY <1>3, <2>2, ClaimsElsewhere DEF WriteInbox
  <2>. QED  BY <2>3, <1>b, <1>3 DEF WriteInbox
<1>4. ASSUME NEW p \in Procs, NEW n \in Nodes, NEW c \in BOOLEAN, NEW k \in BOOLEAN, NEW r \in BOOLEAN,
                Process(p, n, c, k, r)
      PROVE  Accounted(i)'
  <2>1. /\ Elsewhere(p) /\ proc'[p].cmd = "process" /\ proc'[p].todo = PassSteps(c, k, r)
        /\ proc'[p].known = Known(n, k)
    BY <1>4, <1>a DEF Process, Begin, Elsewhere, ProcInv, Idle
  <2>2. Claims(proc'[p], i) => i \in Known(n, k)
    BY <2>1, PassIsPath DEF Claims, Stands
  <2>3. i \in Known(n, k) => Claimed(i)
    BY DEF Known, Claimed
  <2>4. Claimed(i)
    BY <1>4, <2>1, <2>2, <2>3, ClaimsElsewhere DEF Process
  <2>. QED  BY <2>4, <1>b, <1>4 DEF Process
<1>5. ASSUME NEW p \in Procs, ReadInbox(p)  PROVE Accounted(i)'
  <2>1. proc[p] \in Held /\ Passing(proc[p]) /\ proc[p].todo # <<>> /\ Head(proc[p].todo) = "readInbox"
    BY <1>5, <1>a, PassStands DEF ReadInbox, At, Stands, ProcInv
  <2>2. Elsewhere(p) /\ (Claims(proc'[p], i) => Claims(proc[p], i))
    <3>1. CASE HasInbox(proc[p].node)
      <4>. DEFINE h == [proc[p] EXCEPT !.ids = inbox[proc[p].node]]
      <4>1. /\ h \in Held /\ Passing(h) /\ h.todo = proc[p].todo /\ h.cmd = proc[p].cmd
            /\ h.known = proc[p].known /\ h.credits = proc[p].credits
        <5>1. inbox[proc[p].node] \subseteq Addressed(proc[p].node) /\ inbox[proc[p].node] \subseteq IDs
          BY <3>1, <1>a DEF HasInbox, DiskInv, Files, Addressed
        <5>2. h \in Held
          BY <2>1, <5>1 DEF Held
        <5>3. Passing(h)
          BY <2>1, <5>1 DEF Held, Passing
        <5>. QED  BY <2>1, <5>2, <5>3 DEF Held
      <4>2. Proceed(p, h)
        BY <1>5, <3>1 DEF ReadInbox
      <4>. HIDE DEF h
      <4>3. Onward(proc'[p], h) /\ Elsewhere(p)
        BY <1>a, <2>1, <4>1, <4>2, Proceeds DEF ProcInv
      <4>4. Claims(proc'[p], i) => Claims(h, i)
        BY <2>1, <4>1, <4>3, PassClaims DEF Stands
      <4>. QED  BY <2>1, <4>1, <4>3, <4>4 DEF Claims, Stands, Passing
    <3>2. CASE ~HasInbox(proc[p].node)
      BY <1>5, <1>a, <3>2, IdleClaims DEF ReadInbox, Elsewhere, ProcInv
    <3>. QED  BY <3>1, <3>2
  <2>3. Claimed(i)
    BY <1>5, <2>2, ClaimsElsewhere DEF ReadInbox, Claimed
  <2>. QED  BY <2>3, <1>b, <1>5 DEF ReadInbox
<1>6. ASSUME NEW p \in Procs, ReadLedger(p)  PROVE Accounted(i)'
  <2>1. proc[p] \in Held /\ Passing(proc[p]) /\ proc[p].todo # <<>> /\ Head(proc[p].todo) = "readLedger"
    BY <1>6, <1>a, PassStands DEF ReadLedger, At, Stands, ProcInv
  <2>. DEFINE h == [proc[p] EXCEPT !.ledger = ledger]
  <2>2. /\ h \in Held /\ Passing(h) /\ h.todo = proc[p].todo /\ h.cmd = proc[p].cmd
        /\ h.known = proc[p].known /\ h.ids = proc[p].ids /\ h.credits = proc[p].credits
    BY <2>1, <1>a DEF Held, Passing, DiskInv
  <2>3. Proceed(p, h)
    BY <1>6 DEF ReadLedger
  <2>. HIDE DEF h
  <2>4. Onward(proc'[p], h) /\ Elsewhere(p)
    BY <1>a, <2>1, <2>2, <2>3, Proceeds DEF ProcInv
  <2>5. Claims(proc'[p], i) => Claims(h, i)
    BY <2>1, <2>2, <2>4, PassClaims DEF Stands
  <2>6. Claims(proc'[p], i) => Claims(proc[p], i)
    BY <2>2, <2>5 DEF Claims, Stands
  <2>7. Claimed(i)
    BY <1>6, <2>4, <2>6, ClaimsElsewhere DEF ReadLedger, Claimed
  <2>. QED  BY <2>7, <1>b, <1>6 DEF ReadLedger
<1>7. ASSUME NEW p \in Procs, SaveLedger(p)  PROVE Accounted(i)'
  <2>1. proc[p] \in Held /\ Passing(proc[p]) /\ proc[p].todo # <<>> /\ Proceed(p, proc[p])
    BY <1>7, <1>a, PassStands DEF SaveLedger, At, Stands, ProcInv
  <2>2. Onward(proc'[p], proc[p]) /\ Elsewhere(p)
    BY <1>a, <2>1, Proceeds DEF ProcInv
  <2>3. Claims(proc'[p], i) => Claims(proc[p], i) \/ i \in proc[p].ids
    BY <2>1, <2>2, PassClaims
  <2>4. i \in Fresh(p) \/ Claimed(i)
    <3>1. i \in proc[p].ids /\ i \notin Fresh(p) => Claims(proc[p], i)
      BY <2>1 DEF Fresh, Claims, Passing
    <3>2. i \notin Fresh(p) => (Claims(proc'[p], i) => Claimed(i))
      BY <2>3, <3>1 DEF Claimed
    <3>. QED  BY <1>7, <2>2, <3>2, ClaimsElsewhere DEF SaveLedger
  <2>5. Accounted(i)' \/ i \notin Fresh(p)
    <3>1. i \in Fresh(p) => ledger'[i] = proc[p].ledger[i] + 1 /\ proc[p].ledger[i] \in Nat
      BY <1>7, <2>1 DEF SaveLedger, Held
    <3>. QED  BY <3>1 DEF Accounted
  <2>6. CASE Claimed(i)
    <3>1. lost \subseteq lost' /\ unlisted' = unlisted /\ (ledger[i] >= 1 /\ ledger'[i] = 0 => i \in lost')
      BY <1>7 DEF SaveLedger
    <3>2. ledger'[i] \in Nat
      BY <1>7, <2>1 DEF SaveLedger, Held
    <3>3. Accounted(i)
      BY <2>6 DEF CreditInv
    <3>. QED  BY <3>1, <3>2, <3>3 DEF Accounted
  <2>. QED  BY <2>4, <2>5, <2>6
<1>8. ASSUME NEW p \in Procs, WriteOutbox(p)  PROVE Accounted(i)'
  <2>1. /\ proc[p] \in Held /\ Passing(proc[p]) /\ proc[p].todo # <<>> /\ Proceed(p, proc[p])
        /\ Stands(proc[p], "outbox") /\ ~Stands(proc[p], "ledger")
    BY <1>8, <1>a, PassStands DEF WriteOutbox, At, Stands, ProcInv
  <2>2. Onward(proc'[p], proc[p]) /\ Elsewhere(p)
    BY <1>a, <2>1, Proceeds DEF ProcInv
  <2>3. Claims(proc'[p], i) => Claims(proc[p], i)
    BY <2>1, <2>2, PassClaims
  <2>4. CASE i \in Unlisted(p)
    BY <1>8, <2>4 DEF WriteOutbox, Accounted
  <2>5. CASE i \notin Unlisted(p)
    <3>1. i \in Fresh(p) => Claims(proc[p], i)
      BY <2>1, <2>5 DEF Fresh, Unlisted, Claims, Passing
    <3>2. \A n \in DOMAIN outbox' : i \in outbox'[n] =>
             i \in Fresh(p) \/ (n \in DOMAIN outbox /\ i \in outbox[n])
      BY <1>8 DEF WriteOutbox, Put
    <3>3. (\E n \in DOMAIN outbox' : i \in outbox'[n]) => Claimed(i)
      BY <3>1, <3>2 DEF Claimed
    <3>4. (\E q \in Procs : Claims(proc'[q], i)) => Claimed(i)
      BY <2>2, <2>3 DEF Claimed, Elsewhere
    <3>5. i \in collected' \/ (\E n \in Nodes : i \in state'[n]) => Claimed(i)
      BY <1>8 DEF WriteOutbox, Claimed
    <3>6. Claimed(i)
      BY <3>3, <3>4, <3>5 DEF Claimed, Claims, Stands
    <3>. QED  BY <3>6, <1>b, <1>8 DEF WriteOutbox
  <2>. QED  BY <2>4, <2>5
<1>9. ASSUME NEW p \in Procs, SaveState(p)  PROVE Accounted(i)'
  <2>1. /\ proc[p] \in Held /\ Passing(proc[p]) /\ proc[p].todo # <<>> /\ Proceed(p, proc[p])
        /\ Stands(proc[p], "state") /\ ~Stands(proc[p], "ledger")
    BY <1>9, <1>a, PassStands DEF SaveState, At, Stands, ProcInv
  <2>2. Onward(proc'[p], proc[p]) /\ Elsewhere(p)
    BY <1>a, <2>1, Proceeds DEF ProcInv
  <2>3. Claims(proc'[p], i) => Claims(proc[p], i)
    BY <2>1, <2>2, PassClaims
  <2>4. CASE i \in Unlisted(p)
    BY <1>9, <2>4 DEF SaveState, Accounted
  <2>5. CASE i \notin Unlisted(p)
    <3>1. i \in proc[p].known \cup Fresh(p) => Claims(proc[p], i)
      BY <2>1, <2>5 DEF Fresh, Unlisted, Claims, Passing
    <3>2. (\E n \in Nodes : i \in state'[n]) => Claimed(i)
      BY <1>9, <1>a, <3>1 DEF SaveState, Claimed, DiskInv
    <3>3. (\E q \in Procs : Claims(proc'[q], i)) => Claimed(i)
      BY <2>2, <2>3 DEF Claimed, Elsewhere
    <3>4. i \in collected' \/ (\E n \in DOMAIN outbox' : i \in outbox'[n]) => Claimed(i)
      BY <1>9 DEF SaveState, Claimed
    <3>5. Claimed(i)
      BY <3>2, <3>3, <3>4 DEF Claimed, Claims, Stands
    <3>. QED  BY <3>5, <1>b, <1>9 DEF SaveState
  <2>. QED  BY <2>4, <2>5
<1>10. ASSUME NEW p \in Procs, Collect(p)  PROVE Accounted(i)'
  <2>1. Elsewhere(p) /\ proc'[p].cmd = "collect" /\ proc'[p].ids = {}
    BY <1>10, <1>a DEF Collect, Begin, Elsewhere, ProcInv, Idle
  <2>2. Claimed(i)
    BY <1>10, <2>1, ClaimsElsewhere DEF Collect, Claims
  <2>. QED  BY <2>2, <1>b, <1>10 DEF Collect
<1>11. ASSUME NEW p \in Procs, ReadOutbox(p)  PROVE Accounted(i)'
  <2>. DEFINE n == First(proc[p].nodes)  g == Gathered(p, n)
  <2>1. /\ proc[p] \in Held /\ proc[p].todo # <<>> /\ Gathering(proc[p], DOMAIN outbox)
        /\ Tail(proc[p].todo) = <<"log">> /\ proc[p].nodes # {}
    BY <1>11, <1>a, OtherStands DEF ReadOutbox, At, Stands, ProcInv
  <2>2. n \in DOMAIN outbox /\ n \in Nodes
    BY <2>1, FirstIsThere DEF Gathering, Held
  <2>3. g \in Held /\ g.todo = proc[p].todo /\ g.cmd = "collect" /\ g.ids = proc[p].ids \cup outbox[n]
    BY <2>1, <2>2, <1>a DEF Gathered, Held, Gathering, DiskInv, Files, Addressed
  <2>4. IF g.nodes = {} THEN Proceed(p, g) ELSE proc' = [proc EXCEPT ![p] = g]
    BY <1>11 DEF ReadOutbox
  <2>5. i \in g.ids => Claimed(i)
    BY <2>1, <2>2, <2>3 DEF Claimed, Claims, Gathering
  <2>. HIDE DEF g, n
  <2>6. Elsewhere(p) /\ proc'[p].cmd = "collect" /\ proc'[p].ids = g.ids
    <3>1. CASE g.nodes = {}
      <4>1. Onward(proc'[p], g) /\ Elsewhere(p)
        BY <1>a, <2>1, <2>3, <2>4, <3>1, Proceeds DEF ProcInv
      <4>. QED  BY <2>1, <2>3, <4>1, <<"log">> # <<>> DEF Onward
    <3>2. CASE g.nodes # {}
      BY <1>a, <2>3, <2>4, <3>2, Replaced DEF ProcInv
    <3>. QED  BY <3>1, <3>2
  <2>7. Claimed(i)
    BY <1>11, <2>5, <2>6, ClaimsElsewhere DEF ReadOutbox, Claims
  <2>. QED  BY <2>7, <1>b, <1>11 DEF ReadOutbox
<1>12. ASSUME NEW p \in Procs, WriteCollected(p)  PROVE Accounted(i)'
  <2>1. /\ proc[p] \in Held /\ proc[p].todo # <<>> /\ Tail(proc[p].todo) = <<>> /\ proc[p].cmd = "collect"
    BY <1>12, <1>a, OtherStands DEF WriteCollected, At, Stands, ProcInv, Gathering
  <2>2. proc'[p] = Idle /\ Elsewhere(p)
    BY <1>12, <1>a, <2>1, Proceeds DEF WriteCollected, ProcInv, Onward
  <2>3. i \in collected' => Claimed(i)
    BY <1>12, <2>1 DEF WriteCollected, Claimed, Claims
  <2>4. (\E q \in Procs : Claims(proc'[q], i)) => Claimed(i)
    BY <2>2, IdleClaims DEF Claimed, Elsewhere
  <2>5. (\E n \in Nodes : i \in state'[n]) \/ (\E n \in DOMAIN outbox' : i \in outbox'[n]) => Claimed(i)
    BY <1>12 DEF WriteCollected, Claimed
  <2>6. Claimed(i)
    BY <2>3, <2>4, <2>5 DEF Claimed, Claims, Stands
  <2>. QED  BY <2>6, <1>b, <1>12 DEF WriteCollected
<1>13. ASSUME NEW p \in Procs, Die(p)  PROVE Accounted(i)'
  <2>1. proc'[p] = Idle /\ Elsewhere(p)
    BY <1>13, <1>a DEF Die, Elsewhere, ProcInv
  <2>2. Claimed(i)
    BY <1>13, <2>1, IdleClaims, ClaimsElsewhere DEF Die
  <2>. QED  BY <2>2, <1>b, <1>13 DEF Die
<1>. QED
  BY <1>0, <1>1, <1>2, <1>3, <1>4, <1>5, <1>6, <1>7, <1>8, <1>9, <1>10, <1>11, <1>12, <1>13
  DEF Next

(* A report, a mark or a collected ID stands for a record on the ledger,   *)
(* but for what a pass without a ledger did, and for records that a ledger *)
(* read before they were saved has replaced.                               *)
THEOREM TransportClaimsAreCredited == Spec => []ClaimsAreCredited
<1>1. Init => CreditInv
  <2>. SUFFICES ASSUME Init, NEW i \in IDs, Claimed(i)  PROVE FALSE
    BY DEF CreditInv
  <2>. QED  BY IdleClaims DEF Init, Claimed
<1>2. TypeInv /\ CreditInv => ClaimsAreCredited
  <2>. SUFFICES ASSUME TypeInv, CreditInv, NEW n \in Nodes,
                       NEW i \in (state[n] \cup collected \cup Reported(n)) \ unlisted
                PROVE  ledger[i] >= 1 \/ i \in lost
    BY DEF ClaimsAreCredited
  <2>1. i \in IDs
    BY DEF TypeInv, DiskInv, Files, Reported, Addressed
  <2>2. Claimed(i)
    BY DEF Claimed, Reported
  <2>. QED  BY <2>1, <2>2 DEF CreditInv, Accounted
<1>. QED  BY <1>1, <1>2, TypeInit, TypeStep, CreditStep, PTL DEF Spec

-----------------------------------------------------------------------------
(* Of a node no two passes met, and whose state every pass that credits    *)
(* keeps, such a pass knows the state: what is credited on the ledger, or  *)
(* on one a pass is about to extend, is marked or about to be.             *)
Quiet(n) == n \notin crowded \cup repeated
Marking(h, i) ==
    /\ h.cmd = "process" /\ h.credits /\ h.keeps
    /\ i \in h.ids \ h.known /\ (Stands(h, "outbox") \/ Stands(h, "state"))
Due(i) == i \in state[Batch[i]] \/ \E p \in Procs : Marking(proc[p], i)
Extending(h) == h.cmd = "process" /\ Stands(h, "ledger")
Ledgers == {ledger} \cup {proc[p].ledger : p \in {q \in Procs : Extending(proc[q])}}

Alone == \A p, q \in Procs :
    /\ proc[p].cmd = "process" /\ proc[q].cmd = "process"
    /\ proc[p].node = proc[q].node /\ proc[p].node \notin crowded
    => p = q
Attentive(h) == h.cmd = "process" =>
    /\ h.node \notin repeated => h.keeps \/ ~h.credits
    /\ h.node \notin crowded => h.known \subseteq state[h.node]
    /\ Quiet(h.node) /\ h.keeps => h.known = state[h.node]
    /\ Quiet(h.node) /\ Stands(h, "ledger") => \A i \in h.ids \ h.known : h.ledger[i] = 0
Exact(i) == Quiet(Batch[i]) => \A held \in Ledgers : held[i] <= 1 /\ (held[i] >= 1 => Due(i))

OnceInv ==
    /\ Alone
    /\ \A p \in Procs : Attentive(proc[p])
    /\ \A i \in IDs : Exact(i)

(* A pass with an outbox that is about to mark has reported.               *)
Announced(h) ==
    h.cmd = "process" /\ h.reports /\ h.node \notin crowded /\ Stands(h, "state")
    => h.ids \ h.known \subseteq Reported(h.node)
ReportInv == \A p \in Procs : Announced(proc[p])

LEMMA IdleIsNoPass == /\ \A i : ~Marking(Idle, i)
                      /\ Attentive(Idle) /\ Announced(Idle) /\ ~Extending(Idle)
BY IdleIsHeld DEF Marking, Attentive, Announced, Extending

(* The parts of the invariant follow from what becomes of one command.     *)
LEMMA AloneKept ==
  ASSUME Alone, NEW p \in Procs, Elsewhere(p), crowded \subseteq crowded',
         proc'[p].cmd = "process" => proc[p].cmd = "process" /\ proc'[p].node = proc[p].node
  PROVE  Alone'
<1>. SUFFICES ASSUME NEW a \in Procs, NEW b \in Procs,
                     proc'[a].cmd = "process", proc'[b].cmd = "process",
                     proc'[a].node = proc'[b].node, proc'[a].node \notin crowded'
              PROVE  a = b
  BY DEF Alone
<1>1. \A q \in Procs : proc'[q].cmd = "process" => proc[q].cmd = "process" /\ proc'[q].node = proc[q].node
  BY DEF Elsewhere
<1>. QED  BY <1>1 DEF Alone

LEMMA AttentiveKept ==
  ASSUME NEW p \in Procs, \A q \in Procs : Attentive(proc[q]), Elsewhere(p),
         crowded \subseteq crowded', repeated \subseteq repeated', UNCHANGED state, Attentive(proc[p])'
  PROVE  (\A q \in Procs : Attentive(proc[q]))'
<1>1. ASSUME NEW q \in Procs \ {p}  PROVE Attentive(proc[q])'
  <2>1. proc'[q] = proc[q] /\ Attentive(proc[q])
    BY DEF Elsewhere
  <2>. QED  BY <2>1 DEF Attentive, Quiet, Stands
<1>. QED  BY <1>1

LEMMA ExactKept ==
  ASSUME NEW i \in IDs, Exact(i), crowded \subseteq crowded', repeated \subseteq repeated',
         Ledgers' \subseteq Ledgers, Quiet(Batch[i])' /\ Due(i) => Due(i)'
  PROVE  Exact(i)'
BY DEF Exact, Quiet

LEMMA LedgersKept ==
  ASSUME NEW p \in Procs, Elsewhere(p), UNCHANGED ledger,
         Extending(proc'[p]) => proc'[p].ledger \in Ledgers
  PROVE  Ledgers' \subseteq Ledgers
<1>. SUFFICES ASSUME NEW q \in Procs, Extending(proc[q])'  PROVE proc'[q].ledger \in Ledgers
  BY DEF Ledgers
<1>1. CASE q = p
  BY <1>1 DEF Extending, Stands
<1>2. CASE q # p
  <2>1. proc'[q] = proc[q]
    BY <1>2 DEF Elsewhere
  <2>. QED  BY <2>1 DEF Extending, Stands, Ledgers
<1>. QED  BY <1>1, <1>2

LEMMA DueKept ==
  ASSUME NEW p \in Procs, Elsewhere(p), NEW i \in IDs, Due(i),
         state[Batch[i]] \subseteq state'[Batch[i]], Marking(proc[p], i) => Due(i)'
  PROVE  Due(i)'
<1>1. ASSUME NEW q \in Procs \ {p}, Marking(proc[q], i)  PROVE Due(i)'
  BY <1>1 DEF Elsewhere, Due, Marking, Stands
<1>. QED  BY <1>1 DEF Due

(* Nothing changes where no pass begins or moves.                          *)
LEMMA OnceElsewhere ==
  ASSUME OnceInv, NEW p \in Procs, Elsewhere(p), UNCHANGED <<ledger, state, crowded>>,
         repeated \subseteq repeated', proc'[p].cmd # "process",
         \A i \in IDs : Marking(proc[p], i) => ~Quiet(Batch[i])'
  PROVE  OnceInv'
<1>1. Alone'
  BY AloneKept DEF OnceInv
<1>2. Attentive(proc[p])'
  BY DEF Attentive
<1>3. (\A q \in Procs : Attentive(proc[q]))'
  BY <1>2, AttentiveKept DEF OnceInv
<1>4. ASSUME NEW i \in IDs  PROVE Exact(i)'
  <2>1. Ledgers' \subseteq Ledgers
    BY LedgersKept DEF Extending
  <2>2. Quiet(Batch[i])' /\ Due(i) => Due(i)'
    BY DueKept
  <2>. QED  BY <2>1, <2>2, ExactKept DEF OnceInv
<1>. QED  BY <1>1, <1>3, <1>4 DEF OnceInv

(* What a pass that proceeds comes to stand before.                        *)
LEMMA PassOnward ==
  ASSUME NEW h \in Held, NEW g, Passing(h), Onward(g, h)
  PROVE  /\ g.cmd = "process" =>
               /\ g.node = h.node /\ g.ids = h.ids /\ g.known = h.known /\ g.ledger = h.ledger
               /\ g.credits = h.credits /\ g.keeps = h.keeps /\ g.reports = h.reports
         /\ Stands(h, "readLedger") \/ Stands(h, "ledger") => h.credits
         /\ Stands(h, "state") => h.keeps
         /\ Stands(g, "ledger") => Stands(h, "readLedger")
         /\ Stands(g, "outbox") \/ Stands(g, "state") =>
               Stands(h, "ledger") \/ Stands(h, "outbox") \/ (Stands(h, "readInbox") /\ ~h.credits)
         /\ Stands(g, "state") /\ h.reports => Stands(h, "outbox")
         /\ (Stands(h, "ledger") \/ Stands(h, "outbox")) /\ h.keeps =>
               g.cmd = "process" /\ (Stands(g, "outbox") \/ Stands(g, "state"))
<1>1. Follows(h.todo, h.credits, h.keeps, h.reports)
  BY PathFollows DEF Held, Passing
<1>2. CASE Tail(h.todo) = <<>>
  BY <1>1, <1>2, IdleIsHeld DEF Onward, Stands, Follows
<1>3. CASE Tail(h.todo) # <<>>
  <2>1. /\ g.cmd = "process" /\ g.node = h.node /\ g.ids = h.ids /\ g.known = h.known
        /\ g.ledger = h.ledger /\ g.todo = Tail(h.todo)
        /\ g.credits = h.credits /\ g.keeps = h.keeps /\ g.reports = h.reports
    BY <1>3 DEF Onward, Passing
  <2>2. Head(h.todo) \in {"readInbox", "readLedger", "ledger", "outbox", "state"}
    BY <1>1 DEF Follows
  <2>. QED  BY <1>1, <1>3, <2>1, <2>2 DEF Stands, Follows
<1>. QED  BY <1>2, <1>3

LEMMA OnceBegin ==
  ASSUME TypeInv, OnceInv, NEW p \in Procs, NEW n \in Nodes,
         NEW c \in BOOLEAN, NEW k \in BOOLEAN, NEW r \in BOOLEAN, Process(p, n, c, k, r)
  PROVE  OnceInv'
<1>1. /\ Elsewhere(p) /\ proc'[p].cmd = "process" /\ proc'[p].node = n
      /\ proc'[p].credits = c /\ proc'[p].keeps = k
      /\ proc'[p].todo = PassSteps(c, k, r) /\ proc'[p].known = Known(n, k)
      /\ proc[p] = Idle
  BY DEF Process, Begin, Elsewhere, TypeInv, ProcInv, Idle
<1>2. crowded \subseteq crowded' /\ repeated \subseteq repeated' /\ (c /\ ~k => n \in repeated')
  BY DEF Process
<1>3. UNCHANGED <<ledger, state>>
  BY DEF Process, disk
<1>4. PassSteps(c, k, r) \in Path(c, k, r) /\ Head(PassSteps(c, k, r)) = "readInbox"
  BY PassIsPath
<1>5. Alone'
  <2>. SUFFICES ASSUME NEW a \in Procs, NEW b \in Procs, a # b,
                       proc'[a].cmd = "process", proc'[b].cmd = "process",
                       proc'[a].node = proc'[b].node
                PROVE  proc'[a].node \in crowded'
    BY DEF Alone
  <2>1. ASSUME NEW q \in Procs \ {p}, proc'[q].cmd = "process", proc'[q].node = n
        PROVE  n \in crowded'
    BY <1>1, <2>1 DEF Elsewhere, Process, Working
  <2>2. CASE a = p
    BY <1>1, <2>1, <2>2
  <2>3. CASE b = p
    BY <1>1, <2>1, <2>3
  <2>4. CASE a # p /\ b # p
    BY <1>1, <1>2, <2>4 DEF Elsewhere, OnceInv, Alone
  <2>. QED  BY <2>2, <2>3, <2>4
<1>6. Attentive(proc[p])'
  <2>1. /\ n \notin repeated' => k \/ ~c
        /\ k => Known(n, k) = state[n]
    BY <1>2 DEF Known
  <2>2. Known(n, k) \subseteq state[n]
    BY DEF Known
  <2>3. ~Stands(proc[p], "ledger")'
    BY <1>1, <1>4 DEF Stands
  <2>. QED  BY <1>1, <1>3, <2>1, <2>2, <2>3 DEF Attentive, Quiet
<1>7. (\A q \in Procs : Attentive(proc[q]))'
  BY <1>1, <1>2, <1>3, <1>6, AttentiveKept DEF OnceInv
<1>8. ASSUME NEW i \in IDs  PROVE Exact(i)'
  <2>1. Ledgers' \subseteq Ledgers
    BY <1>1, <1>3, <1>4, LedgersKept DEF Extending, Stands
  <2>2. Quiet(Batch[i])' /\ Due(i) => Due(i)'
    BY <1>1, <1>3, IdleIsNoPass, DueKept
  <2>. QED  BY <1>2, <2>1, <2>2, ExactKept DEF OnceInv
<1>. QED  BY <1>5, <1>7, <1>8 DEF OnceInv

(* What the steps of a pass have in common, whatever it reads.             *)
LEMMA OncePass ==
  ASSUME TypeInv, OnceInv, NEW p \in Procs, NEW h \in Held, Passing(h), Proceed(p, h),
         h.cmd = proc[p].cmd, h.node = proc[p].node, h.todo = proc[p].todo, h.known = proc[p].known,
         h.credits = proc[p].credits, h.keeps = proc[p].keeps, UNCHANGED <<crowded, repeated>>
  PROVE  /\ Onward(proc'[p], h) /\ Elsewhere(p)
         /\ h.node \notin repeated => h.keeps \/ ~h.credits
         /\ Alone'
<1>1. h.todo # <<>>
  BY PathFollows DEF Passing, Follows, Held
<1>2. Onward(proc'[p], h) /\ Elsewhere(p)
  BY <1>1, Proceeds DEF TypeInv, ProcInv
<1>3. h.node \notin repeated => h.keeps \/ ~h.credits
  BY DEF Passing, OnceInv, Attentive
<1>4. proc'[p].cmd = "process" => proc[p].cmd = "process" /\ proc'[p].node = proc[p].node
  BY <1>2, PassOnward DEF Passing
<1>. QED  BY <1>2, <1>3, <1>4, AloneKept DEF OnceInv

(* Before the ledger is read a pass holds none that it may save.           *)
LEMMA OnceReadInbox ==
  ASSUME TypeInv, OnceInv, NEW p \in Procs, ReadInbox(p)
  PROVE  OnceInv'
<1>1. proc[p] \in Held /\ Passing(proc[p]) /\ Stands(proc[p], "readInbox")
  BY PassStands DEF ReadInbox, At, Stands, TypeInv, ProcInv
<1>2. UNCHANGED <<ledger, state, crowded, repeated>>
  BY DEF ReadInbox, disk, history
<1>3. \A i : ~Marking(proc[p], i)
  BY <1>1 DEF Marking, Stands
<1>4. CASE ~HasInbox(proc[p].node)
  <2>1. Elsewhere(p) /\ proc'[p] = Idle
    BY <1>4 DEF ReadInbox, Elsewhere, TypeInv, ProcInv
  <2>. QED  BY <1>2, <1>3, <2>1, IdleIsHeld, OnceElsewhere
<1>5. CASE HasInbox(proc[p].node)
  <2>. DEFINE h == [proc[p] EXCEPT !.ids = inbox[proc[p].node]]
  <2>1. /\ h \in Held /\ Passing(h) /\ h.todo = proc[p].todo /\ h.cmd = proc[p].cmd
        /\ h.known = proc[p].known /\ h.node = proc[p].node /\ h.reports = proc[p].reports
        /\ h.credits = proc[p].credits /\ h.keeps = proc[p].keeps
    BY <1>1, <1>5 DEF Held, Passing, HasInbox, TypeInv, DiskInv, Files, Addressed
  <2>2. Proceed(p, h)
    BY <1>5 DEF ReadInbox
  <2>. HIDE DEF h
  <2>3. /\ Onward(proc'[p], h) /\ Elsewhere(p)
        /\ h.node \notin repeated => h.keeps \/ ~h.credits
        /\ Alone'
    BY <1>2, <2>1, <2>2, OncePass
  <2>4. ~Stands(h, "readLedger")
    BY <1>1, <2>1 DEF Stands
  <2>5. ~Stands(proc'[p], "ledger")
    BY <2>1, <2>3, <2>4, PassOnward
  <2>6. Attentive(proc[p])'
    <3>1. proc'[p].cmd = "process" =>
             /\ proc'[p].node = proc[p].node /\ proc'[p].known = proc[p].known
             /\ proc'[p].credits = proc[p].credits /\ proc'[p].keeps = proc[p].keeps
      BY <2>1, <2>3, PassOnward
    <3>. QED  BY <1>1, <1>2, <2>5, <3>1 DEF Attentive, Quiet, Stands, OnceInv, Passing
  <2>7. (\A q \in Procs : Attentive(proc[q]))'
    BY <1>2, <2>3, <2>6, AttentiveKept DEF OnceInv
  <2>8. ASSUME NEW i \in IDs  PROVE Exact(i)'
    <3>1. Ledgers' \subseteq Ledgers
      BY <1>2, <2>3, <2>5, LedgersKept DEF Extending
    <3>2. Quiet(Batch[i])' /\ Due(i) => Due(i)'
      BY <1>2, <1>3, <2>3, DueKept
    <3>. QED  BY <1>2, <3>1, <3>2, ExactKept DEF OnceInv
  <2>. QED  BY <2>3, <2>7, <2>8 DEF OnceInv
<1>. QED  BY <1>4, <1>5

(* The ledger read has no record of what the pass of a quiet node will do: *)
(* a record would be marked, or due from another pass of that node.        *)
LEMMA OnceReadLedger ==
  ASSUME TypeInv, OnceInv, NEW p \in Procs, ReadLedger(p)
  PROVE  OnceInv'
<1>1. proc[p] \in Held /\ Passing(proc[p]) /\ Stands(proc[p], "readLedger")
  BY PassStands DEF ReadLedger, At, Stands, TypeInv, ProcInv
<1>2. UNCHANGED <<ledger, state, crowded, repeated>>
  BY DEF ReadLedger, disk, history
<1>3. \A i : ~Marking(proc[p], i)
  BY <1>1 DEF Marking, Stands
<1>. DEFINE h == [proc[p] EXCEPT !.ledger = ledger]
<1>4. /\ h \in Held /\ Passing(h) /\ h.todo = proc[p].todo /\ h.cmd = proc[p].cmd /\ h.ledger = ledger
      /\ h.known = proc[p].known /\ h.node = proc[p].node /\ h.reports = proc[p].reports
      /\ h.credits = proc[p].credits /\ h.keeps = proc[p].keeps
      /\ h.ids = proc[p].ids
  BY <1>1 DEF Held, Passing, TypeInv, DiskInv
<1>5. Proceed(p, h)
  BY DEF ReadLedger
<1>. HIDE DEF h
<1>6. /\ Onward(proc'[p], h) /\ Elsewhere(p)
      /\ h.node \notin repeated => h.keeps \/ ~h.credits
      /\ Alone'
  BY <1>2, <1>4, <1>5, OncePass
<1>b. proc[p].node \notin repeated => proc[p].keeps
  BY <1>1, <1>4, <1>6, PassOnward DEF Stands
<1>7. Quiet(proc[p].node) => \A i \in proc[p].ids \ proc[p].known : ledger[i] = 0
  <2>. SUFFICES ASSUME Quiet(proc[p].node), NEW i \in proc[p].ids \ proc[p].known, ledger[i] # 0
                PROVE  FALSE
    OBVIOUS
  <2>1. i \in IDs /\ Batch[i] = proc[p].node /\ proc[p].cmd = "process"
    BY <1>1 DEF Passing, Addressed
  <2>2. Due(i)
    <3>1. ledger[i] >= 1
      BY <2>1 DEF TypeInv, DiskInv
    <3>. QED  BY <2>1, <3>1 DEF OnceInv, Exact, Ledgers
  <2>3. i \notin state[Batch[i]]
    BY <2>1, <1>b DEF OnceInv, Attentive, Quiet
  <2>4. PICK q \in Procs : Marking(proc[q], i)
    BY <2>2, <2>3 DEF Due
  <2>5. Passing(proc[q])
    BY <2>4, PassStands DEF Marking, TypeInv, ProcInv
  <2>6. q = p
    BY <2>1, <2>4, <2>5 DEF OnceInv, Alone, Quiet, Passing, Addressed, Marking
  <2>. QED  BY <1>3, <2>4, <2>6
<1>8. proc'[p].cmd = "process" =>
         /\ proc'[p].node = proc[p].node /\ proc'[p].known = proc[p].known /\ proc'[p].ids = proc[p].ids
         /\ proc'[p].ledger = ledger
         /\ proc'[p].credits = proc[p].credits /\ proc'[p].keeps = proc[p].keeps
  BY <1>4, <1>6, PassOnward
<1>9. Attentive(proc[p])'
  BY <1>1, <1>2, <1>7, <1>8 DEF Attentive, Quiet, Stands, OnceInv, Passing
<1>10. (\A q \in Procs : Attentive(proc[q]))'
  BY <1>2, <1>6, <1>9, AttentiveKept DEF OnceInv
<1>11. ASSUME NEW i \in IDs  PROVE Exact(i)'
  <2>1. Ledgers' \subseteq Ledgers
    BY <1>2, <1>6, <1>8, LedgersKept DEF Extending, Ledgers
  <2>2. Quiet(Batch[i])' /\ Due(i) => Due(i)'
    BY <1>2, <1>3, <1>6, DueKept
  <2>. QED  BY <1>2, <2>1, <2>2, ExactKept DEF OnceInv
<1>. QED  BY <1>6, <1>10, <1>11 DEF OnceInv

(* The records saved are those read and one for each fresh assignment,     *)
(* which the pass of a quiet node goes on to mark.                         *)
LEMMA OnceSaveLedger ==
  ASSUME TypeInv, OnceInv, NEW p \in Procs, SaveLedger(p)
  PROVE  OnceInv'
<1>. DEFINE h == proc[p]
<1>1. h \in Held /\ Passing(h) /\ Stands(h, "ledger")
  BY PassStands DEF SaveLedger, At, Stands, TypeInv, ProcInv
<1>2. UNCHANGED <<state, crowded, repeated>> /\ Proceed(p, h)
  BY DEF SaveLedger
<1>3. /\ Onward(proc'[p], h) /\ Elsewhere(p)
      /\ h.node \notin repeated => h.keeps \/ ~h.credits
      /\ Alone'
  BY <1>1, <1>2, OncePass
<1>4. /\ proc'[p].cmd = "process" =>
            /\ proc'[p].node = h.node /\ proc'[p].known = h.known /\ proc'[p].ids = h.ids
            /\ proc'[p].credits = h.credits /\ proc'[p].keeps = h.keeps
      /\ ~Stands(proc'[p], "ledger")
      /\ h.credits
      /\ h.keeps =>
            proc'[p].cmd = "process" /\ (Stands(proc'[p], "outbox") \/ Stands(proc'[p], "state"))
  <2>1. ~Stands(h, "readLedger")
    BY <1>1 DEF Stands
  <2>. HIDE DEF h
  <2>. QED  BY <1>1, <1>3, <2>1, PassOnward
<1>5. (\A q \in Procs : Attentive(proc[q]))'
  <2>1. Attentive(proc[p])'
    BY <1>1, <1>2, <1>4 DEF Attentive, Quiet, Stands, OnceInv, Passing
  <2>. QED  BY <1>2, <1>3, <2>1, AttentiveKept DEF OnceInv
<1>6. ASSUME NEW i \in IDs  PROVE Exact(i)'
  <2>. SUFFICES ASSUME Quiet(Batch[i]), NEW held \in Ledgers'
                PROVE  held[i] <= 1 /\ (held[i] >= 1 => Due(i)')
    BY <1>2 DEF Exact, Quiet
  <2>1. Due(i) => Due(i)'
    <3>1. ~Marking(h, i)
      BY <1>1 DEF Marking, Stands
    <3>. QED  BY <1>2, <1>3, <3>1, DueKept
  <2>2. \A old \in Ledgers : old[i] <= 1 /\ (old[i] >= 1 => Due(i))
    BY DEF OnceInv, Exact
  <2>3. CASE held = ledger'
    <3>1. h.ledger \in Ledgers
      BY <1>1 DEF Ledgers, Extending, Passing
    <3>2. held[i] = h.ledger[i] + (IF i \in Fresh(p) THEN 1 ELSE 0) /\ h.ledger[i] \in Nat
      BY <1>1, <2>3 DEF SaveLedger, Held
    <3>3. CASE i \in Fresh(p)
      <4>1. Batch[i] = h.node /\ i \in h.ids \ h.known
        BY <1>1, <3>3 DEF Passing, Fresh, Addressed
      <4>2. h.ledger[i] = 0
        BY <1>1, <4>1 DEF OnceInv, Attentive, Passing
      <4>3. Marking(proc'[p], i)
        BY <1>3, <1>4, <4>1 DEF Marking, Quiet
      <4>4. Due(i)'
        BY <4>3 DEF Due, Marking, Stands
      <4>. QED  BY <3>2, <3>3, <4>2, <4>4
    <3>4. CASE i \notin Fresh(p)
      BY <2>1, <2>2, <3>1, <3>2, <3>4
    <3>. QED  BY <3>3, <3>4
  <2>4. CASE held # ledger'
    <3>1. PICK q \in Procs : Extending(proc'[q]) /\ held = proc'[q].ledger
      BY <2>4 DEF Ledgers, Extending, Stands
    <3>2. proc'[q] = proc[q]
      BY <1>3, <1>4, <3>1 DEF Elsewhere, Extending
    <3>3. held \in Ledgers
      BY <3>1, <3>2 DEF Ledgers
    <3>. QED  BY <2>1, <2>2, <3>3
  <2>. QED  BY <2>3, <2>4
<1>. QED  BY <1>3, <1>5, <1>6 DEF OnceInv

LEMMA OnceWriteOutbox ==
  ASSUME TypeInv, OnceInv, NEW p \in Procs, WriteOutbox(p)
  PROVE  OnceInv'
<1>. DEFINE h == proc[p]
<1>1. h \in Held /\ Passing(h) /\ Stands(h, "outbox")
  BY PassStands DEF WriteOutbox, At, Stands, TypeInv, ProcInv
<1>2. UNCHANGED <<ledger, state, crowded, repeated>> /\ Proceed(p, h)
  BY DEF WriteOutbox, history
<1>3. /\ Onward(proc'[p], h) /\ Elsewhere(p)
      /\ h.node \notin repeated => h.keeps \/ ~h.credits
      /\ Alone'
  BY <1>1, <1>2, OncePass
<1>4. /\ proc'[p].cmd = "process" =>
            /\ proc'[p].node = h.node /\ proc'[p].known = h.known /\ proc'[p].ids = h.ids
            /\ proc'[p].credits = h.credits /\ proc'[p].keeps = h.keeps
      /\ ~Stands(proc'[p], "ledger")
      /\ h.keeps =>
            proc'[p].cmd = "process" /\ (Stands(proc'[p], "outbox") \/ Stands(proc'[p], "state"))
  <2>1. ~Stands(h, "readLedger")
    BY <1>1 DEF Stands
  <2>. HIDE DEF h
  <2>. QED  BY <1>1, <1>3, <2>1, PassOnward
<1>5. (\A q \in Procs : Attentive(proc[q]))'
  <2>1. Attentive(proc[p])'
    BY <1>1, <1>2, <1>4 DEF Attentive, Quiet, Stands, OnceInv, Passing
  <2>. QED  BY <1>2, <1>3, <2>1, AttentiveKept DEF OnceInv
<1>6. ASSUME NEW i \in IDs  PROVE Exact(i)'
  <2>1. Ledgers' \subseteq Ledgers
    BY <1>2, <1>3, <1>4, LedgersKept DEF Extending
  <2>2. Quiet(Batch[i]) /\ Marking(h, i) => Due(i)'
    <3>. SUFFICES ASSUME Quiet(Batch[i]), Marking(h, i)  PROVE Due(i)'
      OBVIOUS
    <3>1. Batch[i] = h.node
      BY <1>1 DEF Passing, Addressed, Marking
    <3>2. Marking(proc'[p], i)
      BY <1>4, <3>1 DEF Marking, Quiet
    <3>. QED  BY <3>2 DEF Due, Marking, Stands
  <2>3. Quiet(Batch[i])' /\ Due(i) => Due(i)'
    BY <1>2, <1>3, <2>2, DueKept DEF Quiet
  <2>. QED  BY <1>2, <2>1, <2>3, ExactKept DEF OnceInv
<1>. QED  BY <1>3, <1>5, <1>6 DEF OnceInv

(* The state saved has what the pass knew and what it did.                 *)
LEMMA OnceSaveState ==
  ASSUME TypeInv, OnceInv, NEW p \in Procs, SaveState(p)
  PROVE  OnceInv'
<1>. DEFINE h == proc[p]
<1>1. h \in Held /\ Passing(h) /\ Stands(h, "state")
  BY PassStands DEF SaveState, At, Stands, TypeInv, ProcInv
<1>2. UNCHANGED <<ledger, crowded, repeated>> /\ Proceed(p, h)
  BY DEF SaveState, history
<1>3. /\ Onward(proc'[p], h) /\ Elsewhere(p) /\ Alone'
  BY <1>1, <1>2, OncePass
<1>4. proc'[p] = Idle
  BY <1>1, <1>3, PathFollows DEF Onward, Passing, Follows, Held, Stands
<1>b. h.keeps
  <2>. HIDE DEF h
  <2>. QED  BY <1>1, <1>3, PassOnward
<1>5. state' = [state EXCEPT ![h.node] = h.known \cup h.ids] /\ h.node \in Nodes /\ DOMAIN state = Nodes
  BY <1>1 DEF SaveState, Fresh, Passing, TypeInv, DiskInv
<1>6. ASSUME NEW q \in Procs  PROVE Attentive(proc[q])'
  <2>1. CASE q = p
    BY <1>4, <2>1, IdleIsHeld DEF Attentive
  <2>2. CASE q # p
    <3>1. proc'[q] = proc[q] /\ Attentive(proc[q])
      BY <1>3, <2>2 DEF Elsewhere, OnceInv
    <3>2. proc[q].cmd = "process" /\ proc[q].node \notin crowded => proc[q].node # h.node
      BY <1>1, <2>2 DEF OnceInv, Alone, Passing
    <3>3. proc[q].cmd = "process" /\ proc[q].node \notin crowded =>
             state'[proc[q].node] = state[proc[q].node]
      BY <1>5, <3>2
    <3>. QED  BY <1>2, <3>1, <3>3 DEF Attentive, Quiet, Stands
  <2>. QED  BY <2>1, <2>2
<1>7. ASSUME NEW i \in IDs  PROVE Exact(i)'
  <2>1. Ledgers' \subseteq Ledgers
    BY <1>2, <1>3, <1>4, IdleIsNoPass, LedgersKept
  <2>2. Quiet(Batch[i])' /\ Due(i) => Due(i)'
    <3>. SUFFICES ASSUME Quiet(Batch[i]), Due(i)  PROVE Due(i)'
      BY <1>2 DEF Quiet
    <3>1. state[Batch[i]] \subseteq state'[Batch[i]]
      <4>1. Batch[i] = h.node => h.known = state[h.node]
        BY <1>1, <1>b DEF OnceInv, Attentive, Passing
      <4>. QED  BY <1>5, <4>1, BatchTyped
    <3>2. Marking(h, i) => Due(i)'
      <4>1. Marking(h, i) => i \in state'[Batch[i]]
        BY <1>1, <1>5 DEF Marking, Passing, Addressed
      <4>. QED  BY <4>1 DEF Due
    <3>. QED  BY <1>3, <3>1, <3>2, DueKept
  <2>. QED  BY <1>2, <2>1, <2>2, ExactKept DEF OnceInv
<1>. QED  BY <1>3, <1>6, <1>7 DEF OnceInv

LEMMA OnceStep == TypeInv /\ OnceInv /\ [Next]_vars => OnceInv'
<1>. SUFFICES ASSUME TypeInv, OnceInv, [Next]_vars  PROVE OnceInv'
  OBVIOUS
<1>. USE DEF disk, history, counts
<1>a. ProcInv
  BY DEF TypeInv
<1>0. CASE UNCHANGED <<ledger, state, crowded, repeated, proc>>
  BY <1>0 DEF OnceInv, Alone, Attentive, Exact, Quiet, Due, Marking, Ledgers, Extending, Stands
<1>1. CASE UNCHANGED vars \/ Dispatch
  BY <1>0, <1>1 DEF vars, Dispatch
<1>2. ASSUME NEW p \in Procs, Materialize(p)  PROVE OnceInv'
  <2>1. Elsewhere(p) /\ proc'[p].cmd = "materialize" /\ proc[p] = Idle
    BY <1>2, <1>a DEF Materialize, Begin, Elsewhere, ProcInv, Idle
  <2>. QED  BY <1>2, <2>1, IdleIsNoPass, OnceElsewhere DEF Materialize
<1>3. ASSUME NEW p \in Procs, WriteInbox(p)  PROVE OnceInv'
  <2>. DEFINE n == First(proc[p].nodes)  left == proc[p].nodes \ {n}
  <2>1. proc[p] \in Held /\ Sorting(proc[p]) /\ Tail(proc[p].todo) = <<>>
    BY <1>3, <1>a, OtherStands DEF WriteInbox, At, Stands, ProcInv
  <2>2. Elsewhere(p) /\ proc'[p].cmd # "process"
    <3>1. CASE left = {}
      <4>1. proc' = [proc EXCEPT ![p] = Idle]
        BY <1>3, <2>1, <3>1 DEF WriteInbox, Proceed
      <4>. QED  BY <1>a, <4>1, IdleIsHeld DEF Elsewhere, ProcInv
    <3>2. CASE left # {}
      <4>1. proc' = [proc EXCEPT ![p].nodes = left]
        BY <1>3, <3>2 DEF WriteInbox
      <4>. QED  BY <1>a, <2>1, <4>1 DEF Elsewhere, ProcInv, Held, Sorting
    <3>. QED  BY <3>1, <3>2
  <2>. QED  BY <1>3, <2>1, <2>2, OnceElsewhere DEF WriteInbox, Marking, Sorting
<1>4. ASSUME NEW p \in Procs, Collect(p)  PROVE OnceInv'
  <2>1. Elsewhere(p) /\ proc'[p].cmd = "collect" /\ proc[p] = Idle
    BY <1>4, <1>a DEF Collect, Begin, Elsewhere, ProcInv, Idle
  <2>. QED  BY <1>4, <2>1, IdleIsNoPass, OnceElsewhere DEF Collect
<1>5. ASSUME NEW p \in Procs, ReadOutbox(p)  PROVE OnceInv'
  <2>. DEFINE g == Gathered(p, First(proc[p].nodes))
  <2>1. proc[p] \in Held /\ proc[p].cmd = "collect"
    BY <1>5, <1>a, OtherStands DEF ReadOutbox, At, Stands, ProcInv, Gathering
  <2>2. g.cmd = "collect"
    BY <2>1 DEF Gathered, Held
  <2>3. IF g.nodes = {} THEN Proceed(p, g) ELSE proc' = [proc EXCEPT ![p] = g]
    BY <1>5 DEF ReadOutbox
  <2>4. proc' = [proc EXCEPT ![p] = IF g.nodes # {} THEN g
                                    ELSE IF Tail(g.todo) = <<>> THEN Idle
                                    ELSE [g EXCEPT !.todo = Tail(g.todo)]]
    <3>. HIDE DEF g
    <3>. QED  BY <2>3 DEF Proceed
  <2>5. [g EXCEPT !.todo = Tail(g.todo)].cmd = "collect"
    BY <2>1 DEF Gathered, Held
  <2>. HIDE DEF g
  <2>6. Elsewhere(p) /\ proc'[p].cmd # "process"
    BY <1>a, <2>2, <2>4, <2>5, IdleIsHeld DEF Elsewhere, ProcInv
  <2>. QED  BY <1>5, <2>1, <2>6, OnceElsewhere DEF ReadOutbox, Marking
<1>6. ASSUME NEW p \in Procs, WriteCollected(p)  PROVE OnceInv'
  <2>1. /\ proc[p] \in Held /\ Tail(proc[p].todo) = <<>> /\ proc[p].cmd = "collect"
    BY <1>6, <1>a, OtherStands DEF WriteCollected, At, Stands, ProcInv, Gathering
  <2>2. proc'[p] = Idle /\ Elsewhere(p)
    BY <1>6, <1>a, <2>1 DEF WriteCollected, ProcInv, Proceed, Elsewhere
  <2>. QED  BY <1>6, <2>1, <2>2, IdleIsHeld, OnceElsewhere DEF WriteCollected, Marking
<1>7. ASSUME NEW p \in Procs, Die(p)  PROVE OnceInv'
  <2>1. proc'[p] = Idle /\ Elsewhere(p)
    BY <1>7, <1>a DEF Die, Elsewhere, ProcInv
  <2>2. ASSUME NEW i \in IDs, Marking(proc[p], i)  PROVE ~Quiet(Batch[i])'
    <3>1. Passing(proc[p])
      BY <1>a, <2>2, PassStands DEF Marking, ProcInv
    <3>2. Batch[i] = proc[p].node
      BY <2>2, <3>1 DEF Marking, Passing, Addressed
    <3>. QED  BY <1>7, <2>2, <3>2 DEF Die, Marking, Stands, At, Quiet
  <2>. QED  BY <1>7, <2>1, <2>2, IdleIsHeld, OnceElsewhere DEF Die
<1>. QED
  BY <1>1, <1>2, <1>3, <1>4, <1>5, <1>6, <1>7, OnceBegin, OnceReadInbox, OnceReadLedger,
     OnceSaveLedger, OnceWriteOutbox, OnceSaveState DEF Next

LEMMA OnceInit == Init => OnceInv
<1>. SUFFICES ASSUME Init  PROVE OnceInv
  OBVIOUS
<1>1. ledger = NoRecords /\ (\A p \in Procs : proc[p] = Idle)
  BY DEF Init
<1>2. Alone /\ \A p \in Procs : Attentive(proc[p])
  BY <1>1, IdleIsHeld, IdleIsNoPass DEF Alone
<1>3. ASSUME NEW i \in IDs  PROVE Exact(i)
  <2>1. Ledgers = {NoRecords}
    BY <1>1, IdleIsNoPass DEF Ledgers
  <2>. QED  BY <2>1 DEF Exact, NoRecords
<1>. QED  BY <1>2, <1>3 DEF OnceInv

(* An assignment is credited twice only where a pass with a ledger ran     *)
(* without the node's state or died after saving the ledger, or where two  *)
(* passes of a node met: passes of other nodes, who share the ledger, credit nothing twice *)
(* even where they take back what others credited.                         *)
THEOREM TransportCreditedOnce == Spec => []CreditedOnce
<1>1. OnceInv => CreditedOnce
  BY DEF OnceInv, Exact, Quiet, Ledgers, CreditedOnce
<1>. QED  BY <1>1, TypeInit, TypeStep, OnceInit, OnceStep, PTL DEF Spec

-----------------------------------------------------------------------------
(* A pass that is about to mark wrote the outbox a step before, and only   *)
(* another pass of its node could have replaced it.                        *)
LEMMA ReportStep == TypeInv /\ OnceInv /\ ReportInv /\ [Next]_vars => ReportInv'
<1>. SUFFICES ASSUME TypeInv, OnceInv, ReportInv, [Next]_vars  PROVE ReportInv'
  OBVIOUS
<1>. USE DEF disk, history, counts
<1>a. ProcInv
  BY DEF TypeInv
<1>b. ASSUME NEW p \in Procs, Elsewhere(p), UNCHANGED outbox, crowded \subseteq crowded', Announced(proc[p])'
      PROVE  ReportInv'
  <2>1. ASSUME NEW q \in Procs \ {p}  PROVE Announced(proc[q])'
    <3>1. proc'[q] = proc[q] /\ Announced(proc[q])
      BY <1>b DEF Elsewhere, ReportInv
    <3>. QED  BY <1>b, <3>1 DEF Announced, Reported, Stands
  <2>. QED  BY <1>b, <2>1 DEF ReportInv
<1>c. ASSUME NEW p \in Procs, NEW h \in Held, Passing(h), Proceed(p, h), ~Stands(h, "outbox"),
             h.cmd = proc[p].cmd, h.node = proc[p].node, h.todo = proc[p].todo, h.known = proc[p].known,
             h.credits = proc[p].credits, h.keeps = proc[p].keeps, UNCHANGED <<crowded, repeated, outbox>>
      PROVE  ReportInv'
  <2>1. /\ Onward(proc'[p], h) /\ Elsewhere(p)
        /\ h.node \notin repeated => h.keeps \/ ~h.credits
    BY <1>c, OncePass
  <2>2. Stands(proc'[p], "state") => ~h.reports
    BY <1>c, <2>1, PassOnward
  <2>3. proc'[p].cmd = "process" => proc'[p].reports = h.reports
    BY <1>c, <2>1, PassOnward
  <2>4. Announced(proc[p])'
    BY <2>2, <2>3 DEF Announced, Stands
  <2>. QED  BY <1>b, <1>c, <2>1, <2>4
<1>0. CASE UNCHANGED <<outbox, crowded, proc>>
  BY <1>0 DEF ReportInv, Announced, Reported, Stands
<1>1. CASE UNCHANGED vars \/ Dispatch
  BY <1>0, <1>1 DEF vars, Dispatch
<1>2. ASSUME NEW p \in Procs, Materialize(p)  PROVE ReportInv'
  <2>1. Elsewhere(p) /\ proc'[p].cmd = "materialize"
    BY <1>2, <1>a DEF Materialize, Begin, Elsewhere, ProcInv, Idle
  <2>. QED  BY <1>2, <2>1, <1>b DEF Materialize, Announced
<1>3. ASSUME NEW p \in Procs, WriteInbox(p)  PROVE ReportInv'
  <2>. DEFINE n == First(proc[p].nodes)  left == proc[p].nodes \ {n}
  <2>1. proc[p] \in Held /\ Sorting(proc[p]) /\ Tail(proc[p].todo) = <<>>
    BY <1>3, <1>a, OtherStands DEF WriteInbox, At, Stands, ProcInv
  <2>2. Elsewhere(p) /\ proc'[p].cmd # "process"
    <3>1. CASE left = {}
      <4>1. proc' = [proc EXCEPT ![p] = Idle]
        BY <1>3, <2>1, <3>1 DEF WriteInbox, Proceed
      <4>. QED  BY <1>a, <4>1, IdleIsHeld DEF Elsewhere, ProcInv
    <3>2. CASE left # {}
      <4>1. proc' = [proc EXCEPT ![p].nodes = left]
        BY <1>3, <3>2 DEF WriteInbox
      <4>. QED  BY <1>a, <2>1, <4>1 DEF Elsewhere, ProcInv, Held, Sorting
    <3>. QED  BY <3>1, <3>2
  <2>. QED  BY <1>3, <2>2, <1>b DEF WriteInbox, Announced
<1>4. ASSUME NEW p \in Procs, NEW n \in Nodes, NEW c \in BOOLEAN, NEW k \in BOOLEAN, NEW r \in BOOLEAN,
                Process(p, n, c, k, r)
      PROVE  ReportInv'
  <2>1. Elsewhere(p) /\ proc'[p].todo = PassSteps(c, k, r)
    BY <1>4, <1>a DEF Process, Begin, Elsewhere, ProcInv, Idle
  <2>2. Announced(proc[p])'
    BY <2>1, PassIsPath DEF Announced, Stands
  <2>. QED  BY <1>4, <2>1, <2>2, <1>b DEF Process
<1>5. ASSUME NEW p \in Procs, ReadInbox(p)  PROVE ReportInv'
  <2>1. proc[p] \in Held /\ Passing(proc[p]) /\ Stands(proc[p], "readInbox")
    BY <1>5, <1>a, PassStands DEF ReadInbox, At, Stands, ProcInv
  <2>2. CASE HasInbox(proc[p].node)
    <3>. DEFINE h == [proc[p] EXCEPT !.ids = inbox[proc[p].node]]
    <3>1. /\ h \in Held /\ Passing(h) /\ h.todo = proc[p].todo /\ h.cmd = proc[p].cmd
          /\ h.known = proc[p].known /\ h.node = proc[p].node /\ h.reports = proc[p].reports
          /\ h.credits = proc[p].credits /\ h.keeps = proc[p].keeps
      BY <2>1, <2>2 DEF Held, Passing, HasInbox, TypeInv, DiskInv, Files, Addressed
    <3>2. Proceed(p, h) /\ UNCHANGED <<crowded, repeated, outbox>>
      BY <1>5, <2>2 DEF ReadInbox
    <3>. HIDE DEF h
    <3>3. ~Stands(h, "outbox")
      BY <2>1, <3>1 DEF Stands
    <3>. QED  BY <3>1, <3>2, <3>3, <1>c
  <2>3. CASE ~HasInbox(proc[p].node)
    <3>1. Elsewhere(p) /\ proc'[p] = Idle
      BY <1>5, <1>a, <2>3 DEF ReadInbox, Elsewhere, ProcInv
    <3>2. Announced(proc[p])'
      BY <3>1, IdleIsHeld DEF Announced
    <3>. QED  BY <1>5, <3>1, <3>2, <1>b DEF ReadInbox
  <2>. QED  BY <2>2, <2>3
<1>6. ASSUME NEW p \in Procs, ReadLedger(p)  PROVE ReportInv'
  <2>1. proc[p] \in Held /\ Passing(proc[p]) /\ Stands(proc[p], "readLedger")
    BY <1>6, <1>a, PassStands DEF ReadLedger, At, Stands, ProcInv
  <2>. DEFINE h == [proc[p] EXCEPT !.ledger = ledger]
  <2>2. /\ h \in Held /\ Passing(h) /\ h.todo = proc[p].todo /\ h.cmd = proc[p].cmd
        /\ h.known = proc[p].known /\ h.node = proc[p].node /\ h.reports = proc[p].reports
        /\ h.credits = proc[p].credits /\ h.keeps = proc[p].keeps
    BY <2>1 DEF Held, Passing, TypeInv, DiskInv
  <2>3. Proceed(p, h) /\ UNCHANGED <<crowded, repeated, outbox>>
    BY <1>6 DEF ReadLedger
  <2>. HIDE DEF h
  <2>4. ~Stands(h, "outbox")
    BY <2>1, <2>2 DEF Stands
  <2>. QED  BY <2>2, <2>3, <2>4, <1>c
<1>7. ASSUME NEW p \in Procs, SaveLedger(p) \/ SaveState(p)  PROVE ReportInv'
  <2>1. proc[p] \in Held /\ Passing(proc[p]) /\ ~Stands(proc[p], "outbox")
    BY <1>7, <1>a, PassStands DEF SaveLedger, SaveState, At, Stands, ProcInv
  <2>2. Proceed(p, proc[p]) /\ UNCHANGED <<crowded, repeated, outbox>>
    BY <1>7 DEF SaveLedger, SaveState
  <2>. QED  BY <2>1, <2>2, <1>c
<1>8. ASSUME NEW p \in Procs, WriteOutbox(p)  PROVE ReportInv'
  <2>. DEFINE h == proc[p]
  <2>1. h \in Held /\ Passing(h) /\ Stands(h, "outbox")
    BY <1>8, <1>a, PassStands DEF WriteOutbox, At, Stands, ProcInv
  <2>2. UNCHANGED <<crowded, repeated>> /\ Proceed(p, h) /\ outbox' = Put(outbox, h.node, h.ids \ h.known)
    BY <1>8 DEF WriteOutbox, Fresh
  <2>3. /\ Onward(proc'[p], h) /\ Elsewhere(p)
        /\ h.node \notin repeated => h.keeps \/ ~h.credits
    BY <2>1, <2>2, OncePass
  <2>4. h.node \in DOMAIN outbox' /\ outbox'[h.node] = h.ids \ h.known
    BY <2>2 DEF Put
  <2>5. proc'[p].cmd = "process" =>
           proc'[p].node = h.node /\ proc'[p].ids = h.ids /\ proc'[p].known = h.known
    <3>. HIDE DEF h
    <3>. QED  BY <2>1, <2>3, PassOnward
  <2>6. Announced(proc[p])'
    BY <2>4, <2>5 DEF Announced, Reported
  <2>7. ASSUME NEW q \in Procs \ {p}  PROVE Announced(proc[q])'
    <3>1. proc'[q] = proc[q] /\ Announced(proc[q])
      BY <2>3 DEF Elsewhere, ReportInv
    <3>2. proc[q].cmd = "process" /\ proc[q].node \notin crowded => proc[q].node # h.node
      BY <2>1 DEF OnceInv, Alone, Passing
    <3>3. proc[q].cmd = "process" /\ proc[q].node \notin crowded =>
             Reported(proc[q].node)' = Reported(proc[q].node)
      BY <2>2, <3>1, <3>2 DEF Put, Reported
    <3>. QED  BY <2>2, <3>1, <3>3 DEF Announced, Stands
  <2>. QED  BY <2>6, <2>7 DEF ReportInv
<1>9. ASSUME NEW p \in Procs, Collect(p)  PROVE ReportInv'
  <2>1. Elsewhere(p) /\ proc'[p].cmd = "collect"
    BY <1>9, <1>a DEF Collect, Begin, Elsewhere, ProcInv, Idle
  <2>. QED  BY <1>9, <2>1, <1>b DEF Collect, Announced
<1>10. ASSUME NEW p \in Procs, ReadOutbox(p)  PROVE ReportInv'
  <2>. DEFINE g == Gathered(p, First(proc[p].nodes))
  <2>1. proc[p] \in Held /\ proc[p].cmd = "collect"
    BY <1>10, <1>a, OtherStands DEF ReadOutbox, At, Stands, ProcInv, Gathering
  <2>2. g.cmd = "collect" /\ [g EXCEPT !.todo = Tail(g.todo)].cmd = "collect"
    BY <2>1 DEF Gathered, Held
  <2>3. IF g.nodes = {} THEN Proceed(p, g) ELSE proc' = [proc EXCEPT ![p] = g]
    BY <1>10 DEF ReadOutbox
  <2>4. proc' = [proc EXCEPT ![p] = IF g.nodes # {} THEN g
                                    ELSE IF Tail(g.todo) = <<>> THEN Idle
                                    ELSE [g EXCEPT !.todo = Tail(g.todo)]]
    <3>. HIDE DEF g
    <3>. QED  BY <2>3 DEF Proceed
  <2>. HIDE DEF g
  <2>5. Elsewhere(p) /\ proc'[p].cmd # "process"
    BY <1>a, <2>2, <2>4, IdleIsHeld DEF Elsewhere, ProcInv
  <2>. QED  BY <1>10, <2>5, <1>b DEF ReadOutbox, Announced
<1>11. ASSUME NEW p \in Procs, WriteCollected(p)  PROVE ReportInv'
  <2>1. Tail(proc[p].todo) = <<>>
    BY <1>11, <1>a, OtherStands DEF WriteCollected, At, Stands, ProcInv
  <2>2. proc'[p] = Idle /\ Elsewhere(p)
    BY <1>11, <1>a, <2>1 DEF WriteCollected, ProcInv, Proceed, Elsewhere
  <2>3. Announced(proc[p])'
    BY <2>2, IdleIsHeld DEF Announced
  <2>. QED  BY <1>11, <2>2, <2>3, <1>b DEF WriteCollected
<1>12. ASSUME NEW p \in Procs, Die(p)  PROVE ReportInv'
  <2>1. proc'[p] = Idle /\ Elsewhere(p)
    BY <1>12, <1>a DEF Die, Elsewhere, ProcInv
  <2>2. Announced(proc[p])'
    BY <2>1, IdleIsHeld DEF Announced
  <2>. QED  BY <1>12, <2>1, <2>2, <1>b DEF Die
<1>. QED
  BY <1>1, <1>2, <1>3, <1>4, <1>5, <1>6, <1>7, <1>8, <1>9, <1>10, <1>11, <1>12 DEF Next

(* What a pass with an outbox marks is there to collect, however the pass  *)
(* before it ended and whatever the passes of other nodes do.              *)
THEOREM TransportMarkedIsReported == Spec => MarkedIsReported
<1>. DEFINE Marks == \A p \in Procs :
          At(p, "state") /\ state' # state /\ proc'[p] # proc[p]
              /\ proc[p].reports /\ proc[p].node \notin crowded
          => state'[proc[p].node] \ state[proc[p].node] \subseteq Reported(proc[p].node)
<1>1. Init => ReportInv
  BY IdleIsNoPass DEF Init, ReportInv
<1>2. TypeInv /\ OnceInv /\ ReportInv /\ [Next]_vars => [Marks]_vars
  <2>. SUFFICES ASSUME TypeInv, OnceInv, ReportInv, Next, NEW p \in Procs,
                       At(p, "state"), state' # state, proc'[p] # proc[p],
                       proc[p].reports, proc[p].node \notin crowded
                PROVE  state'[proc[p].node] \ state[proc[p].node] \subseteq Reported(proc[p].node)
    BY Zenon
  <2>1. PICK q \in Procs : SaveState(q)
    BY DEF Next, Dispatch, Materialize, WriteInbox, Process, ReadInbox, ReadLedger, SaveLedger,
           WriteOutbox, Collect, ReadOutbox, WriteCollected, Die, disk
  <2>2. q = p
    BY <2>1 DEF SaveState, Proceed, TypeInv, ProcInv
  <2>3. Passing(proc[p]) /\ Stands(proc[p], "state")
    BY PassStands DEF TypeInv, ProcInv, At, Stands
  <2>4. state'[proc[p].node] = proc[p].known \cup (proc[p].ids \ proc[p].known)
    BY <2>1, <2>2, <2>3 DEF SaveState, Fresh, TypeInv, DiskInv, Passing
  <2>5. proc[p].known \subseteq state[proc[p].node]
    BY <2>3 DEF OnceInv, Attentive, Passing
  <2>6. proc[p].ids \ proc[p].known \subseteq Reported(proc[p].node)
    BY <2>3 DEF ReportInv, Announced, Passing
  <2>. QED  BY <2>4, <2>5, <2>6
<1>3. Spec => [][Marks]_vars
  <2>. HIDE DEF Marks
  <2>. QED  BY <1>1, <1>2, TypeInit, TypeStep, OnceInit, OnceStep, ReportStep, PTL DEF Spec
<1>. QED  BY <1>3 DEF MarkedIsReported
=============================================================================
