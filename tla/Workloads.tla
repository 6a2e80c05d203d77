----------------------------- MODULE Workloads -----------------------------
(***************************************************************************)
(* The deterministic workloads of the local runner, the gate that          *)
(* validates a reported result by running the workload again, and the      *)
(* scorer: pure functions of a job and a result.                           *)
(*                                                                         *)
(* A character is a number: letters are positive and lower case already,   *)
(* Blank and NewLine are white space, Mark is punctuation. An output is a  *)
(* record of fields, a field a sequence of rows (one row for a scalar),    *)
(* a row a sequence of leaves, a leaf a value with its Python type. An     *)
(* output that is a bare string has the single field "value".              *)
(***************************************************************************)
EXTENDS Integers, Sequences, FiniteSets, SequencesExt

CONSTANTS
    Absent,         \* a payload field that is missing
    Bad,            \* a payload value of the wrong type
    Unhashable,     \* a list or object where the code looks a name up in a set
    Other,          \* a value the runner did not compute
    Malformed,      \* what a builder returns when it raises ValueError
    Raised,         \* what it returns when it raises anything else
    Stopwords,      \* tokens a keyword job leaves out
    Digest(_),      \* the first bytes of a token's SHA-256
    MaxFloat,       \* the largest number a float can hold
    MaxOperands, MaxLimit, MinDimensions, MaxDimensions, MaxChars, PreviewChars,
    DefaultLimit, DefaultDimensions, DefaultMaxChars,
    PerUnit, UnitCap    \* by job type: size one more unit stands for; most units

\* Limits and scales of the program are positive numbers.
ScaledTypes == {"text_stats", "keyword_extract", "text_chunk", "text_embed"}
LimitsAssumption ==
    /\ {MaxOperands, MaxLimit, MinDimensions, MaxDimensions, MaxChars, PreviewChars,
        DefaultLimit, DefaultDimensions, DefaultMaxChars} \subseteq Nat \ {0}
    /\ {PerUnit[type] : type \in ScaledTypes \cup {"dimensions"}} \subseteq Nat \ {0}
    /\ {UnitCap[type] : type \in ScaledTypes \cup {"echo", "text_retrieve"}} \subseteq Nat \ {0}
ASSUME LimitsAssumption

Blank == 0
Mark == -1
NewLine == -2
Space == {Blank, NewLine}

Leaf(kind, val) == [kind |-> kind, val |-> val]
Num(n) == Leaf("int", n)
Str(s) == Leaf("str", s)
Scalar(leaf) == << <<leaf>> >>

TypeNames == {"echo", "hash", "basic_compute", "schema_transform", "text_stats",
              "keyword_extract", "text_chunk", "text_embed", "text_retrieve"}

-----------------------------------------------------------------------------
(* Text.                                                                   *)

\* The elements of S in their order: as many come before the n-th as there
\* are places before it.
Ordered(S, Before(_, _)) ==
    [n \in 1 .. Cardinality(S) |->
        CHOOSE x \in S : Cardinality({y \in S : Before(y, x)}) = n - 1]

\* The maximal runs of characters of t that are in kept.
Runs(t, kept) ==
    LET starts == {i \in DOMAIN t : t[i] \in kept /\ (i > 1 => t[i - 1] \notin kept)}
        end(i) == CHOOSE j \in i .. Len(t) :
                     /\ \A k \in i .. j : t[k] \in kept
                     /\ j = Len(t) \/ t[j + 1] \notin kept
        s == Ordered(starts, <)
    IN  [n \in DOMAIN s |-> SubSeq(t, s[n], end(s[n]))]

Words(t) == Runs(t, Int \ Space)
Tokens(t) == Runs(t, Nat \ {0})
Count(x, s) == Cardinality({i \in DOMAIN s : s[i] = x})
TextLess(a, b) ==
    \/ Len(a) < Len(b) /\ a = SubSeq(b, 1, Len(a))
    \/ \E i \in 1 .. Len(a) :
          /\ i <= Len(b) /\ a[i] < b[i]
          /\ \A k \in 1 .. i - 1 : a[k] = b[k]
FirstOf(s, n) == SubSeq(s, 1, IF n < Len(s) THEN n ELSE Len(s))
OrDefault(v, default) == IF v = Absent THEN default ELSE v
Within(v, low, high) == v \notin {Bad, Unhashable} /\ v >= low /\ v <= high
IsText(t) == t \notin {Absent, Bad}
HasWords(t) == IsText(t) /\ Words(t) # <<>>

-----------------------------------------------------------------------------
(* The builders: payload to output, Malformed for a ValueError.            *)

BuildHash(p) ==
    IF p.value \in {Absent, Bad} THEN Malformed
    ELSE [algorithm |-> Scalar(Str("sha256")), digest |-> Scalar(Str(p.value))]

\* A running total is checked as a float after every operand: an integer no
\* float can hold raises OverflowError instead of being reported as infinite.
Checked(leaf) ==
    IF leaf.kind \notin {"int", "float"} THEN Malformed
    ELSE IF leaf.val \in -MaxFloat .. MaxFloat THEN leaf
    ELSE IF leaf.kind = "int" THEN Raised ELSE Malformed
Combine(op, a, b) ==
    Leaf(IF "float" \in {a.kind, b.kind} THEN "float" ELSE "int",
         IF op = "add" THEN a.val + b.val ELSE a.val * b.val)
Totals(op, operands) ==
    LET total[i \in 0 .. Len(operands)] ==
            IF i = 0 THEN Num(IF op = "add" THEN 0 ELSE 1)
            ELSE IF total[i - 1] \in {Raised, Malformed} THEN total[i - 1]
            ELSE Checked(Combine(op, total[i - 1], operands[i]))
    IN  total
BuildBasicCompute(p) ==
    LET total == Totals(p.operation, p.operands)[Len(p.operands)]
        refused == {i \in DOMAIN p.operands : Checked(p.operands[i]) \in {Raised, Malformed}}
        first == CHOOSE i \in refused : \A k \in refused : i <= k
    IN  IF p.operation = Unhashable THEN Raised
        ELSE IF p.operation \notin {"add", "multiply"} THEN Malformed
        ELSE IF p.operands = Bad \/ ~(Len(p.operands) \in 1 .. MaxOperands) THEN Malformed
        ELSE IF refused # {} THEN Checked(p.operands[first])
        ELSE IF total \in {Raised, Malformed} THEN total
        ELSE [operation |-> Scalar(Str(p.operation)), result |-> Scalar(total)]

\* At most one declared field of a payload is unusable: with two of them the
\* one the payload names first decides how the builder fails.
DeclaredKind == [string |-> "str", integer |-> "int", boolean |-> "bool"]
BuildSchemaTransform(p) ==
    IF p.record = Bad \/ p.fields = Bad \/ DOMAIN p.fields = {} THEN Malformed
    ELSE IF \E f \in DOMAIN p.fields : p.fields[f] = Unhashable THEN Raised
    ELSE IF \/ \E f \in DOMAIN p.fields : p.fields[f] \notin DOMAIN DeclaredKind
            \/ DOMAIN p.record # DOMAIN p.fields
            \/ \E f \in DOMAIN p.fields : p.record[f].kind # DeclaredKind[p.fields[f]]
         THEN Malformed
    ELSE [f \in DOMAIN p.fields |-> Scalar(p.record[f])]

Joined(words) ==
    LET to[i \in 0 .. Len(words)] ==
            IF i = 0 THEN <<>>
            ELSE to[i - 1] \o (IF i > 1 THEN <<Blank>> ELSE <<>>) \o words[i]
    IN  to[Len(words)]
BuildTextStats(p) ==
    IF ~IsText(p.text) THEN Malformed
    ELSE [character_count |-> Scalar(Num(Len(p.text))),
          word_count |-> Scalar(Num(Len(Words(p.text)))),
          line_count |-> Scalar(Num(Count(NewLine, p.text) + 1)),
          normalized_preview |->
              Scalar(Str(FirstOf(Joined(Words(p.text)), PreviewChars)))]

BuildKeywordExtract(p) ==
    LET limit == OrDefault(p.limit, DefaultLimit)
        tokens == Tokens(p.text)
        kept == {i \in DOMAIN tokens : tokens[i] \notin Stopwords}
        terms == {tokens[i] : i \in kept}
        count(t) == Cardinality({i \in kept : tokens[i] = t})
        before(a, b) == \/ count(a) > count(b)
                        \/ count(a) = count(b) /\ TextLess(a, b)
        listed == FirstOf(Ordered(terms, before), limit)
    IN  IF ~HasWords(p.text) \/ ~Within(limit, 1, MaxLimit) THEN Malformed
        ELSE [keywords |-> [i \in DOMAIN listed |->
                               <<Str(listed[i]), Num(count(listed[i]))>>],
              unique_terms |-> Scalar(Num(Cardinality(terms))),
              total_terms |-> Scalar(Num(Cardinality(kept)))]

BuildTextEmbed(p) ==
    LET dimensions == OrDefault(p.dimensions, DefaultDimensions)
        tokens == Tokens(p.text)
        bucket(i) == Digest(tokens[i]) % dimensions
    IN  IF ~HasWords(p.text) \/ ~Within(dimensions, MinDimensions, MaxDimensions)
        THEN Malformed
        ELSE [dimensions |-> Scalar(Num(dimensions)),
              token_count |-> Scalar(Num(Len(tokens))),
              unique_terms |-> Scalar(Num(Cardinality(ToSet(tokens)))),
              vector |-> [d \in 1 .. dimensions |->
                 <<Num(Cardinality({i \in DOMAIN tokens : bucket(i) = d - 1}))>>]]

\* A match keeps the number of query terms found as its score: the code
\* divides it by the same number of query terms for every document.
BuildTextRetrieve(p) ==
    LET queried == ToSet(Tokens(p.query))
        terms == Ordered(queried, TextLess)
        limit == OrDefault(p.limit, Len(p.documents))
        found(d) == queried \cap ToSet(Tokens(d.text))
        matched(d) == Cardinality(found(d))
        row(d) == <<Str(d.id), Leaf("float", matched(d)), Num(matched(d))>>
                      \o [i \in 1 .. matched(d) |-> Str(Ordered(found(d), TextLess)[i])]
        before(a, b) == \/ matched(a) > matched(b)
                        \/ matched(a) = matched(b) /\ a.id < b.id
        listed == FirstOf(Ordered(ToSet(p.documents), before), limit)
        usable == \A i \in DOMAIN p.documents :
                     /\ HasWords(p.documents[i].text)
                     /\ \A k \in 1 .. i - 1 : p.documents[k].id # p.documents[i].id
    IN  IF \/ ~HasWords(p.query) \/ queried = {} \/ p.documents = <<>>
           \/ ~Within(limit, 1, Len(p.documents)) \/ ~usable
        THEN Malformed
        ELSE [query_terms |-> [i \in DOMAIN terms |-> <<Str(terms[i])>>],
              matches |-> [i \in DOMAIN listed |-> row(listed[i])]]

\* A mutant of PreferredSplit: chunks are cut at their greatest length.
HardSplit(t, start, hardEnd) == hardEnd

\* Where the chunk of t that begins after position start ends.
PreferredSplit(t, start, hardEnd) ==
    LET spaces == {i \in start + 1 .. hardEnd : t[i] \in Space}
    IN  IF t[hardEnd + 1] \in Space \/ spaces = {} THEN hardEnd
        ELSE CHOOSE i \in spaces : \A k \in spaces : k <= i
Split(t, most, start) ==
    IF start + most >= Len(t) THEN Len(t) ELSE PreferredSplit(t, start, start + most)
ChunksFrom(t, most) ==
    LET chunks[start \in 0 .. Len(t)] ==
            IF start = Len(t) THEN <<>>
            ELSE <<SubSeq(t, start + 1, Split(t, most, start))>>
                     \o chunks[Split(t, most, start)]
    IN  chunks
BuildTextChunk(p) ==
    LET most == OrDefault(p.max_chars, DefaultMaxChars)
        chunks == ChunksFrom(p.text, most)[0]
    IN  IF ~IsText(p.text) \/ ~Within(most, 1, MaxChars) THEN Malformed
        ELSE [chunks |-> [i \in DOMAIN chunks |->
                 <<Num(i - 1), Str(chunks[i]), Num(Len(chunks[i]))>>],
              chunk_count |-> Scalar(Num(Len(chunks))),
              character_count |-> Scalar(Num(Len(p.text)))]

Build(job) ==
    CASE job.type = "hash" -> BuildHash(job.payload)
      [] job.type = "basic_compute" -> BuildBasicCompute(job.payload)
      [] job.type = "schema_transform" -> BuildSchemaTransform(job.payload)
      [] job.type = "text_stats" -> BuildTextStats(job.payload)
      [] job.type = "keyword_extract" -> BuildKeywordExtract(job.payload)
      [] job.type = "text_chunk" -> BuildTextChunk(job.payload)
      [] job.type = "text_embed" -> BuildTextEmbed(job.payload)
      [] job.type = "text_retrieve" -> BuildTextRetrieve(job.payload)
      [] OTHER -> Malformed

-----------------------------------------------------------------------------
(* LocalRunner.run.                                                        *)

Result(job, node, status, output, units) ==
    [job |-> job.id, node |-> node, status |-> status, output |-> output, units |-> units]

\* An echo of a job without a message is an empty string; it is not refused.
EchoOutput(p) == [value |-> Scalar(IF p.message = Absent THEN Str(<<>>)
                                   ELSE IF p.message = Bad THEN Leaf("null", Bad)
                                   ELSE Str(p.message))]
Reported(job, node, output) ==
    CASE output = Raised -> Raised
      [] output = Malformed -> Result(job, node, "failed", Malformed, 0)
      [] OTHER -> Result(job, node, "completed", output, 1)
RunJob(job, node) ==
    Reported(job, node, IF job.type = "echo" THEN EchoOutput(job.payload) ELSE Build(job))

-----------------------------------------------------------------------------
(* validate_job_result.                                                    *)

One(kind) == [many |-> FALSE, kinds |-> <<kind>>, rest |-> "none"]
Many(kinds, rest) == [many |-> TRUE, kinds |-> kinds, rest |-> rest]
OutputSchema(job) ==
    CASE job.type = "echo" -> [value |-> One("str")]
      [] job.type = "hash" -> [algorithm |-> One("str"), digest |-> One("str")]
      [] job.type = "basic_compute" -> [operation |-> One("str"), result |-> One("number")]
      [] job.type = "text_stats" ->
            [character_count |-> One("int"), word_count |-> One("int"),
             line_count |-> One("int"), normalized_preview |-> One("str")]
      [] job.type = "keyword_extract" ->
            [keywords |-> Many(<<"str", "int">>, "none"),
             unique_terms |-> One("int"), total_terms |-> One("int")]
      [] job.type = "text_chunk" ->
            [chunks |-> Many(<<"int", "str", "int">>, "none"),
             chunk_count |-> One("int"), character_count |-> One("int")]
      [] job.type = "text_embed" ->
            [dimensions |-> One("int"), token_count |-> One("int"),
             unique_terms |-> One("int"), vector |-> Many(<<"int">>, "none")]
      [] job.type = "text_retrieve" ->
            [query_terms |-> Many(<<"str">>, "none"),
             matches |-> Many(<<"str", "number", "int">>, "str")]
      [] job.type = "schema_transform" ->
            [f \in DOMAIN job.payload.fields |-> One(DeclaredKind[job.payload.fields[f]])]

\* isinstance, where a Python bool is an int the schema still refuses.
Accepts(kind, leaf) ==
    leaf.kind \in (IF kind = "number" THEN {"int", "float"} ELSE {kind})
RowFits(row, schema) ==
    /\ Len(row) >= Len(schema.kinds)
    /\ schema.rest = "none" => Len(row) = Len(schema.kinds)
    /\ \A i \in DOMAIN row :
          Accepts(IF i \in DOMAIN schema.kinds THEN schema.kinds[i] ELSE schema.rest, row[i])

\* A mutant of FitsSchema: only the fields are looked at, not their types.
HasFields(output, schema) == output # Malformed /\ DOMAIN output = DOMAIN schema

FitsSchema(output, schema) ==
    /\ output # Malformed
    /\ DOMAIN output = DOMAIN schema
    /\ \A f \in DOMAIN schema :
          /\ schema[f].many \/ Len(output[f]) = 1
          /\ \A i \in DOMAIN output[f] : RowFits(output[f][i], schema[f])

\* Python equality: True equals 1 and 1.0, and nothing else crosses types.
Plain(leaf) == <<IF leaf.kind \in {"int", "float", "bool"} THEN "num" ELSE leaf.kind, leaf.val>>
EqualOutputs(a, b) ==
    /\ DOMAIN a = DOMAIN b
    /\ \A f \in DOMAIN a :
          /\ Len(a[f]) = Len(b[f])
          /\ \A i \in DOMAIN a[f] :
                /\ Len(a[f][i]) = Len(b[f][i])
                /\ \A k \in DOMAIN a[f][i] : Plain(a[f][i][k]) = Plain(b[f][i][k])

\* What the gate computes again from the payload; an echo must have a message.
Expected(job) ==
    IF job.type = "echo"
    THEN IF IsText(job.payload.message) THEN EchoOutput(job.payload) ELSE Malformed
    ELSE Build(job)

AnyNode == "any node"
\* The reason validate_job_result gives, its checks in their order.
Verdict(job, result, node, expected) ==
    IF job.type \notin TypeNames THEN "unsupported_job_type"
    ELSE IF result.status # "completed" THEN "result_not_completed"
    ELSE IF result.job # job.id THEN "job_id_mismatch"
    ELSE IF node # AnyNode /\ result.node # node THEN "result_node_id_mismatch"
    ELSE IF result.units # 1 THEN "unexpected_contribution_units"
    ELSE IF expected = Raised THEN Raised
    ELSE IF expected = Malformed THEN "malformed_payload"
    ELSE IF ~FitsSchema(result.output, OutputSchema(job)) THEN "output_schema"
    ELSE IF ~EqualOutputs(result.output, expected) THEN "output_mismatch"
    ELSE "ok"
ValidateJobResult(job, result, node) == Verdict(job, result, node, Expected(job))

-----------------------------------------------------------------------------
(* score_validated_contribution, for a result the gate has accepted.       *)

Value(output, f) == output[f][1][1].val
CeilDiv(n, size) == (n + size - 1) \div size
\* A mutant of Capped: the cap is applied before the unit every result earns.
CappedLate(type, units) == IF units <= UnitCap[type] THEN units ELSE UnitCap[type] + 1

Capped(type, units) == IF units < UnitCap[type] THEN units ELSE UnitCap[type]
Score(job, result) ==
    LET out == result.output
        per == PerUnit[job.type]
        terms == {out.keywords[i][1].val : i \in DOMAIN out.keywords}
    IN  CASE job.type \in {"echo", "text_retrieve"} -> 1
          [] job.type = "text_stats" ->
                Capped(job.type, 1 + CeilDiv(Value(out, "character_count"), per))
          [] job.type = "keyword_extract" ->
                IF Cardinality(terms) # Len(out.keywords) THEN 0
                ELSE Capped(job.type, 1 + CeilDiv(Cardinality(terms), per))
          [] job.type = "text_chunk" ->
                IF Len(out.chunks) # Value(out, "chunk_count") THEN 0
                ELSE Capped(job.type, 1 + CeilDiv(Value(out, "chunk_count"), per))
          [] job.type = "text_embed" ->
                IF Len(out.vector) # Value(out, "dimensions") THEN 0
                ELSE Capped(job.type, 1 + CeilDiv(Value(out, "token_count"), per)
                                        + CeilDiv(Value(out, "dimensions"), PerUnit.dimensions))
          [] OTHER -> 0
=============================================================================
