---------------------- MODULE WorkValidationProperties ----------------------
(***************************************************************************)
(* What the validation gate promises about an assigned job.                *)
(***************************************************************************)
EXTENDS WorkValidation

-----------------------------------------------------------------------------
\* The runner and the gate, which are written apart, agree: what the local
\* runner completes the gate accepts, in the worker, in the executor and in a
\* later replay of the report with its credited units. Only an echo without a
\* message is completed by the one and refused by the other.
NeedsMessage == job.type = "echo" /\ ~IsText(job.payload.message)
ReplayRepeatsVerdict == ~altered /\ phase = "replayed" => replayed = verdict
HonestIsAccepted ==
    /\ ~altered /\ phase \in {"reported", "received"} /\ result.status = "completed"
       /\ ~NeedsMessage => verdict = "ok"
    /\ ReplayRepeatsVerdict

-----------------------------------------------------------------------------
\* Whatever another runner returned and whatever was edited into a report, the
\* gate accepts a result only for the assigned job and node and with the
\* output the workload computes, to the type of every field: True or 1.0 do
\* not pass for 1. The one field that may differ in type is a plain number.
SameLeaf(a, b, kind) == a = b \/ (kind = "number" /\ Plain(a) = Plain(b))
KindAt(schema, k) == IF k \in DOMAIN schema.kinds THEN schema.kinds[k] ELSE schema.rest
SameOutput(a, b, schema) ==
    /\ DOMAIN a = DOMAIN b
    /\ \A f \in DOMAIN a :
          /\ Len(a[f]) = Len(b[f])
          /\ \A i \in DOMAIN a[f] :
                /\ Len(a[f][i]) = Len(b[f][i])
                /\ \A k \in DOMAIN a[f][i] :
                      SameLeaf(a[f][i][k], b[f][i][k], KindAt(schema[f], k))
Accepted == \/ phase = "received" /\ verdict = "ok"
            \/ phase = "replayed" /\ replayed = "ok"
AcceptedIsExact ==
    Accepted =>
        /\ result.status = "completed" /\ result.job = job.id /\ result.node = Node
        /\ SameOutput(result.output, Own.output, OutputSchema(job))

-----------------------------------------------------------------------------
\* A worker credits what it accepted and nothing else: at least one unit and
\* at most the cap of the type for a scored type, none for the types the
\* scorer does not know, however large the output.
Scored == TypeNames \ {"hash", "basic_compute", "schema_transform"}
CreditFollowsVerdict ==
    phase = "reported" /\ ~altered =>
        result.units \in IF verdict = "ok" /\ job.type \in Scored
                         THEN 1 .. UnitCap[job.type] ELSE {0}

-----------------------------------------------------------------------------
\* The outputs say of their input what they are for. Chunks put together are
\* the text, none is empty or too long, and a word is cut only if its chunk
\* has no white space to end at. Every document left out of a ranking matches
\* no more terms than one listed, and the list is in order. No keyword left
\* out is more frequent than one listed. A feature vector counts every token.
Completed(type) == job.type = type /\ result.status = "completed" /\ ~altered
    /\ phase \in {"reported", "received"}
ChunkText(i) == result.output.chunks[i][2].val
ChunksCoverText ==
    LET text == job.payload.text
        chunks == result.output.chunks
        before[i \in 0 .. Len(chunks)] ==
            IF i = 0 THEN 0 ELSE before[i - 1] + Len(ChunkText(i))
    IN  /\ before[Len(chunks)] = Len(text)
        /\ \A i \in DOMAIN chunks :
              /\ ChunkText(i) = SubSeq(text, before[i - 1] + 1, before[i])
              /\ Len(ChunkText(i)) \in 1 .. OrDefault(job.payload.max_chars, DefaultMaxChars)
              /\ \/ i = Len(chunks)
                 \/ {text[before[i]], text[before[i] + 1]} \cap Space # {}
                 \/ ToSet(ChunkText(i)) \cap Space = {}
Overlap(d) == Cardinality(ToSet(Tokens(job.payload.query)) \cap ToSet(Tokens(d.text)))
RankingKeepsBest ==
    LET documents == ToSet(job.payload.documents)
        listed(i) == CHOOSE d \in documents : d.id = result.output.matches[i][1].val
        shown == {listed(i) : i \in DOMAIN result.output.matches}
    IN  /\ Cardinality(shown) = Len(result.output.matches)
        /\ \A i, k \in DOMAIN result.output.matches :
              i < k => Overlap(listed(i)) >= Overlap(listed(k))
        /\ \A d \in documents \ shown, e \in shown : Overlap(d) <= Overlap(e)
KeywordsAreMostFrequent ==
    LET rows == result.output.keywords
        tokens == Tokens(job.payload.text)
        terms == ToSet(tokens) \ Stopwords
        listed == {rows[i][1].val : i \in DOMAIN rows}
    IN  /\ listed \subseteq terms
        /\ \A i \in DOMAIN rows : rows[i][2].val = Count(rows[i][1].val, tokens)
        /\ \A t \in terms \ listed, u \in listed : Count(t, tokens) <= Count(u, tokens)
VectorCountsTokens ==
    LET vector == result.output.vector
        counted[d \in 0 .. Len(vector)] ==
            IF d = 0 THEN 0 ELSE counted[d - 1] + vector[d][1].val
    IN  counted[Len(vector)] = Len(Tokens(job.payload.text))
OutputsMeetReference ==
    /\ Completed("text_chunk") => ChunksCoverText
    /\ Completed("text_retrieve") => RankingKeepsBest
    /\ Completed("keyword_extract") => KeywordsAreMostFrequent
    /\ Completed("text_embed") => VectorCountsTokens
=============================================================================
