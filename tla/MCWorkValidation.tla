-------------------------- MODULE MCWorkValidation --------------------------
(* A small instance: texts over two letters, a blank, punctuation and a    *)
(* line end, documents of at most two words, numbers around the largest    *)
(* float.                                                                  *)
EXTENDS WorkValidationProperties

CONSTANTS j1

TextsUpTo(n, chars) == UNION {[1 .. k -> chars] : k \in 0 .. n}
Job(type, payloads) == {[id |-> j1, type |-> type, payload |-> p] : p \in payloads}

WordTexts == TextsUpTo(3, {1, 2, Blank, Mark}) \cup {Absent, Bad}
LineTexts == TextsUpTo(3, {1, Blank, NewLine}) \cup {Absent, Bad}
ChunkTexts == TextsUpTo(5, {1, Blank}) \cup {Bad}
DocTexts == {<<>>, <<1>>, <<2>>, <<1, Blank, 2>>, <<Mark>>}
Documents == [id : {1, 2}, text : DocTexts]
Numbers == {Num(n) : n \in {0, 1, 3, 5, 9}} \cup {Leaf("float", n) : n \in {2, 3, 9}}
             \cup {Leaf("bool", 1)}
Leaves == {Num(1), Leaf("bool", 1), Str(1)}
Kinds == {"string", "integer", "boolean", "float", Unhashable}

MCJobs ==
    Job("echo", [message : TextsUpTo(1, {1}) \cup {Absent, Bad}]) \cup
    Job("hash", [value : {1, 2, Absent, Bad}]) \cup
    Job("basic_compute",
        [operation : {"add", "multiply", "divide", Unhashable},
         operands : UNION {[1 .. k -> Numbers] : k \in 0 .. 2} \cup {Bad}]) \cup
    Job("basic_compute", [operation : {"multiply"},
                          operands : [1 .. 3 -> {Num(2), Leaf("float", 2)}]]) \cup
    Job("schema_transform",
        {[record |-> r, fields |-> f] : r \in [{"a"} -> Leaves] \cup {Bad},
                                        f \in [{"a"} -> Kinds] \cup {Bad}} \cup
        {[record |-> r, fields |-> f] : r \in [{"a", "b"} -> Leaves],
                                        f \in [{"a", "b"} -> {"string", "integer"}]}) \cup
    Job("text_stats", [text : LineTexts]) \cup
    Job("keyword_extract", [text : WordTexts, limit : {0, 1, 2, Absent, Bad}]) \cup
    Job("text_embed", [text : WordTexts, dimensions : {1, 2, 3, Absent}]) \cup
    Job("text_chunk", [text : ChunkTexts, max_chars : {0, 1, 2, 3, Absent}]) \cup
    Job("text_retrieve",
        [query : DocTexts, limit : {0, 1, 2, Absent},
         documents : UNION {[1 .. k -> Documents] : k \in 0 .. 2}]) \cup
    Job("unknown", {<<>>})

MCDigest(token) == FoldSeq(LAMBDA c, sum : 2 * sum + c, 0, token)
MCStopwords == {<<2>>}
MCPerUnit == [text_stats |-> 2, keyword_extract |-> 1, text_chunk |-> 1,
              text_embed |-> 2, dimensions |-> 2]
MCUnitCap == [echo |-> 1, text_retrieve |-> 1, text_stats |-> 2, keyword_extract |-> 2,
              text_chunk |-> 3, text_embed |-> 3]
=============================================================================
