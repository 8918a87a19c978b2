----------------------------- MODULE UpdateInIr -----------------------------
(***************************************************************************)
(* The in-IR pass of                                                       *)
(* src/plugins/ctf/common/metadata/ctf-meta-update-in-ir.c.                *)
(*                                                                         *)
(* The CTF metadata of a trace arrives in chunks.  After each chunk the    *)
(* decoder runs ctf_trace_class_update_in_ir, which decides for every      *)
(* field type whether it is part of the trace IR (in_ir), and then         *)
(* translates the classes to IR, marking them is_translated.  Integers,    *)
(* enumerations and arrays with a meaning (magic, UUID, stream ID, packet  *)
(* size, ...) stay out of the IR; a compound is in it when some member,    *)
(* option or element is; every option of a variant in the IR is put in it. *)
(* The pass skips the field types of translated classes, but still visits  *)
(* the event classes of a translated stream class.                         *)
(***************************************************************************)
EXTENDS Integers, Sequences, SequencesExt

CONSTANTS
    FT,           \* node -> [kind, children]: the field-type trees
    MeaningNodes, \* the integer, enumeration and array nodes that may have
                  \* a meaning, depending on the metadata
    TraceRoot,    \* the trace class's packet header field type (0 if none)
    SC,           \* stream class -> [ctx, hdr, common] root nodes (0: none)
    EC,           \* event class -> [sc, spec, payload] (0: none)
    NChunks       \* number of metadata chunks

Nodes == DOMAIN FT
Classes == {"trace"} \cup DOMAIN SC \cup DOMAIN EC

ASSUME
    /\ \A n \in Nodes :
          FT[n].kind \in {"int", "enum", "struct", "variant", "array",
                          "sequence", "string", "float"}
    /\ MeaningNodes \subseteq {n \in Nodes : FT[n].kind \in {"int", "enum", "array"}}
    /\ \A e \in DOMAIN EC : EC[e].sc \in DOMAIN SC

VARIABLES
    meaning,    \* MeaningNodes -> the node has a meaning (not MEANING_NONE)
    chunkOf,    \* Classes -> the metadata chunk that declares the class
    chunk,      \* the chunks parsed so far
    phase,      \* "parsed", "updated" (in_ir computed) or "translated"
    in_ir,      \* Nodes -> ft->in_ir
    translated  \* the classes whose is_translated is set

vars == <<meaning, chunkOf, chunk, phase, in_ir, translated>>

Meaning(n) == n \in MeaningNodes /\ meaning[n]

(* update_field_type_in_ir(ft) on the function f of in_ir values.  An    *)
(* integer or enumeration with a meaning is taken out; a structure is in  *)
(* when a member is; a variant when an option is, and then all its        *)
(* options are put in; an array or sequence follows its element, and an   *)
(* array with a meaning is taken out.  Other types keep their value.      *)
(* The function returns no error on any path.                             *)
RECURSIVE update_field_type_in_ir(_, _), update_members(_, _, _)
update_field_type_in_ir(n, f) ==
    IF n = 0 THEN f
    ELSE
      LET ch == FT[n].children
          g == update_members(ch, 1, f)
          anyIn == \E i \in 1 .. Len(ch) : g[ch[i]]
      IN CASE FT[n].kind \in {"int", "enum"} ->
                IF Meaning(n) THEN [f EXCEPT ![n] = FALSE] ELSE f
           [] FT[n].kind = "struct" -> [g EXCEPT ![n] = anyIn]
           [] FT[n].kind = "variant" ->
                IF anyIn
                THEN [m \in Nodes |-> IF m = n \/ m \in ToSet(ch) THEN TRUE
                                      ELSE g[m]]
                ELSE [g EXCEPT ![n] = FALSE]
           [] FT[n].kind \in {"array", "sequence"} ->
                [g EXCEPT ![n] = g[ch[1]] /\ ~(FT[n].kind = "array" /\ Meaning(n))]
           [] OTHER -> f

(* The loop over the members, options or element, from index i on. *)
update_members(ch, i, f) ==
    IF i > Len(ch) THEN f
    ELSE update_members(ch, i + 1, update_field_type_in_ir(ch[i], f))

Present(c) == chunkOf[c] <= chunk

(* update_event_class_in_ir: nothing for a translated event class, else *)
(* its specific context, then its payload.                              *)
update_event_class_in_ir(e, f) ==
    IF e \in translated THEN f
    ELSE update_field_type_in_ir(EC[e].payload,
            update_field_type_in_ir(EC[e].spec, f))

(* The loop over the event classes of a stream class; their field types *)
(* are disjoint, so the order of the visit does not matter.             *)
RECURSIVE update_event_classes(_, _)
update_event_classes(es, f) ==
    IF es = {} THEN f
    ELSE LET e == CHOOSE e \in es : TRUE
         IN update_event_classes(es \ {e}, update_event_class_in_ir(e, f))

(* Mutant: the loop over the event classes is inside the is_translated *)
(* test, so a new event class of a translated stream class is skipped.  *)
update_stream_class_in_ir_skip_ecs(s, f) ==
    IF s \in translated THEN f
    ELSE update_event_classes({e \in DOMAIN EC : EC[e].sc = s /\ Present(e)},
           update_field_type_in_ir(SC[s].common,
             update_field_type_in_ir(SC[s].hdr,
               update_field_type_in_ir(SC[s].ctx, f))))

(* update_stream_class_in_ir: the packet context, event header and event *)
(* common context unless the stream class is translated, then every      *)
(* event class of the stream class in any case.                          *)
update_stream_class_in_ir(s, f) ==
    LET g == IF s \in translated THEN f
             ELSE update_field_type_in_ir(SC[s].common,
                    update_field_type_in_ir(SC[s].hdr,
                      update_field_type_in_ir(SC[s].ctx, f)))
    IN update_event_classes({e \in DOMAIN EC : EC[e].sc = s /\ Present(e)}, g)

(* Field types are created with in_ir set (an integer without a meaning  *)
(* is never set in by the pass, yet is in the IR); the metadata chooses   *)
(* which candidate fields have a meaning, and how the classes are split   *)
(* into chunks: a stream class never after its event classes, the trace   *)
(* class in the first chunk.                                               *)
Init ==
    /\ meaning \in [MeaningNodes -> BOOLEAN]
    /\ chunkOf \in {f \in [Classes -> 1 .. NChunks] :
                      /\ f["trace"] = 1
                      /\ \A e \in DOMAIN EC : f[EC[e].sc] <= f[e]}
    /\ chunk = 1
    /\ phase = "parsed"
    /\ in_ir = [n \in Nodes |-> TRUE]
    /\ translated = {}

(* The loop over the stream classes of the trace class. *)
RECURSIVE update_stream_classes(_, _)
update_stream_classes(ss, f) ==
    IF ss = {} THEN f
    ELSE LET s == CHOOSE s \in ss : TRUE
         IN update_stream_classes(ss \ {s}, update_stream_class_in_ir(s, f))

(* ctf_trace_class_update_in_ir: the packet header unless the trace class *)
(* is translated, then every stream class.                                *)
ctf_trace_class_update_in_ir ==
    /\ phase = "parsed"
    /\ in_ir' = update_stream_classes({s \in DOMAIN SC : Present(s)},
                    IF "trace" \in translated THEN in_ir
                    ELSE update_field_type_in_ir(TraceRoot, in_ir))
    /\ phase' = "updated"
    /\ UNCHANGED <<meaning, chunkOf, chunk, translated>>

(* The translation to IR of every class declared so far, which sets its *)
(* is_translated flag.                                                   *)
Translate ==
    /\ phase = "updated"
    /\ translated' = {c \in Classes : Present(c)}
    /\ phase' = "translated"
    /\ UNCHANGED <<meaning, chunkOf, chunk, in_ir>>

(* The decoder parses the next metadata chunk. *)
AppendChunk ==
    /\ phase = "translated" /\ chunk < NChunks
    /\ chunk' = chunk + 1
    /\ phase' = "parsed"
    /\ UNCHANGED <<meaning, chunkOf, in_ir, translated>>

Done == phase = "translated" /\ chunk = NChunks /\ UNCHANGED vars

Next == ctf_trace_class_update_in_ir \/ Translate \/ AppendChunk \/ Done

Spec == Init /\ [][Next]_vars

-----------------------------------------------------------------------------
TypeOK ==
    /\ meaning \in [MeaningNodes -> BOOLEAN]
    /\ chunkOf \in [Classes -> 1 .. NChunks]
    /\ chunk \in 1 .. NChunks
    /\ phase \in {"parsed", "updated", "translated"}
    /\ in_ir \in [Nodes -> BOOLEAN]
    /\ translated \subseteq Classes

(* Reference definition: a field type holds something for the IR when it *)
(* is an integer or enumeration without a meaning, a string or a float,  *)
(* a structure or variant with such a member or option, a sequence of    *)
(* such elements, or such an array without a meaning.                    *)
RECURSIVE Keeps(_)
Keeps(n) ==
    LET ch == FT[n].children IN
    CASE FT[n].kind \in {"int", "enum"} -> ~Meaning(n)
      [] FT[n].kind \in {"struct", "variant"} -> \E i \in 1 .. Len(ch) : Keeps(ch[i])
      [] FT[n].kind = "array" -> Keeps(ch[1]) /\ ~Meaning(n)
      [] FT[n].kind = "sequence" -> Keeps(ch[1])
      [] OTHER -> TRUE

(* The comment of update_field_type_in_ir: every option of a variant that *)
(* is in the IR is in it as well, even one that keeps nothing.           *)
InIrRef(n) ==
    \/ Keeps(n)
    \/ \E v \in Nodes : FT[v].kind = "variant" /\ n \in ToSet(FT[v].children)
                        /\ Keeps(v)

RECURSIVE Subtree(_)
Subtree(n) == IF n = 0 THEN {}
              ELSE {n} \cup UNION {Subtree(FT[n].children[k]) :
                                      k \in 1 .. Len(FT[n].children)}

(* The field types of the classes declared so far. *)
DeclaredNodes ==
    Subtree(TraceRoot)
    \cup UNION {Subtree(SC[s].ctx) \cup Subtree(SC[s].hdr) \cup Subtree(SC[s].common) :
                  s \in {s \in DOMAIN SC : Present(s)}}
    \cup UNION {Subtree(EC[e].spec) \cup Subtree(EC[e].payload) :
                  e \in {e \in DOMAIN EC : Present(e)}}

(* Whenever the classes are translated, after any number of chunks, the   *)
(* in_ir flag of every field type declared so far is what the reference  *)
(* definition gives: the pass has visited every new class, including new *)
(* event classes of stream classes translated in an earlier chunk, and    *)
(* has left those of translated classes as they were computed.           *)
InIrAsDefined ==
    phase = "translated" => \A n \in DeclaredNodes : in_ir[n] = InIrRef(n)
====
