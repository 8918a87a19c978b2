--------------------------- MODULE StoringIndexes ---------------------------
(***************************************************************************)
(* The stored-value index pass of                                          *)
(* src/plugins/ctf/common/metadata/ctf-meta-update-value-storing-indexes.c *)
(*                                                                         *)
(* Every variant (through its tag) and every sequence (through its length) *)
(* depends on an integer field decoded earlier.  The pass gives each such  *)
(* target integer a storing index (the slot the BTR writes its value to)   *)
(* and each dependent the stored index it reads.  One step of the model is *)
(* one call of update_field_type_stored_value_index made by                *)
(* ctf_trace_class_update_saving_indexes on a scope's root field type.     *)
(***************************************************************************)
EXTENDS Integers, Sequences, SequencesExt

CONSTANTS
    FT,      \* node -> [kind, children (member / option / element nodes),
             \*          target (node of the tag or length integer, or 0)]
    Scopes   \* the root field types in the walk's order, with is_translated

Nodes == DOMAIN FT

ASSUME
    /\ \A n \in Nodes :
          /\ FT[n].kind \in {"int", "enum", "struct", "variant", "array",
                             "sequence", "string", "float"}
          /\ FT[n].target # 0 <=> FT[n].kind \in {"variant", "sequence"}
          /\ FT[n].target # 0 => FT[FT[n].target].kind \in {"int", "enum"}
    /\ \A k \in 1 .. Len(Scopes) : Scopes[k].root \in Nodes

VARIABLES
    tc,      \* [storing |-> tgt_ft->storing_index per node,
             \*  stored |-> stored_tag_index / stored_length_index per node,
             \*  count |-> tc->stored_index_count]
    next     \* index in Scopes of the next root field type to visit

vars == <<tc, next>>

(* update_field_type_stored_value_index(ft, tc, sc, ec).  The local copy  *)
(* stored_index_count is taken from the trace class on entry; a target    *)
(* with no storing index yet gets that copy, which is then incremented,   *)
(* and the members, options or element are visited in order.              *)
RECURSIVE update_field_type_stored_value_index(_, _)
update_field_type_stored_value_index(n, t) ==
    LET stored_index_count == t.count
        tgt == FT[n].target
        withIndex ==
            IF tgt = 0 THEN t
            ELSE LET storing_index == IF t.storing[tgt] >= 0
                                      THEN t.storing[tgt]
                                      ELSE stored_index_count
                 IN [t EXCEPT !.stored[n] = storing_index]
    IN FoldLeft(LAMBDA acc, c : update_field_type_stored_value_index(c, acc),
                withIndex, FT[n].children)

(* The trace class as the metadata parser leaves it: no index yet. *)
Init ==
    /\ tc = [storing |-> [n \in Nodes |-> -1],
             stored  |-> [n \in Nodes |-> -1],
             count   |-> 0]
    /\ next = 1

(* ctf_trace_class_update_saving_indexes, one root field type per step;  *)
(* a translated class is skipped.                                        *)
VisitScope ==
    /\ next <= Len(Scopes)
    /\ tc' = IF Scopes[next].translated THEN tc
             ELSE update_field_type_stored_value_index(Scopes[next].root, tc)
    /\ next' = next + 1

Done == next > Len(Scopes) /\ UNCHANGED vars

Next == VisitScope \/ Done

Spec == Init /\ [][Next]_vars

-----------------------------------------------------------------------------
RECURSIVE Subtree(_)
Subtree(n) == {n} \cup UNION {Subtree(FT[n].children[k]) :
                                 k \in 1 .. Len(FT[n].children)}

(* Variants and sequences of the scopes the pass visits. *)
Dependents ==
    {d \in UNION {Subtree(Scopes[k].root) :
                    k \in {j \in 1 .. Len(Scopes) : ~Scopes[j].translated}} :
        FT[d].target # 0}

(* Spec 4.2: once the pass is over, every integer a variant tag or a      *)
(* sequence length refers to has a storing index, each dependent reads    *)
(* the slot its own target writes, and different targets never share a   *)
(* slot.                                                                  *)
StoredIndexesConsistent ==
    next > Len(Scopes) =>
        /\ \A d \in Dependents :
              /\ tc.storing[FT[d].target] >= 0
              /\ tc.stored[d] = tc.storing[FT[d].target]
        /\ \A d1, d2 \in Dependents :
              FT[d1].target # FT[d2].target => tc.stored[d1] # tc.stored[d2]
====
