------------------------- MODULE MCStoringIndexes -------------------------
(* A packet context with two sequences of lengths len_a and len_b, and an *)
(* event payload with a variant on tag and, in one of its options, a      *)
(* sequence whose length is len_a again.                                   *)
EXTENDS StoringIndexes

F(kind, children, target) == [kind |-> kind, children |-> children,
                              target |-> target]

MCFT == (1 :> F("struct", <<2, 3, 4, 6>>, 0)) @@
        (2 :> F("int", <<>>, 0)) @@ (3 :> F("int", <<>>, 0)) @@
        (4 :> F("sequence", <<5>>, 2)) @@ (5 :> F("int", <<>>, 0)) @@
        (6 :> F("sequence", <<7>>, 3)) @@ (7 :> F("string", <<>>, 0)) @@
        (8 :> F("struct", <<9, 10>>, 0)) @@ (9 :> F("enum", <<>>, 0)) @@
        (10 :> F("variant", <<11, 12>>, 9)) @@ (11 :> F("int", <<>>, 0)) @@
        (12 :> F("struct", <<13>>, 0)) @@
        (13 :> F("sequence", <<14>>, 2)) @@ (14 :> F("float", <<>>, 0))

MCScopes == <<[root |-> 1, translated |-> FALSE],
              [root |-> 8, translated |-> FALSE]>>
====
