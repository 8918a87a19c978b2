--------------------------- MODULE MCUpdateInIr ---------------------------
(* A trace whose packet header holds magic and uuid (an array of bytes); *)
(* a stream class sc0 whose packet context holds content_size,            *)
(* packet_size and cpu_id,                                                 *)
(* and whose event header is the usual id plus compact / extended variant *)
(* v; event classes with a plain payload, an empty payload, and a payload *)
(* with a variant whose options are an empty structure and an integer;    *)
(* a stream class sc1 with only packet_size, and an event class of it     *)
(* with an empty payload.  The candidates for a meaning are the fields a *)
(* CTF trace names so.                                                    *)
EXTENDS UpdateInIr

F(kind, children) == [kind |-> kind, children |-> children]

MCFT ==
    \* trace packet header
    (1 :> F("struct", <<2, 3>>)) @@ (2 :> F("int", <<>>)) @@
    (3 :> F("array", <<4>>)) @@ (4 :> F("int", <<>>)) @@
    \* sc0 packet context
    (7 :> F("struct", <<9, 10, 11>>)) @@
    (9 :> F("int", <<>>)) @@ (10 :> F("int", <<>>)) @@ (11 :> F("int", <<>>)) @@
    \* sc0 event header: enum id, variant v { compact, extended }
    (12 :> F("struct", <<13, 14>>)) @@ (13 :> F("enum", <<>>)) @@
    (14 :> F("variant", <<15, 17>>)) @@
    (15 :> F("struct", <<16>>)) @@ (16 :> F("int", <<>>)) @@
    (17 :> F("struct", <<18, 19>>)) @@ (18 :> F("int", <<>>)) @@
    (19 :> F("int", <<>>)) @@
    \* ec0, ec1, ec2 payloads
    (20 :> F("struct", <<21, 22>>)) @@ (21 :> F("int", <<>>)) @@
    (22 :> F("string", <<>>)) @@
    (23 :> F("struct", <<>>)) @@
    (24 :> F("struct", <<25, 26>>)) @@ (25 :> F("enum", <<>>)) @@
    (26 :> F("variant", <<27, 28>>)) @@ (27 :> F("struct", <<>>)) @@
    (28 :> F("int", <<>>)) @@
    \* sc1 packet context, ec3 payload
    (29 :> F("struct", <<30>>)) @@ (30 :> F("int", <<>>)) @@
    (31 :> F("struct", <<>>))

MCMeaningNodes == {2, 3, 9, 10, 13, 18, 30}

MCSC == [sc0 |-> [ctx |-> 7, hdr |-> 12, common |-> 0],
         sc1 |-> [ctx |-> 29, hdr |-> 0, common |-> 0]]

MCEC == [ec0 |-> [sc |-> "sc0", spec |-> 0, payload |-> 20],
         ec1 |-> [sc |-> "sc0", spec |-> 0, payload |-> 23],
         ec2 |-> [sc |-> "sc0", spec |-> 0, payload |-> 24],
         ec3 |-> [sc |-> "sc1", spec |-> 0, payload |-> 31]]
====
