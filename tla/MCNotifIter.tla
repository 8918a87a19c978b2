---------------------------- MODULE MCNotifIter ----------------------------
(* Instantiation of NotifIter for TLC: the event classes' context and     *)
(* payload sizes, which a .cfg cannot write as functions.                 *)
EXTENDS NotifIter

MCEcBits == [e \in EventClassIds |-> IF e = 1 THEN 8 ELSE 0]
MCPayloadBits == [e \in EventClassIds |-> 8]
====
