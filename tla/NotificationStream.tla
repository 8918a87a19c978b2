------------------------- MODULE NotificationStream -------------------------
(* What a notification iterator promises its caller (spec 5 and 8.3):    *)
(* every call delivers more notifications that extend a prefix of         *)
(* (stream-begin (packet-begin event* packet-end)* stream-end)+, where    *)
(* events and packet ends belong to the packet that is open and every     *)
(* packet is a new one; the iterator reports the end only once every      *)
(* stream it began has ended, and may stop with an error at any time.     *)
(* Both the CTF notification iterator (NotifIter) and the fake source     *)
(* (FakeSource) are shown to implement this specification.               *)
EXTENDS Integers, Sequences, SequencesExt

VARIABLES delivered, outcome

vars == <<delivered, outcome>>

Kinds == {"stream_begin", "packet_begin", "event", "packet_end", "stream_end"}

Successors ==
    {<<"stream_begin", "packet_begin">>, <<"stream_begin", "stream_end">>,
     <<"packet_begin", "event">>, <<"packet_begin", "packet_end">>,
     <<"event", "event">>, <<"event", "packet_end">>,
     <<"packet_end", "packet_begin">>, <<"packet_end", "stream_end">>,
     <<"stream_end", "stream_begin">>}

(* s is a prefix of a well-formed notification stream. *)
GrammaticalPrefix(s) ==
    /\ s # <<>> => s[1].kind = "stream_begin"
    /\ \A i \in 1 .. Len(s) - 1 :
          /\ <<s[i].kind, s[i + 1].kind>> \in Successors
          /\ s[i + 1].kind \in {"event", "packet_end"}
                => s[i + 1].packet = s[i].packet
    /\ \A i, j \in 1 .. Len(s) :
          i # j /\ s[i].kind = "packet_begin" /\ s[j].kind = "packet_begin"
              => s[i].packet # s[j].packet

Complete(s) == s = <<>> \/ Last(s).kind = "stream_end"

Init == delivered = <<>> /\ outcome = "running"

(* A call returns one or more further notifications. *)
Deliver ==
    /\ outcome = "running"
    /\ IsStrictPrefix(delivered, delivered')
    /\ GrammaticalPrefix(delivered')
    /\ UNCHANGED outcome

(* A call returns the end of the iteration. *)
Finish ==
    /\ outcome = "running" /\ Complete(delivered)
    /\ outcome' = "end" /\ UNCHANGED delivered

(* A call returns an error; nothing follows it. *)
Fail ==
    /\ outcome = "running"
    /\ outcome' = "error" /\ UNCHANGED delivered

Next == Deliver \/ Finish \/ Fail

Spec == Init /\ [][Next]_vars
====
