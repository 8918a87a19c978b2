---------------------------- MODULE NoopFilter ----------------------------
(* Several utils.noop filter instances (plugins/utils/noop.c) in one      *)
(* graph.  When a filter's input port is connected it creates a           *)
(* notification iterator on the connection and keeps it in the           *)
(* file-scope variable g_iter; its own iterator's next method calls next  *)
(* on g_iter and copies the notifications it gets.  Each filter's input   *)
(* port is connected to one upstream source, whose notifications are      *)
(* numbered <<source, k>> in the order the source produces them.          *)
EXTENDS Integers, Sequences

CONSTANTS
    Filters,       \* noop filter instances
    Upstream,      \* filter -> the source its input port is connected to
    UpstreamBatch, \* most notifications one upstream next returns
    MaxNotifs,     \* notifications a source produces before its end
    MaxAgain,      \* AGAIN answers a source may give
    None           \* g_iter before any input port is connected (NULL)

Sources == {Upstream[f] : f \in Filters}

ASSUME None \notin Sources
ASSUME UpstreamBatch \in Nat \ {0} /\ MaxNotifs \in Nat /\ MaxAgain \in Nat

VARIABLES
    g_iter,     \* the iterator in g_iter: the source it reads, None if unset
    connected,  \* filters whose input port is connected
    produced,   \* source -> notifications it has returned so far
    againLeft,  \* source -> AGAIN answers it may still give
    delivered,  \* filter -> notifications its downstream has received
    ended       \* filters whose next returned END

vars == <<g_iter, connected, produced, againLeft, delivered, ended>>

Init ==
    /\ g_iter = None /\ connected = {}
    /\ produced = [s \in Sources |-> 0] /\ againLeft = [s \in Sources |-> MaxAgain]
    /\ delivered = [f \in Filters |-> <<>>] /\ ended = {}

(* noop_port_connected on a filter's input port: the new iterator on the *)
(* connection replaces whatever g_iter held.  (On the output port it     *)
(* returns OK and changes nothing.)                                       *)
noop_port_connected(f) ==
    /\ f \notin connected
    /\ connected' = connected \cup {f}
    /\ g_iter' = Upstream[f]
    /\ UNCHANGED <<produced, againLeft, delivered, ended>>

(* The notifications numbered after the n-th one a source has returned. *)
Batch(s, n) == [k \in 1 .. n |-> <<s, produced[s] + k>>]

(* noop_notif_iter_next of filter f: next on g_iter, whichever source it *)
(* reads, answers OK with 1 .. UpstreamBatch notifications (copied to f's *)
(* caller), AGAIN, or END once the source has produced them all; the      *)
(* status is returned as is.                                              *)
noop_notif_iter_next(f) ==
    LET s == g_iter IN
    /\ f \in connected /\ f \notin ended /\ s # None
    /\ \/ \E n \in 1 .. UpstreamBatch :
             /\ produced[s] + n <= MaxNotifs
             /\ produced' = [produced EXCEPT ![s] = produced[s] + n]
             /\ delivered' = [delivered EXCEPT ![f] = delivered[f] \o Batch(s, n)]
             /\ UNCHANGED <<againLeft, ended>>
       \/ /\ againLeft[s] > 0
          /\ againLeft' = [againLeft EXCEPT ![s] = againLeft[s] - 1]
          /\ UNCHANGED <<produced, delivered, ended>>
       \/ /\ produced[s] = MaxNotifs
          /\ ended' = ended \cup {f}
          /\ UNCHANGED <<produced, againLeft, delivered>>
    /\ UNCHANGED <<g_iter, connected>>

(* Every filter has ended. *)
Finished == ended = Filters /\ UNCHANGED vars

(* The graph connects every port before it runs the sinks, which call    *)
(* their upstream iterators in turn.                                     *)
Next ==
    \/ \E f \in Filters : noop_port_connected(f)
    \/ connected = Filters /\ \E f \in Filters : noop_notif_iter_next(f)
    \/ Finished

Spec == Init /\ [][Next]_vars

-----------------------------------------------------------------------------
(* Properties *)

(* Spec 4.5: an iterator created on an input port yields the             *)
(* notifications of its upstream source.  So noop_notif_iter_next of each *)
(* filter forwards only notifications of the source its own input port is *)
(* connected to, although g_iter holds the iterator of whichever filter's *)
(* input port was connected last.                                        *)
PassesOwnUpstream ==
    \A f \in Filters :
        \A k \in 1 .. Len(delivered[f]) : delivered[f][k][1] = Upstream[f]
====
