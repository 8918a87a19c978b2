--------------------------- MODULE NoopOverFake ---------------------------
(* A utils.noop filter whose input port is connected to a utils.fake     *)
(* source: each noop_notif_iter_next call calls next on g_iter, which    *)
(* runs fake_notif_iter_next's batching loop, and copies what it gets.    *)
(* The variables of FakeSource are the upstream iterator; filterOut and  *)
(* filterStatus are what the filter's own caller has received.            *)
EXTENDS Integers, Sequences, SequencesExt

CONSTANTS EventCounts, PacketEvents, Capacities

VARIABLES
    state, at, eventCount, packet, prevPacket, prevAvail, nextPacket,
    inCall, i, capacity, batch, out, status,
    filterOut, filterStatus,
    g_iter,        \* the file-scope iterator: "null" until the input port connects
    portsConnected \* the filter's ports the graph has connected

Src == INSTANCE FakeSource

srcVars == <<state, at, eventCount, packet, prevPacket, prevAvail, nextPacket,
             inCall, i, capacity, batch, out, status>>
vars == <<srcVars, filterOut, filterStatus, g_iter, portsConnected>>

Init == /\ Src!Init /\ filterOut = <<>> /\ filterStatus = "none"
        /\ g_iter = "null" /\ portsConnected = {}

(* noop_port_connected: on the output port it returns OK at once; on the *)
(* input port it creates a notification iterator on the port's           *)
(* connection and stores it in g_iter.  The graph connects each port     *)
(* once, before it runs the sink that calls the filter's iterator.        *)
noop_port_connected(port) ==
    /\ port \notin portsConnected
    /\ portsConnected' = portsConnected \cup {port}
    /\ g_iter' = IF port = "out" THEN g_iter ELSE "upstream"
    /\ UNCHANGED <<srcVars, filterOut, filterStatus>>

(* noop_notif_iter_next up to the call of next on g_iter: the upstream's *)
(* END, returned at once from DONE, is the filter's status.               *)
noop_notif_iter_next_call ==
    /\ g_iter # "null" /\ portsConnected = {"in", "out"}
    /\ Src!fake_notif_iter_next
    /\ filterStatus' = IF status' = "end" THEN "end" ELSE filterStatus
    /\ UNCHANGED <<filterOut, g_iter, portsConnected>>

(* Mutant: the count passed on is one short of in_count. *)
noop_notif_iter_next_return_short ==
    /\ Src!ReturnBatch
    /\ filterOut' = filterOut \o SubSeq(batch, 1, Len(batch) - 1)
    /\ filterStatus' = "ok"
    /\ UNCHANGED <<g_iter, portsConnected>>

(* The upstream call returns OK with in_count = Len(batch) notifications; *)
(* memcpy copies them to out_notifs and *out_count = in_count.            *)
noop_notif_iter_next_return ==
    /\ Src!ReturnBatch
    /\ filterOut' = filterOut \o batch
    /\ filterStatus' = "ok"
    /\ UNCHANGED <<g_iter, portsConnected>>

UpstreamStep == Src!do_next /\ UNCHANGED <<filterOut, filterStatus, g_iter, portsConnected>>

Stopped == filterStatus = "end" /\ UNCHANGED vars

Next == \/ \E port \in {"in", "out"} : noop_port_connected(port)
        \/ noop_notif_iter_next_call \/ UpstreamStep
        \/ noop_notif_iter_next_return \/ Stopped

Spec == Init /\ [][Next]_vars

(* The graph connects the ports, then keeps running the sink, which calls *)
(* the filter's next, until it gets END (spec 4.5); the upstream's batching *)
(* loop and the return are sequential code that no one waits on.           *)
FairSpec == /\ Spec
            /\ \A port \in {"in", "out"} : WF_vars(noop_port_connected(port))
            /\ WF_vars(noop_notif_iter_next_call)
            /\ WF_vars(UpstreamStep)
            /\ WF_vars(noop_notif_iter_next_return)

-----------------------------------------------------------------------------
(* Properties *)

FilterStream == INSTANCE NotificationStream
                    WITH delivered <- Src!AbstractNotifs(filterOut),
                         outcome <- IF filterStatus = "end" THEN "end"
                                    ELSE "running"

(* The noop filter's downstream sees a well-formed notification stream:   *)
(* noop_notif_iter_next implements the iterator contract whenever its     *)
(* upstream does, forwarding every batch whole and END only after the     *)
(* stream end.                                                            *)
FilterImplementsNotificationStream == FilterStream!Spec

(* The filter's downstream eventually gets END: the fake source ends after *)
(* event_count events, and noop_notif_iter_next passes the upstream's      *)
(* status on, whatever batch sizes the downstream asks for.               *)
FilterEventuallyEnds == <>(filterStatus = "end")
====
