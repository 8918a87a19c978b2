---------------------------- MODULE FakeSource ----------------------------
(* The notification iterator of the utils.fake source (plugins/utils/     *)
(* fake.c): one stream of event_count events cut into packets of          *)
(* PacketEvents events, delivered in batches of at most the capacity the  *)
(* caller passes to fake_notif_iter_next.  One step is one do_next call  *)
(* of the batching loop; the caller sees the batch when the call returns. *)
EXTENDS Integers, Sequences, SequencesExt

CONSTANTS
    EventCounts,   \* event_count values handle_params can set ("count" > 0)
    PacketEvents,  \* the literal 5000 of do_next
    Capacities     \* capacities the caller may pass

ASSUME EventCounts \subseteq Nat \ {0}
ASSUME PacketEvents \in Nat \ {0}
ASSUME Capacities \subseteq Nat \ {0}

States == {"STATE_EMIT_STREAM_BEGINNING", "STATE_EMIT_PACKET_BEGINNING",
           "STATE_EMIT_EVENT", "STATE_EMIT_PACKET_END",
           "STATE_EMIT_STREAM_END", "STATE_DONE"}

VARIABLES
    state, at, eventCount,              \* struct fake_notif_iter
    packet, prevPacket, prevAvail,      \* packets by number, 0 is NULL
    nextPacket,                         \* number of the next bt_packet_create
    inCall, i, capacity, batch,         \* fake_notif_iter_next's frame
    out, status                         \* what the caller has received

iterVars == <<state, at, eventCount, packet, prevPacket, prevAvail, nextPacket>>
vars == <<iterVars, inCall, i, capacity, batch, out, status>>

Notif(kind, p, prev, avail) ==
    [kind |-> kind, packet |-> p, prev |-> prev, avail |-> avail]

(* handle_params and fake_notif_iter_init *)
Init ==
    /\ state = "STATE_EMIT_STREAM_BEGINNING" /\ at = 0
    /\ eventCount \in EventCounts
    /\ packet = 0 /\ prevPacket = 0 /\ prevAvail = "NONE" /\ nextPacket = 1
    /\ inCall = FALSE /\ i = 0 /\ capacity = 0 /\ batch = <<>>
    /\ out = <<>> /\ status = "none"

(* One iteration of the loop of fake_notif_iter_next: do_next appends the *)
(* notification to notifs[i], then i++.                                   *)
Emit(n) ==
    /\ batch' = Append(batch, n) /\ i' = i + 1
    /\ UNCHANGED <<inCall, capacity, out, status>>

LoopGuard == inCall /\ i < capacity /\ state # "STATE_DONE"

EmitStreamBeginning ==
    /\ LoopGuard /\ state = "STATE_EMIT_STREAM_BEGINNING"
    /\ Emit(Notif("stream_begin", 0, 0, ""))
    /\ state' = "STATE_EMIT_PACKET_BEGINNING"
    /\ UNCHANGED <<at, eventCount, packet, prevPacket, prevAvail, nextPacket>>

(* Mutant: the availability set without testing for a previous packet. *)
switch_packet_always_available ==
    /\ prevPacket' = packet
    /\ prevAvail' = "AVAILABLE"
    /\ packet' = nextPacket /\ nextPacket' = nextPacket + 1

(* switch_packet: BT_MOVE(prev_packet, packet); the availability becomes *)
(* AVAILABLE only once there is a previous packet; then bt_packet_create. *)
switch_packet ==
    /\ prevPacket' = packet
    /\ prevAvail' = IF packet # 0 THEN "AVAILABLE" ELSE prevAvail
    /\ packet' = nextPacket /\ nextPacket' = nextPacket + 1

EmitPacketBeginning ==
    /\ LoopGuard /\ state = "STATE_EMIT_PACKET_BEGINNING"
    /\ switch_packet
    /\ Emit(Notif("packet_begin", packet', prevPacket', prevAvail'))
    /\ state' = "STATE_EMIT_EVENT"
    /\ UNCHANGED <<at, eventCount>>

(* Mutant: the packet boundary tested before at++. *)
EmitEvent_test_before_increment ==
    /\ LoopGuard /\ state = "STATE_EMIT_EVENT"
    /\ Emit(Notif("event", packet, 0, ""))
    /\ at' = at + 1
    /\ state' = IF at % PacketEvents = 0 \/ at + 1 = eventCount
                THEN "STATE_EMIT_PACKET_END" ELSE state
    /\ UNCHANGED <<eventCount, packet, prevPacket, prevAvail, nextPacket>>

(* at++, then a packet ends every PacketEvents events and after the last. *)
EmitEvent ==
    /\ LoopGuard /\ state = "STATE_EMIT_EVENT"
    /\ Emit(Notif("event", packet, 0, ""))
    /\ at' = at + 1
    /\ state' = IF (at + 1) % PacketEvents = 0 \/ at + 1 = eventCount
                THEN "STATE_EMIT_PACKET_END" ELSE state
    /\ UNCHANGED <<eventCount, packet, prevPacket, prevAvail, nextPacket>>

PacketEndNext ==
    IF at = eventCount THEN "STATE_EMIT_STREAM_END"
    ELSE "STATE_EMIT_PACKET_BEGINNING"

EmitPacketEnd ==
    /\ LoopGuard /\ state = "STATE_EMIT_PACKET_END"
    /\ Emit(Notif("packet_end", packet, 0, ""))
    /\ state' = PacketEndNext
    /\ UNCHANGED <<at, eventCount, packet, prevPacket, prevAvail, nextPacket>>

EmitStreamEnd ==
    /\ LoopGuard /\ state = "STATE_EMIT_STREAM_END"
    /\ Emit(Notif("stream_end", 0, 0, ""))
    /\ state' = "STATE_DONE"
    /\ UNCHANGED <<at, eventCount, packet, prevPacket, prevAvail, nextPacket>>

do_next == EmitStreamBeginning \/ EmitPacketBeginning \/ EmitEvent
           \/ EmitPacketEnd \/ EmitStreamEnd

(* Mutant: END returned from the stream-end state, one state early. *)
fake_notif_iter_next_end_early ==
    /\ ~inCall /\ status # "end"
    /\ IF state \in {"STATE_EMIT_STREAM_END", "STATE_DONE"}
       THEN status' = "end" /\ UNCHANGED <<inCall, i, capacity>>
       ELSE /\ inCall' = TRUE /\ i' = 0
            /\ \E c \in Capacities : capacity' = c
            /\ UNCHANGED status
    /\ UNCHANGED <<iterVars, batch, out>>

(* Mutant: no early return at DONE; the loop then runs no step and the  *)
(* call returns OK with nothing.                                          *)
fake_notif_iter_next_no_done_check ==
    /\ ~inCall /\ status # "end"
    /\ inCall' = TRUE /\ i' = 0
    /\ \E c \in Capacities : capacity' = c
    /\ UNCHANGED <<status, iterVars, batch, out>>

(* fake_notif_iter_next: END once DONE, otherwise the batching loop.     *)
fake_notif_iter_next ==
    /\ ~inCall /\ status # "end"
    /\ IF state = "STATE_DONE"
       THEN status' = "end" /\ UNCHANGED <<inCall, i, capacity>>
       ELSE /\ inCall' = TRUE /\ i' = 0
            /\ \E c \in Capacities : capacity' = c
            /\ UNCHANGED status
    /\ UNCHANGED <<iterVars, batch, out>>

(* The loop stops at the capacity or at DONE; BT_ASSERT(i > 0) holds    *)
(* because the call starts before DONE and the capacity is positive; the *)
(* caller receives the count notifications.                               *)
ReturnBatch ==
    /\ inCall /\ (i = capacity \/ state = "STATE_DONE")
    /\ out' = out \o batch /\ batch' = <<>>
    /\ inCall' = FALSE /\ status' = "ok"
    /\ UNCHANGED <<iterVars, i, capacity>>

(* A finished iterator is not called again. *)
Stopped == status = "end" /\ UNCHANGED vars

Next == fake_notif_iter_next \/ do_next \/ ReturnBatch \/ Stopped

Spec == Init /\ [][Next]_vars

-----------------------------------------------------------------------------
(* Properties *)

(* The caller's view: kinds and packets of the notifications received,  *)
(* and END once it has been returned.                                     *)
AbstractNotifs(s) ==
    [k \in 1 .. Len(s) |-> [kind |-> s[k].kind, packet |-> s[k].packet]]

Stream == INSTANCE NotificationStream
              WITH delivered <- AbstractNotifs(out),
                   outcome <- IF status = "end" THEN "end" ELSE "running"

(* fake_notif_iter_next implements the notification iterator contract:  *)
(* every batch extends a well-formed stream, and END comes only after    *)
(* the stream end has been delivered.                                    *)
ImplementsNotificationStream == Stream!Spec

EventPositions == {k \in 1 .. Len(out) : out[k].kind = "event"}

Packets == {out[k].packet : k \in {k \in 1 .. Len(out) :
                                      out[k].kind = "packet_begin"}}

EventsIn(p) == Cardinality({k \in EventPositions : out[k].packet = p})

(* When the iterator has ended, the caller has received exactly the     *)
(* event_count events, in packets of PacketEvents events but the last,   *)
(* which holds the rest (do_next's at % 5000 and at == event_count       *)
(* tests and the packet-end transition).                                  *)
PacketsCutAtPacketEvents ==
    status = "end" =>
        /\ Cardinality(EventPositions) = eventCount
        /\ \A p \in Packets :
              EventsIn(p) = IF p = Max(Packets)
                            THEN ((eventCount - 1) % PacketEvents) + 1
                            ELSE PacketEvents

(* Each packet is created with the packet that ended before it as its    *)
(* previous packet, available, and the first one with none               *)
(* (switch_packet).                                                       *)
PreviousPacketChain ==
    \A k \in 2 .. Len(out) :
        out[k].kind = "packet_begin" =>
            IF out[k - 1].kind = "packet_end"
            THEN out[k].prev = out[k - 1].packet /\ out[k].avail = "AVAILABLE"
            ELSE out[k].prev = 0 /\ out[k].avail = "NONE"
====
