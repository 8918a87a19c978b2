----------------------------- MODULE FakeGraph -----------------------------
(* A utils.fake source in a graph: its iterator creates its packet        *)
(* beginning and end notifications from the graph's pools (module         *)
(* PacketNotif) on the packets switch_packet makes, the downstream sink    *)
(* puts each notification once it has received it, and the iterator and  *)
(* the graph are destroyed while the sink may still hold some.  refs      *)
(* counts the references on each packet held by the iterator's packet and *)
(* prev_packet and by the packet notifications; the references events     *)
(* hold through the event notifications are not modelled.                 *)
EXTENDS Integers, FiniteSets

CONSTANTS EventCounts, PacketEvents, Capacities, Objs, Packets

VARIABLES
    state, at, eventCount, packet, prevPacket, prevAvail, nextPacket,
    inCall, i, capacity, batch, out, status,
    objState, objPacket, objGraph, refs, graphAlive,
    batchObjs,  \* packet notifications created in the running call
    sinkHeld,   \* packet notifications the sink has received and not put
    iterAlive   \* the fake_notif_iter has not been destroyed

Src == INSTANCE FakeSource
Pool == INSTANCE PacketNotif

srcVars == <<state, at, eventCount, packet, prevPacket, prevAvail, nextPacket,
             inCall, i, capacity, batch, out, status>>
notifVars == <<objState, objPacket, objGraph, refs, graphAlive>>
vars == <<srcVars, notifVars, batchObjs, sinkHeld, iterAlive>>

Init == Src!Init /\ Pool!Init /\ batchObjs = {} /\ sinkHeld = {} /\ iterAlive = TRUE

(* fake_notif_iter_next on a live iterator. *)
Call == iterAlive /\ Src!fake_notif_iter_next
        /\ UNCHANGED <<notifVars, batchObjs, sinkHeld, iterAlive>>

(* do_next for the stream beginning, an event and the stream end: no      *)
(* packet notification.                                                    *)
EmitOther == (Src!EmitStreamBeginning \/ Src!EmitEvent \/ Src!EmitStreamEnd)
             /\ UNCHANGED <<notifVars, batchObjs, sinkHeld, iterAlive>>

(* do_next in STATE_EMIT_PACKET_BEGINNING: switch_packet's BT_MOVE puts    *)
(* the old prev_packet, bt_packet_create returns the new packet with one  *)
(* reference, then bt_notification_packet_begin_create takes another.     *)
EmitPacketBeginning ==
    /\ Src!EmitPacketBeginning
    /\ \E o \in {"packet_begin"} \X Objs :
         /\ Pool!bt_notification_packet_create(o, packet',
                [Pool!Put(refs, prevPacket) EXCEPT ![packet'] = 1])
         /\ batchObjs' = batchObjs \cup {o}
    /\ UNCHANGED <<sinkHeld, iterAlive>>

(* do_next in STATE_EMIT_PACKET_END: bt_notification_packet_end_create on *)
(* the current packet.                                                     *)
EmitPacketEnd ==
    /\ Src!EmitPacketEnd
    /\ \E o \in {"packet_end"} \X Objs :
         /\ Pool!bt_notification_packet_create(o, packet, refs)
         /\ batchObjs' = batchObjs \cup {o}
    /\ UNCHANGED <<sinkHeld, iterAlive>>

(* The call returns its batch, and the sink receives it. *)
ReturnBatch ==
    /\ Src!ReturnBatch
    /\ sinkHeld' = sinkHeld \cup batchObjs /\ batchObjs' = {}
    /\ UNCHANGED <<notifVars, iterAlive>>

(* The sink puts a packet notification it holds: the last reference goes *)
(* and the notification's release function runs.                          *)
SinkPut ==
    \E o \in sinkHeld :
        /\ Pool!recycle(o)
        /\ sinkHeld' = sinkHeld \ {o}
        /\ UNCHANGED <<srcVars, batchObjs, iterAlive>>

(* fake_notif_iter_finalize, between calls (the graph finalizes an       *)
(* iterator when it is destroyed or its connection ends, at any time):    *)
(* destroy_fake_notif_iter puts fake_notif_iter->packet and frees the     *)
(* iterator.                                                               *)
destroy_fake_notif_iter ==
    /\ iterAlive /\ ~inCall
    /\ iterAlive' = FALSE
    /\ refs' = Pool!Put(refs, packet)
    /\ UNCHANGED <<srcVars, objState, objPacket, objGraph, graphAlive,
                   batchObjs, sinkHeld>>

(* The graph is destroyed once its components (the iterator) are gone;    *)
(* the sink's user may keep notifications past it.                        *)
GraphDestroy ==
    /\ ~iterAlive
    /\ Pool!graph_destroy
    /\ UNCHANGED <<srcVars, batchObjs, sinkHeld, iterAlive>>

Done == ~graphAlive /\ sinkHeld = {} /\ UNCHANGED vars

Next == \/ Call \/ EmitOther \/ EmitPacketBeginning \/ EmitPacketEnd
        \/ ReturnBatch \/ SinkPut \/ destroy_fake_notif_iter \/ GraphDestroy
        \/ Done

Spec == Init /\ [][Next]_vars

-----------------------------------------------------------------------------
(* Properties *)

(* The references on packet p that something still uses: the iterator's *)
(* packet and prev_packet while it exists, and the notifications.         *)
Holders(p) ==
    (IF iterAlive /\ packet = p THEN 1 ELSE 0)
    + (IF iterAlive /\ prevPacket = p THEN 1 ELSE 0)
    + Pool!NotifHolders(p)

(* The fake source's properties hold in the graph as well. *)
ImplementsNotificationStream == Src!ImplementsNotificationStream
PacketsCutAtPacketEvents == Src!PacketsCutAtPacketEvents
PreviousPacketChain == Src!PreviousPacketChain

(* No packet is freed while something uses it: switch_packet's BT_MOVE,   *)
(* the bt_get of the notification constructors and the BT_PUT of their   *)
(* recycle and destroy functions never leave fewer references than users. *)
PacketNeverFreedEarly == \A p \in Packets : refs[p] >= Holders(p)

(* A notification never outlives its pool: once the graph is destroyed no *)
(* object is pooled (recycle destroys instead of recycling into the freed *)
(* pool), and every notification the sink still holds is live.            *)
NoRecycleAfterGraph ==
    /\ ~graphAlive => \A o \in Pool!ObjIds : objState[o] # "pooled"
    /\ \A o \in sinkHeld \cup batchObjs : objState[o] = "live"

(* No packet reference is leaked: every reference on a packet belongs to *)
(* something that still uses it, so that once the iterator and every    *)
(* notification are gone the packets are freed.                          *)
PacketRefsBalanced == \A p \in Packets : refs[p] = Holders(p)
====
