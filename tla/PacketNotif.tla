---------------------------- MODULE PacketNotif ----------------------------
(* Packet beginning and packet end notifications (lib/graph/notification/ *)
(* packet.c) and the graph's two pools of them (graph-internal.h).  A     *)
(* notification object is unused (never allocated), live (handed out),    *)
(* pooled (reset, in its graph's pool) or destroyed (freed).  Each holds a *)
(* reference on its packet and a weak pointer to the graph that owns its  *)
(* pool.  Packets are numbered; refs is their reference count, of which   *)
(* this module changes the part the notifications hold.                   *)
(* bt_notification_create_from_pool, the object pool and the graph's      *)
(* destruction are in files of the library that are not in src/; they are *)
(* modelled from spec 4.1 ("acquiring either returns a pooled instance or  *)
(* constructs a new one; releasing either returns to the pool or frees,    *)
(* depending on whether the owning graph still exists").                  *)
EXTENDS Integers, FiniteSets

CONSTANTS
    Objs,     \* notification objects each pool may ever allocate
    Packets   \* packet numbers; 0 is NULL

Kinds == {"packet_begin", "packet_end"}
ObjIds == Kinds \X Objs

VARIABLES
    objState,   \* ObjIds -> "unused", "live", "pooled" or "destroyed"
    objPacket,  \* ObjIds -> the packet the notification holds, 0 if NULL
    objGraph,   \* ObjIds -> notif->graph is set
    refs,       \* Packets -> reference count
    graphAlive  \* the graph owning the pools exists

notifVars == <<objState, objPacket, objGraph, refs, graphAlive>>

(* bt_get and BT_PUT on a packet pointer, applied to a count function r;  *)
(* NULL is ignored.                                                        *)
Get(r, p) == IF p = 0 THEN r ELSE [r EXCEPT ![p] = @ + 1]
Put(r, p) == IF p = 0 THEN r ELSE [r EXCEPT ![p] = @ - 1]

Init ==
    /\ objState = [o \in ObjIds |-> "unused"]
    /\ objPacket = [o \in ObjIds |-> 0]
    /\ objGraph = [o \in ObjIds |-> FALSE]
    /\ refs = [p \in Packets |-> 0]
    /\ graphAlive = TRUE

(* bt_notification_create_from_pool: a pooled object if there is one,    *)
(* else a new one (bt_notification_packet_*_new, which links it to the   *)
(* graph with bt_notification_init); either way notif->graph is the       *)
(* graph.                                                                  *)
create_from_pool(o) ==
    /\ graphAlive
    /\ \/ objState[o] = "pooled"
       \/ /\ objState[o] = "unused"
          /\ \A q \in ObjIds : q[1] = o[1] => objState[q] # "pooled"

(* Mutant: the notification stores the packet without taking a reference. *)
bt_notification_packet_create_no_get(o, p, r) ==
    /\ create_from_pool(o)
    /\ objState' = [objState EXCEPT ![o] = "live"]
    /\ objGraph' = [objGraph EXCEPT ![o] = TRUE]
    /\ objPacket' = [objPacket EXCEPT ![o] = p]
    /\ refs' = r
    /\ UNCHANGED graphAlive

(* bt_notification_packet_begin_create and bt_notification_packet_end_   *)
(* create on packet p, o being the object the pool hands out and r the   *)
(* packets' counts before the call: notification->packet = bt_get(packet). *)
bt_notification_packet_create(o, p, r) ==
    /\ create_from_pool(o)
    /\ objState' = [objState EXCEPT ![o] = "live"]
    /\ objGraph' = [objGraph EXCEPT ![o] = TRUE]
    /\ objPacket' = [objPacket EXCEPT ![o] = p]
    /\ refs' = Get(r, p)
    /\ UNCHANGED graphAlive

(* bt_notification_packet_*_destroy: BT_PUT(packet), g_free.             *)
Destroy(o) ==
    /\ objState' = [objState EXCEPT ![o] = "destroyed"]
    /\ objPacket' = [objPacket EXCEPT ![o] = 0]
    /\ refs' = Put(refs, objPacket[o])
    /\ UNCHANGED objGraph

(* Mutant: the notification goes back to the pool whether or not its      *)
(* graph still exists.                                                    *)
recycle_no_graph_check(o) ==
    /\ objState[o] = "live"
    /\ objState' = [objState EXCEPT ![o] = "pooled"]
    /\ objPacket' = [objPacket EXCEPT ![o] = 0]
    /\ objGraph' = [objGraph EXCEPT ![o] = FALSE]
    /\ refs' = Put(refs, objPacket[o])
    /\ UNCHANGED graphAlive

(* bt_notification_packet_*_recycle, the release function run when the  *)
(* last reference goes: without a graph the notification is destroyed;   *)
(* otherwise it is reset, its packet put, notif->graph cleared and the    *)
(* object recycled into the graph's pool.                                 *)
recycle(o) ==
    /\ objState[o] = "live"
    /\ IF ~objGraph[o]
       THEN Destroy(o) /\ UNCHANGED graphAlive
       ELSE /\ objState' = [objState EXCEPT ![o] = "pooled"]
            /\ objPacket' = [objPacket EXCEPT ![o] = 0]
            /\ objGraph' = [objGraph EXCEPT ![o] = FALSE]
            /\ refs' = Put(refs, objPacket[o])
            /\ UNCHANGED graphAlive

(* The graph's destruction: every notification ever created from it      *)
(* (graph->notifications) loses its graph pointer, then the pools are     *)
(* finalized, destroying the pooled objects.                              *)
graph_destroy ==
    /\ graphAlive
    /\ graphAlive' = FALSE
    /\ objGraph' = [o \in ObjIds |-> FALSE]
    /\ objState' = [o \in ObjIds |-> IF objState[o] = "pooled" THEN "destroyed"
                                     ELSE objState[o]]
    /\ UNCHANGED <<objPacket, refs>>

(* The notifications that hold a reference on packet p. *)
NotifHolders(p) ==
    Cardinality({o \in ObjIds : objState[o] \in {"live", "pooled"}
                                /\ objPacket[o] = p})

TypeOK ==
    /\ objState \in [ObjIds -> {"unused", "live", "pooled", "destroyed"}]
    /\ objPacket \in [ObjIds -> Packets \cup {0}]
    /\ objGraph \in [ObjIds -> BOOLEAN]
    /\ refs \in [Packets -> Int]
    /\ graphAlive \in BOOLEAN
====
