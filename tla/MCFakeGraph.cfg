\* 1 to 5 events in packets of 2, capacities 1 to 3, two objects per pool.
CONSTANTS
    EventCounts = {1, 2, 3, 4, 5}
    PacketEvents = 2
    Capacities = {1, 2, 3}
    Objs = {1, 2}
    Packets = {1, 2, 3}
SPECIFICATION Spec
INVARIANTS
    PacketsCutAtPacketEvents
    PreviousPacketChain
    PacketNeverFreedEarly
    NoRecycleAfterGraph
PROPERTIES
    ImplementsNotificationStream
