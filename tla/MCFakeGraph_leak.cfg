\* Two or more packets; the iterator is destroyed while it holds prev_packet.
CONSTANTS
    EventCounts = {1, 2, 3, 4, 5}
    PacketEvents = 2
    Capacities = {1, 2, 3}
    Objs = {1, 2}
    Packets = {1, 2, 3}
SPECIFICATION Spec
INVARIANT PacketRefsBalanced
