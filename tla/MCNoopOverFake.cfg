CONSTANTS
    EventCounts = {1, 2, 3, 4}
    PacketEvents = 2
    Capacities = {1, 2, 3}
SPECIFICATION FairSpec
PROPERTIES FilterImplementsNotificationStream FilterEventuallyEnds
