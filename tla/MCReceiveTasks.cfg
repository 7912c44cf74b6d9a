SPECIFICATION FairSpec
CONSTANTS
    eth0 = eth0  eth1 = eth1
    None = None
    Device = {eth0, eth1}
    Configurations <- SomeConfigurations
    MaxInterfaces = 2
    SocketBuffer = 2
    QueueSize = 1
    MaxDatagrams = 2
INVARIANTS
    InOrderAtMostOnce
    HearsTheNeighbours
PROPERTIES
    EveryPacketHandled
    DeafDaemonExits
