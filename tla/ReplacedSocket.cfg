CONSTANTS
    alice = alice
    a1 = a1
    a2 = a2
    w1 = w1
    w2 = w2
    Users = {alice}
    Sockets = {a1, a2}
    Workers = {w1, w2}
    UserOf <- MCUserOf
    WorkerOf <- MCWorkerOf
    NoSocket = NoSocket
    MaxFaults = 0
    visitor = visitor
    guest = guest
    family = family
    Visitors = {visitor}
    ConvRooms = {c}
    TaskRooms = {t}
    GroupRooms = {family}
    FamilyRoom <- MCFamilyRoom
    MaxRemovals = 0
SPECIFICATION MCSpec
INVARIANT ReplacedSocketDisconnected
