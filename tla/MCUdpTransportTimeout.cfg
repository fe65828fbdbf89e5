\* What recv(stop_token) throws when its time is up.
CONSTANTS
    SocketBuffer = 1
    MaxDatagrams = 1
    EmptyDatagrams = {}
SPECIFICATION Spec
INVARIANTS
    TimeoutsAreTransportTimeouts
CHECK_DEADLOCK FALSE
