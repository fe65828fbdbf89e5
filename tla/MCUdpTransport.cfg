\* One worker that receives; four datagrams, two of which fit the socket
\* and one of which is empty.
CONSTANTS
    SocketBuffer = 2
    MaxDatagrams = 4
    EmptyDatagrams = {3}
SPECIFICATION FairSpec
INVARIANTS
    TypeOK
    NothingOutlivesRecv
    Phases
PROPERTIES
    KeepsContract
    TimeoutEndsRecv
    StopEndsWorker
\* The worker's thread ends.
CHECK_DEADLOCK FALSE
