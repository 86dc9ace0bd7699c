CONSTANTS
    Servers = {s1}
    alice = alice
    bob = bob
    Clients <- MCClients
    Port <- MCPort
    Nobody = Nobody
    Commands = {"kill"}
    REQUEST_LEN = 3
    REPLY_LEN = 3
    MAX_SEGMENT = 2
    RECV_BUF_SIZE = 2
    RECV_MAX = 1
SPECIFICATION FairSpec
INVARIANTS
    TypeOK
    ReceivedIsPrefix
    PhaseMatchesState
    EstablishedByBoth
    ReplyIsOneStream
PROPERTIES
    ListensAgain
    DataIsAnswered
