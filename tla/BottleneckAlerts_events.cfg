SPECIFICATION Spec
CONSTANTS
    b1 = b1
    b2 = b2
    b3 = b3
    k1 = k1
    k2 = k2
    Bottleneck = {b1, b2, b3}
    Key = {k1, k2}
    KeyOf <- Steps
    Handler = {h1, h2}
    Client = {c1, c2}
    Stream = {s1, s2}
    Window = 1
    MaxNow = 3
    NoKey = NoKey
    NoBottleneck = NoBottleneck
    NoStream = NoStream
SYMMETRY Symmetry
INVARIANTS
    AlertInv
    AlertsAreSpaced
    MailedAreMarked
    AlertsReachClients
