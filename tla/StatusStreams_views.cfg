SPECIFICATION FairSpec
CONSTANTS
    Run = {r1}
    Handler = {h1, h2}
    Client = {c1, c2}
    Stream = {s1, s2}
    NoRun = NoRun
    NoStream = NoStream
INVARIANTS
    StreamsInv
    ViewsSettle
    ClientsArePinged
PROPERTIES
    EndsAreTold
