SPECIFICATION FairSpec
CONSTANTS
    Sockets = {s1, s2}
    Ids = {i1, i2, i3}
    Extras = {ch, src}
    NeedsSizes = {src}
    None = None
    MaxPackets = 1
    MaxRefusals = 1
    MaxDrops = 1
    MaxUdpErrors = 1
    MaxBindFailures = 1
CHECK_DEADLOCK FALSE
INVARIANTS
    DecodesRight
PROPERTIES
    MetersComeBack
