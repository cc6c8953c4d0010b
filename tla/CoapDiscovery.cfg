CONSTANTS
    d1 = d1
    d2 = d2
    a1 = a1
    a2 = a2
    a3 = a3
    b1 = b1
    lan = lan
    wlan = wlan
    Devices = {d1, d2}
    Links = {lan, wlan}
    Addresses = {a1, a2, a3, b1}
    LinkOf <- Networks
    Names = {lan, None}
    Home <- HomeOf
    Infos = {small, big, foreign}
    TooBig = {big}
    Unreadable = {foreign}
    IdLimit = 3
    FirstIds = {2}
    MaxDiscovers = 1
    MaxEvents = 2
    None = None
SPECIFICATION FairSpec
INVARIANTS
    NoSelf
PROPERTIES
    Quiet
    Mutual
CHECK_DEADLOCK FALSE
