\* Three downloads of a host that fail at once, on either side of a bucket boundary.
SPECIFICATION Spec
CONSTANTS
    Downloads = {d1, d2, d3}
    Hosts = {h1}
    NeverBlock = {}
    TimeWindow = 2
    BucketSize = 2
    Threshold = 3
    BlockTime = 1
    MaxDownload = 0
    MaxTries = 1
    Stall = 1
    MaxTime = 6
PROPERTIES
    DocumentedBlocking
