SPECIFICATION Spec
CONSTANTS
    small = small
    large = large
    r1 = r1
    r2 = r2
    Torrent <- TwoTorrents
    Oversized <- LargeOne
    Request <- TwoRequests
    NoTorrent = NoTorrent
VIEW View
INVARIANT Consistent
INVARIANT NotReadyOnlyUnresolvable
INVARIANT OversizedOnlyUnmeasured
INVARIANT UnsizedIsUploaded
PROPERTY RequestsAnswered
