-------------------------- MODULE MCTorrentEngine --------------------------
(* TorrentEngine on small instances: a few hashes and request slots as model *)
(* values, timers of one or two units that keep the order of the real ones.  *)
EXTENDS TorrentEngine

CONSTANTS h1, h2, r1, r2

OneHash == {h1}
TwoHashes == {h1, h2}
NoRequest == {}
OneStream == {r1}
TwoStreams == {r1, r2}
NoFault == {}
LostTorrent == {"torrent", "remove"}

=============================================================================
