--------------------------- MODULE MCWhipNegotiation ---------------------------
EXTENDS WhipNegotiation
C(pt, name, apt) == [pt |-> pt, name |-> name, apt |-> apt]
M(kind, open, encoding, codecs) == [kind |-> kind, open |-> open, encoding |-> encoding, codecs |-> codecs]
Offered == {
  M("audio", TRUE, TRUE, <<C(111, "opus", 0)>>),
  M("audio", TRUE, FALSE, <<C(111, "opus", 0)>>),
  M("audio", TRUE, TRUE, <<C(8, "pcma", 0)>>),
  M("video", TRUE, TRUE, <<C(96, "vp8", 0), C(97, "rtx", 96)>>),
  M("video", TRUE, TRUE, <<C(35, "av1", 0), C(36, "rtx", 35), C(98, "h264", 0), C(99, "rtx", 98)>>),
  M("video", FALSE, TRUE, <<C(96, "vp8", 0)>>),
  M("application", TRUE, FALSE, <<>>) }
=============================================================================
