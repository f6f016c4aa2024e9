\* One WHIP publish: every offer of up to three sections, two PATCHes at once.
SPECIFICATION Spec
CONSTANTS
  Section <- Offered
  MaxSections = 3
  Supported = {"opus", "vp8", "h264"}
  Patch = {p1, p2}
  Ufrag = {"second", "third"}
INVARIANTS AnswerIsAgreed RtxHasItsCodec TagNamesIceSession
CHECK_DEADLOCK FALSE
