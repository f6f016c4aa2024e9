\* The comment on buildSdpAnswer against an offer with two sections of one kind.
SPECIFICATION Spec
CONSTANTS
  Section <- Offered
  MaxSections = 3
  Supported = {"opus", "vp8", "h264"}
  Patch = {p1, p2}
  Ufrag = {"second", "third"}
INVARIANT BundleIsAccepted
CHECK_DEADLOCK FALSE
