\* Options of each kind, turned on and off from both ends, and passwords typed
\* ahead; the client may refuse any.
CONSTANTS
  Options = {"ECHO", "EOR", "CHARSET", "unsupported"}
  Willing = {}
  MaxWhims = 2
  MaxSecrets = 4
SPECIFICATION Spec
CHECK_DEADLOCK FALSE
INVARIANTS
  NegotiationInv
  EchoRestored
PROPERTY
  NegotiationEnds
