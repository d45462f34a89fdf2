\* The echo option through passwords typed ahead, with a willing client.
CONSTANTS
  Options = {"ECHO"}
  Willing = {"ECHO"}
  MaxWhims = 0
  MaxSecrets = 5
SPECIFICATION Spec
CHECK_DEADLOCK FALSE
INVARIANT
  SecretMasked
