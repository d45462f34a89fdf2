\* Lines of at most two bytes and payloads of at most four: from a client that
\* speaks telnet each limit is met and passed and an escape falls on it; another
\* client sends the control bytes in any order.
CONSTANTS
  Text = {"a", "IAC", "NUL"}
  Payloads <- PayloadsAtLimits
  MaxLine = 2
  MaxSubneg = 4
  MaxEvents = 2
  Noise = {"IAC", "SB", "SE", "WILL", "CR", "LF"}
SPECIFICATION Spec
INVARIANTS
  Understood
  Withstands
