\* One swap of the association, one datagram each way.
CONSTANTS
  MaxReassoc = 1
  MaxSent = 1
  MaxRecv = 1
INIT UDPInit
NEXT UDPNext
INVARIANT NoSessionLeft
CHECK_DEADLOCK FALSE
