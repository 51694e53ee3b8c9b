\* One inbound slot, two outbound slots, one bootstrap entry.
CONSTANTS
    n1 = n1
    n2 = n2
    s0 = s0
    Nodes <- MCNodes
    Self = s0
    Boot <- MCBoot
    AddrLists <- MCAddrLists
    InLim = 1
    OutLim = 2
    MaxPeers = 4
INIT Init
NEXT Next
INVARIANT NoAbort
\* The node waits for connections for ever; the bound MaxPeers ends
\* behaviours where no connection can be opened any more.
CHECK_DEADLOCK FALSE
