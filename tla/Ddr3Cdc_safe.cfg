CONSTANTS
    Requests = {r1, r2}
    None = None
SPECIFICATION DrainSpec
INVARIANT RequestsApart
PROPERTIES BusesSettled ChannelSpec ChannelLive ResetCostsOneResponse
