\* Start, reload, failing start and stop with one thread at a time inside calls.
SPECIFICATION FairSpec
CONSTANTS
    Library <- MCLibrary
    Start <- MCStart
    PostStart <- MCPostStart
    Stop <- MCStop
    Handlers <- MCHandlers
    Deregistered <- MCDeregistered
    Requests <- MCRequests
    WorksFor <- MCWorksFor
    Triggers <- MCTriggers
    Caught <- MCCaught
    Uncaught <- MCUncaught
    LoadOrder <- MCLoadOrder
    MayThrow = {"block", "rpc_client"}
    MayChange = {"router"}
    MaxDepth = 3
    MaxCalls = 1
CHECK_DEADLOCK FALSE
INVARIANTS TypeOK CallsFindCode LoadsWhole
PROPERTIES SignalAnswered
