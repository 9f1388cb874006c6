--------------------------- MODULE MCModuleManager ---------------------------
(* The modules of a node, with the scripts and handlers they have.         *)
EXTENDS ModuleManager

S == INSTANCE ModuleScripts

MCLibrary == S!NodeLibrary
MCStart == S!NodeStart
MCPostStart == S!NodePostStart
MCStop == S!NodeStop
MCHandlers == S!NodeHandlers
MCDeregistered == S!NodeDeregistered
MCRequests == S!NodeRequests
MCWorksFor == S!NodeWorksFor
MCTriggers == S!NodeTriggers
MCCaught(by, missing) == S!NodeCaught(by, missing)
MCUncaught == S!NodeUncaught
MCLoadOrder == S!LibraryOrder
==============================================================================
