\* Hellos of one key that overlap, on a server that is stopped and started again.
SPECIFICATION FairSpec
CONSTANTS
    Programs = {"p", "q"}
    Keys = {"k"}
    KeyOf <- MCKeyOf
    Commands <- MCCommands
    Trusted = {"k"}
    HttpThreads = 2
    None = None
    MaxStarts = 2
    MaxFiles = 1
CHECK_DEADLOCK FALSE
INVARIANTS TypeOK WelcomedServed Routed
PROPERTIES ProgramsEnd
