SPECIFICATION Spec
CONSTANTS
    N = 3
    MaxRetries = 1
    Streams = {"stdout"}
    Options <- RemoteOptions
INVARIANTS WorkersAccounted ReportSound
PROPERTIES CountedIsFinal DrainEndsRun
