SPECIFICATION Spec
CONSTANTS
    Streams <- MCStreams
    HalfSpan = 5
INVARIANTS FramesSurviveSplitting ControllerExistsFirst OneSinkMissesNothing
PROPERTY CompletePacketsAreHanded
CHECK_DEADLOCK FALSE
