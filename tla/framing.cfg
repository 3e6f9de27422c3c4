\* Three requests of a source of channel 2, two of whose arrivals at either end are
\* of a part of what is on its way, with the layout of the server or that of a
\* 64-bit host.
CONSTANTS
    NAdc = 3
    Asked = 2
    MaxRequests = 3
    MaxCuts = 2
SPECIFICATION FramingSpec
INVARIANTS
    SamplesAreAnswers
CHECK_DEADLOCK FALSE
