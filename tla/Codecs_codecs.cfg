SPECIFICATION CSpec
CONSTANTS
    M = 6
    Primitive = 67
    Jobs <- CodecJobs
    Key <- AKey
    Nacs = {1, 2}
INVARIANTS Corrected Honest MostLikely
