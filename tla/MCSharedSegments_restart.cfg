CONSTANTS
    transmitter = transmitter
    receiver = receiver
    Programs = {transmitter, receiver}
    MaxStarts = 3
SYMMETRY Symmetry
SPECIFICATION Spec
INVARIANTS CleanConnectWorks RestartMakesNewRing
