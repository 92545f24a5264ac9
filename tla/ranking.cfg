CONSTANTS
    alice = alice
    bob = bob
    carol = carol
    ta = ta
    tb = tb
    tc = tc
    Tracks = {ta, tb, tc}
    Sessions = {alice, carol}
    PubOf <- Publisher
    Values = {0, 1}
    Ns = {1, 2}
    maxDeselected = 0
    MaxSeq = 4
    MaxSweeps = 1
SPECIFICATION Spec
INVARIANTS
    SelectionIsTopN
    ViewersFollow
