SPECIFICATION Spec
CONSTANTS
    h1 = h1
    h2 = h2
    Hosts <- MCHosts
    Benches <- MCBenches
    NameField = 3
    NotGiven = NotGiven
    Fresh <- MCFresh
    MaxSwitches = 1
    MaxLists = 1
SYMMETRY Symmetry
INVARIANTS TypeOK OwnDevice OnePersona Enumerated
CHECK_DEADLOCK FALSE
