CONSTANTS
    alice = alice
    bob = bob
    d1 = d1
    d2 = d2
    None = None
    Users = {alice, bob}
    UpdateWorkers = {d1, d2}
    MaxMessages = 4
SPECIFICATION Spec
SYMMETRY SessionSymmetry
INVARIANTS SessionTypeOK NobodyMuted ParsedOnce
CHECK_DEADLOCK FALSE
