SPECIFICATION Spec
CONSTANTS
    None = None
    Damaged = Damaged
    TornFile = TornFile
    b1 = b1
    b2 = b2
    claim = claim
    proof = proof
    renewal = renewal
    binding = binding
    oa = oa
    ob = ob
    v1 = v1
    v2 = v2
SYMMETRY Symmetry
CHECK_DEADLOCK FALSE
INVARIANTS
    RequestsAreOnce
PROPERTIES
    RegistrationIsKept
    KeysAreFresh
