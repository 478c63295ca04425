\* A first score.
CONSTANTS
    i1 = i1
    i2 = i2
    i3 = i3
    k1 = k1
    k2 = k2
    k3 = k3
    q1 = q1
    q2 = q2
    Nobody = Nobody
    Items = {i1, i2, i3}
    Keys = {k1, k2, k3}
    Requests = {q1}
    Judgements <- Good90
SPECIFICATION Spec
SYMMETRY Symmetry
INVARIANTS NewPointsStartHalfway
