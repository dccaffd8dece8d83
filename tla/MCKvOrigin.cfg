\* Power is lost at any time.
CONSTANTS
    t1 = t1 t2 = t2 g1 = g1 g2 = g2 ka = ka kb = kb kc = kc v1 = v1 v2 = v2
    Task = {t1}
    Gc = {g1, g2}
    Key = {ka, kb}
    Val = {v1, v2}
    KeyGroups <- NoGroups
    N = 2
    S = 2
    GcUnits = 2
    Loss = "any"
    None = None
SPECIFICATION KvSpec
INVARIANTS Durable
SYMMETRY KeySymmetry
