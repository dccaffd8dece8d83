\* The size of the products, two blocks; power is lost at (almost) any time.
CONSTANTS
    t1 = t1 t2 = t2 g1 = g1 g2 = g2 ka = ka kb = kb kc = kc v1 = v1 v2 = v2
    Task = {t1, t2}
    Gc = {g1, g2}
    Key = {ka, kb}
    Val = {v1, v2}
    KeyGroups <- AllKeys
    N = 2
    S = 2
    GcUnits = 1
    Loss = "spared"
    None = None
SPECIFICATION KvSpec
INVARIANTS Durable OneItemPerKey
SYMMETRY TaskSymmetry
CHECK_DEADLOCK FALSE
