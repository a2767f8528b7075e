\* Four keys in two buckets, memory for one more key and value than can be stored.
CONSTANTS
    k1 = k1
    k2 = k2
    k3 = k3
    k4 = k4
    NULL = NULL
    Keys = {k1, k2, k3, k4}
    KeyCells = {c1, c2, c3, c4, c5}
    ValueCells = {v1, v2, v3, v4, v5}
    LA_HASH_SIZE = 2
    Hash <- MCHash
SYMMETRY CellSymmetry
SPECIFICATION Spec
INVARIANTS
    EachKeyOnce
    Owned
    CollectedKeysLive
PROPERTIES
    IsMap
