SPECIFICATION Spec
CONSTANTS
    ann = ann
    bob = bob
    p1 = p1
    p2 = p2
    i1 = i1
    i2 = i2
    i3 = i3
    t1 = t1
    t2 = t2
    Users = {ann, bob}
    Procs = {p1, p2}
    Ids = {i1, i2, i3}
    Tracks = {t1, t2}
    None = None
    Limit = 1
    MaxSongs = 2
SYMMETRY Symmetry
INVARIANTS OncePerList ListsBounded
PROPERTY ChangesAsAsked
