\* The code as written, with ++/-- as load and store: a cat and a mouse
\* eat at the same time.
CONSTANTS
    Cats = {c1, c2}
    Mice = {m1, m2}
    NEATS = 1
    None = None
SYMMETRY MCSymmetry
SPECIFICATION Spec
INVARIANT CatsMiceExclusive
