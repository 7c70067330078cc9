\* The code as written, every ++/-- a load and a store: although the racy
\* numDishesAvailable can let more threads past the wait loop than there
\* are free dishes, no two threads eat at the same dish.  The code can hang
\* (see MCCatLock_hang.cfg), so a stopped state is not reported here.
CONSTANTS
    Cats = {c1, c2}
    Mice = {m1, m2}
    NEATS = 1
    None = None
SYMMETRY MCSymmetry
SPECIFICATION Spec
INVARIANT TypeOK
INVARIANT DishExclusive
CHECK_DEADLOCK FALSE
