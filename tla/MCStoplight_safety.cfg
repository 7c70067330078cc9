\* Four cars with every direction and turn: no two cars share a quadrant,
\* and while a car is still in or before the intersection some car can move.
CONSTANTS
    Cars = {c1, c2, c3, c4}
SYMMETRY MCSymmetry
SPECIFICATION Spec
INVARIANT TypeOK
INVARIANT QuadrantExclusive
INVARIANT NoDeadlock
