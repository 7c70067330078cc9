\* The code as written, under weak fairness of every thread: a thread that
\* passes the wait loop while both dishes are taken skips both branches and
\* keeps lockDishSelect; every later lock_acquire of it sleeps forever.
\* A thread asleep forever leaves no step enabled: that stuttering is the
\* violation of AllThreadsFinish, so deadlock is not reported separately.
CONSTANTS
    Cats = {c1, c2}
    Mice = {m1, m2}
    NEATS = 1
    None = None
SPECIFICATION Spec
PROPERTY AllThreadsFinish
CHECK_DEADLOCK FALSE
