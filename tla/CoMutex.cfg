CONSTANT Co = {c1, c2, c3, c4}
SPECIFICATION FairSpec
INVARIANT NoLostWakeup
PROPERTIES ImplementsLock WaitersServed
