CONSTANT Co = {c1, c2, c3, c4}
SPECIFICATION FairSpec
INVARIANT QueuedReaderHasWriter
PROPERTIES ImplementsLock WaitersServed
