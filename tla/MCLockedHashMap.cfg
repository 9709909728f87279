SPECIFICATION Spec
CONSTANTS
    Threads = {t1, t2, t3}
    Key1 = k1
    Key2 = k2
    Calls <- MCCalls
    NoCall = NoCall
    Default = 0
    None = None
    F <- MCF
PROPERTIES
    ImplementsAtomicMap
