CONSTANTS
    p1 = p1
    p2 = p2
    k1 = k1
    k2 = k2
    None = None
    Producer = {p1, p2}
    Kernel = {k1, k2}
    Sender <- MCSender
SPECIFICATION Spec
INVARIANT NoPhantomKernel
INVARIANT NoKernelLeak
PROPERTY SentIsProcessed
