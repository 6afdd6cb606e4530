CONSTANTS
    k1 = k1
    k2 = k2
    k3 = k3
    App = {2, 7}
    Pid = {1, 2, 3}
    Kernel <- MCKernel
    AppOf <- MCAppOf
    Foreign <- MCForeign
SPECIFICATION Spec
CHECK_DEADLOCK FALSE
PROPERTY KernelResolved
