CONSTANTS
    c1 = c1
    Cpus = {c1}
    Ios = {}
    Clientes = {c1}
    Inestables = {}
    MaxFd = 1
    Libre = Libre
    Algoritmo = "FIFO"
SPECIFICATION Spec
CHECK_DEADLOCK FALSE
INVARIANT NoSeCae
