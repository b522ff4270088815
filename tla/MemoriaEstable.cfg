CONSTANTS
    c1 = c1 c2 = c2 w1 = w1 w2 = w2
    Cpus = {c1, c2}
    Sticks = {}
    Swaps = {w1, w2}
    Planificadores = {}
    Clientes = {c1, c2, w1, w2}
    Inestables = {}
    MaxFd = 4
    Libre = Libre
    Codigo <- SinLineas
SPECIFICATION EspecJusta
CHECK_DEADLOCK FALSE
INVARIANTS
    RespuestaPropia
    EscuchaCpu
    SwapConservado
PROPERTY CpuAtendida
