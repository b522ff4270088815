CONSTANTS
    c1 = c1 c2 = c2 s1 = s1 k1 = k1
    Cpus = {c1, c2}
    Sticks = {s1}
    Swaps = {}
    Planificadores = {k1}
    Clientes = {c1, c2, s1, k1}
    Inestables = {c1, c2}
    MaxFd = 2
    Libre = Libre
    Codigo <- SinLineas
SPECIFICATION EspecJusta
CHECK_DEADLOCK FALSE
INVARIANTS
    TypeOK
    SigueConectada
PROPERTY LiberaDescriptor
