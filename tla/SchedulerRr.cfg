CONSTANTS
    c1 = c1 c2 = c2
    Cpus = {c1, c2}
    Ios = {}
    Clientes = {c1, c2}
    Inestables = {c1, c2}
    MaxFd = 2
    Libre = Libre
    Algoritmo = "RR"
SPECIFICATION Spec
CHECK_DEADLOCK FALSE
INVARIANTS
    TypeOK
    NuncaDosLugares
    SemReadySuficiente
    SemNewReadyExacto
    SinDespertarPerdido
    DespachaAOciosa
