CONSTANTS
    c1 = c1 c2 = c2 i1 = i1
    Cpus = {c1, c2}
    Ios = {i1}
    Clientes = {c1, c2, i1}
    Inestables = {c1, c2}
    MaxFd = 3
    Libre = Libre
    Algoritmo = "FIFO"
SPECIFICATION EspecJusta
CHECK_DEADLOCK FALSE
INVARIANTS
    UnSoloLugar
    SemReadyExacto
    SemNewReadyExacto
    HayCpuLibre
    ConexionPropia
    EnviaACpuConectada
    NoSeCaeAntesDeDespachar
PROPERTIES
    ImplementaCiclo
    SeDespacha
    ImplementaCicloVivo
