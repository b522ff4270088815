CONSTANTS
    v1 = v1 v2 = v2
    s1 = s1
    Procesos = {s1}
    BLOQUES = 3
    Contenidos = {v1, v2}
    CERO = CERO
    Ninguno = Ninguno
    MaxCaidas = 3
SPECIFICATION EspecJusta
CHECK_DEADLOCK FALSE
INVARIANT TypeOK
PROPERTIES
    ImplementaBloques
    PedidoAtendido
