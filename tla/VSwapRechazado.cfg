CONSTANTS
    v1 = v1 s1 = s1 s2 = s2
    Procesos = {s1, s2}
    BLOQUES = 1
    Contenidos = {v1}
    CERO = CERO
    Ninguno = Ninguno
    MaxCaidas = 0
SPECIFICATION Spec
CHECK_DEADLOCK FALSE
PROPERTY EscrituraQueda
