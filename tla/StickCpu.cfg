CONSTANTS
    c1 = c1 c2 = c2
    Clientes = {c1, c2}
    Inestables = {c2}
    MaxFd = 2
    Libre = Libre
    MOD8 = 2
    TAM_MAX_SEGMENTO = 8
    tamano_stick = 3
    Largos = {4, 5, 6}
    cpu = c1
    Otros <- MisPedidos
    Programas <- MisProgramas
    Sticks <- MiStick
    Texto <- MiTexto
SPECIFICATION EspecJusta
CHECK_DEADLOCK FALSE
INVARIANTS
    TypeOK
    UnaRespuesta
    RespuestaPedida
PROPERTIES
    EscribeEnSuFragmento
    SoloDesborda
    EscrituraTermina
