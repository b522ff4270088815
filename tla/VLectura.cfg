CONSTANTS
    c1 = c1
    Clientes = {c1}
    Inestables = {}
    MaxFd = 1
    Libre = Libre
    MOD8 = 2
    TAM_MAX_SEGMENTO = 8
    tamano_stick = 4
    Largos = {4}
    cpu = c1
    Otros <- MisPedidos
    Programas <- MisProgramas
    Sticks <- MiStick
    Texto <- MiTexto
SPECIFICATION EspecJusta
CHECK_DEADLOCK FALSE
PROPERTY LecturaTermina
