CONSTANTS
    MOD8 = 2
    TAM_MAX_SEGMENTO = 8
    Programas <- MisProgramas
    Sticks <- VariosSticks
    Texto <- MiTexto
    Inseguros = {0, 2}
SPECIFICATION EspecJusta
CHECK_DEADLOCK FALSE
INVARIANTS
    TypeOK
    PedidoDentro
    EnSuSegmento
PROPERTIES
    ImplementaMaquina
    AccesoTermina
