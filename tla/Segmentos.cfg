CONSTANTS
    h1 = h1 h2 = h2 Nadie = Nadie
    Hilos = {h1, h2}
    Pids = {1, 2}
    Ids = {1, 2}
    MaxLlamadas = 5
SPECIFICATION EspecJusta
CHECK_DEADLOCK FALSE
INVARIANTS
    NadaSePierde
    EliminaElPedido
PROPERTY LlamadaTermina
