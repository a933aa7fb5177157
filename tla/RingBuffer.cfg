SPECIFICATION Spec
CONSTANTS
    Items = {a, b}
    Capacities = {1, 2, 3}
    MaxBlock = 4
PROPERTY IsQueue
