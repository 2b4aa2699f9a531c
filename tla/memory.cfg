CONSTANTS
    Memories = {m1, m2}
    Threads = {a, b}
    NewScore = 1
    MaxScore = 4
    Boost = 2
    PruneDays = 2
    MaxInjected = 2
    Lowest = 3
SPECIFICATION Spec
PROPERTIES
    RecalledMemoriesStay
