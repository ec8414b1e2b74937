CONSTANTS
    Word = 8
    Frequencies = {1, 3}
    Interval = 2
    MaxSetBacks = 1
SPECIFICATION MonitorFairSpec
PROPERTIES
    NotEarly
    CyclesComplete
