SPECIFICATION RewardSpec
CONSTANTS
    BatchRows = {i1, i2}
    NumProcesses = 1
    Evaluations = {"returns", "hangs"}
    MaxDeaths = 0
PROPERTY LoopsAreHalted
CHECK_DEADLOCK FALSE
