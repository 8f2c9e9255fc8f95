\* Every file of up to 6 blocks, and what the loop makes of it.
SPECIFICATION ProgressSpec
CONSTANT MaxBlocks = 6
PROPERTIES
    RepairSound
    UpdateKeeps
