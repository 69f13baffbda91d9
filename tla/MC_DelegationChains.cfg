\* Spawning is off: chains grow by HTTP requests only.
SPECIFICATION Spec
CONSTANTS
    Servers <- MCServers
    Agents <- MCServers
    Subagents <- MCSubagents
    SpawnMax = 0
    MaxFrames = 4
    MaxOutside = 2
INVARIANT ChainsAreCapped
CHECK_DEADLOCK FALSE
