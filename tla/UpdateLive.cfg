SPECIFICATION FairSpec
CONSTANTS
    v1 = v1  v2 = v2  v3 = v3  v4 = v4  a = a  b = b
    Torn = Torn  Absent = Absent
    Procs = {a}
    Versions = {v1, v2}
    Installed = v1
    Shipped = "none"
    Layout <- MCLayout
    DataStart <- MCDataStart
    Commands = {"install"}
    Faults = {}
    Requests = {}
    PowerCuts = TRUE
PROPERTIES UpdateCompletes
