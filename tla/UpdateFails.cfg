SPECIFICATION Spec
CONSTANTS
    v1 = v1  v2 = v2  v3 = v3  v4 = v4  a = a  b = b
    Torn = Torn  Absent = Absent
    Procs = {a}
    Versions = {v1, v2, v3, v4}
    Installed = v1
    Shipped = "good"
    Layout <- MCLayout
    DataStart <- MCDataStart
    Commands = {"install", "download", "extract", "flashboot", "flashreboot"}
    Faults = {"space", "fetch", "unpack", "hook", "backup", "bootdd", "mount", "fdisk",
              "restore", "prepare", "initramfs"}
    Requests = {}
    PowerCuts = FALSE
INVARIANTS RebootRestored DefaultsBroughtBack StatusFollowsProcesses
