SPECIFICATION Spec
CONSTANTS
    Builds <- MCBuilds
    UnsafeOpts <- MCUnsafeOpts
    Arguments <- MCArguments
    MaxArgs = 3
    EpochSet = {"unset", "valid", "invalid"}
INVARIANTS FitsBuffer CommandAgrees UnsafeReported
CHECK_DEADLOCK FALSE
