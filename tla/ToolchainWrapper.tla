-------------------------- MODULE ToolchainWrapper --------------------------
(***************************************************************************)
(* The program that stands in for the cross compiler,                      *)
(* toolchain/toolchain-wrapper.c: it collects the predefined arguments, the*)
(* ones that depend on the command line and the command line itself in a   *)
(* buffer of fixed size, looks for paths of the build machine, and runs the*)
(* real compiler.                                                          *)
(*                                                                         *)
(* An argument is the option it begins with and the path in or of it.      *)
(* Options the program treats alike have one name: "-march=" is -march=,   *)
(* -mtune= and -mcpu=, "-static" is -r, -Wl,-r, -static, -fno-pie, -fno-PIE*)
(* and -no-pie, "-fPIC" is -fpie, -fPIE, -fpic and -fPIC, "-D__KERNEL__"   *)
(* is -D__UBOOT__ as well, "-EL" and "-EB" are -mlittle-endian and         *)
(* -mbig-endian as well; "arg" is any other argument of the caller, "cflag"*)
(* stands for what BR_ADDITIONAL_CFLAGS lists.                             *)
(***************************************************************************)
EXTENDS Naturals, Sequences

CONSTANTS
    Builds,      \* the macros the wrapper may be compiled with
    UnsafeOpts,  \* unsafe_opts, in the order of the table
    Arguments,   \* arguments of a command line
    MaxArgs,     \* bound: arguments
    EpochSet     \* states of SOURCE_DATE_EPOCH: "unset", "valid", "invalid"

Macros == {"CCACHE", "ABI", "NAN", "FPU", "SOFTFLOAT", "MODE", "64", "OMIT_LOCK_PREFIX",
           "NO_FUSED_MADD", "FP_CONTRACT_OFF", "BINFMT_FLAT", "MIPS_TARGET_LITTLE_ENDIAN",
           "MIPS_TARGET_BIG_ENDIAN", "ARC_TARGET_BIG_ENDIAN", "ADDITIONAL_CFLAGS",
           "FLOAT_ABI", "FP32_MODE", "ARCH", "CPU", "NEED_SOURCE_DATE_EPOCH",
           "PIC_PIE", "RELRO_PARTIAL", "RELRO_FULL"}

\* Each a choice of the configuration, or of the architecture.
Exclusive == {{"FLOAT_ABI", "FP32_MODE"}, {"SOFTFLOAT", "FP32_MODE"},
              {"RELRO_PARTIAL", "RELRO_FULL"},
              {"MIPS_TARGET_LITTLE_ENDIAN", "MIPS_TARGET_BIG_ENDIAN"},
              {"MIPS_TARGET_LITTLE_ENDIAN", "ARC_TARGET_BIG_ENDIAN"}}

Options == {UnsafeOpts[k] : k \in DOMAIN UnsafeOpts}

\* The ABI of the floating point unit is set for ARM and C-SKY, the mode of its registers
\* for MIPS with hard float (arch/Config.in.*); the byte order is the architecture's, and
\* RELRO is a choice.
ASSUME BuildAssumption ==
    /\ \A m \in Builds : m \subseteq Macros /\ \A two \in Exclusive : ~(two \subseteq m)
    /\ UnsafeOpts \in Seq(STRING)
    /\ MaxArgs \in Nat
ASSUME ArgumentAssumption ==
    Arguments \subseteq [opt : STRING, path : {"none", "safe", "unsafe"}]

Arg(opt) == [opt |-> opt, path |-> "none"]

VARIABLES
    macros,      \* what this wrapper was compiled with
    argv,        \* the arguments it is called with
    env,         \* the environment: [epoch, paranoid, nocache]
    pc,          \* where main is
    args,        \* the arguments collected so far; "cur" is behind the last one
    i, opt,      \* the loops of the check for unsafe paths
    reported,    \* the positions of the paths that were reported
    executed     \* the command that is run

vars == <<macros, argv, env, pc, args, i, opt, reported, executed>>
given == <<macros, argv, env>>
loops == <<i, opt, reported>>

Init ==
    /\ macros \in Builds
    /\ argv \in UNION {[1 .. n -> Arguments] : n \in 0 .. MaxArgs}
    /\ env \in [epoch : EpochSet, paranoid : BOOLEAN, nocache : BOOLEAN]
    /\ pc = "start" /\ args = <<>>
    /\ i = 1 /\ opt = 1 /\ reported = {}
    /\ executed = <<>>

-----------------------------------------------------------------------------
Given(options) == \E k \in DOMAIN argv : argv[k].opt \in options

IfDefined(m, some, o) == IF m \cap some # {} THEN <<Arg(o)>> ELSE <<>>

\* predef_args: the options of the target, whatever the command line says
TargetOptions(m) ==
    IfDefined(m, {"ABI"}, "-mabi=") \o IfDefined(m, {"NAN"}, "-mnan=")
    \o IfDefined(m, {"FPU"}, "-mfpu=") \o IfDefined(m, {"SOFTFLOAT"}, "-msoft-float")
    \o IfDefined(m, {"MODE"}, "-mMODE") \o IfDefined(m, {"64"}, "-m64")
    \o IfDefined(m, {"OMIT_LOCK_PREFIX"}, "-Wa,-momit-lock-prefix=yes")
    \o IfDefined(m, {"NO_FUSED_MADD"}, "-mno-fused-madd")
    \o IfDefined(m, {"FP_CONTRACT_OFF"}, "-ffp-contract=off")
    \o IfDefined(m, {"BINFMT_FLAT"}, "-Wl,-elf2flt")
    \o IfDefined(m, {"MIPS_TARGET_LITTLE_ENDIAN"}, "-EL")
    \o IfDefined(m, {"MIPS_TARGET_BIG_ENDIAN", "ARC_TARGET_BIG_ENDIAN"}, "-EB")
    \o IfDefined(m, {"ADDITIONAL_CFLAGS"}, "cflag")

Predefined(m) == IfDefined(m, {"CCACHE"}, "ccache")
                 \o <<Arg("gcc"), Arg("--sysroot"), Arg("sysroot")>>
                 \o TargetOptions(m)

\* Mutant: one less
MutExclusiveArgs == 9

EXCLUSIVE_ARGS == 10

\* The slots of the buffer; argc counts the name of the program.
Allocated == Len(Predefined(macros)) + (Len(argv) + 1) + EXCLUSIVE_ARGS

Add(from, to, more) ==
    /\ pc = from /\ pc' = to
    /\ args' = args \o more
    /\ UNCHANGED <<given, loops, executed>>

\* The wrapper finds out where it is; the paths of the compiler, ccache and the sysroot
\* made from that must fit their buffers.
PathsFit == Add("start", "floatabi", Predefined(macros))

PathTooLong ==
    /\ pc = "start" /\ pc' = "failed"
    /\ UNCHANGED <<given, args, loops, executed>>

FloatAbi ==
    Add("floatabi", "fp32",
        IF "FLOAT_ABI" \in macros /\ ~Given({"-mfloat-abi=", "-msoft-float", "-mhard-float"})
        THEN <<Arg("-mfloat-abi=")>> ELSE <<>>)

\* The last -msoft-float or -mhard-float says soft.
SoftFloat ==
    \E k \in DOMAIN argv :
       /\ argv[k].opt = "-msoft-float"
       /\ \A j \in k + 1 .. Len(argv) : argv[j].opt # "-mhard-float"

Fp32Mode ==
    Add("fp32", "arch", IF "FP32_MODE" \in macros /\ ~SoftFloat THEN <<Arg("-mfp")>> ELSE <<>>)

Architecture ==
    Add("arch", "dates",
        IF Given({"-march="}) THEN <<>>
        ELSE (IF "ARCH" \in macros THEN <<Arg("-march=")>> ELSE <<>>)
             \o (IF "CPU" \in macros THEN <<Arg("-march=")>> ELSE <<>>))

\* parse_source_date_epoch_from_env
EpochRead == "NEED_SOURCE_DATE_EPOCH" \in macros

Dates ==
    /\ EpochRead => env.epoch # "invalid"
    /\ Add("dates", "pie",
           IF EpochRead /\ env.epoch = "valid"
           THEN <<Arg("-D__TIME__"), Arg("-D__DATE__"), Arg("-Wno-builtin-macro-redefined")>>
           ELSE <<>>)

EpochInvalid ==
    /\ pc = "dates" /\ EpochRead /\ env.epoch = "invalid"
    /\ pc' = "failed"
    /\ UNCHANGED <<given, args, loops, executed>>

\* Mutant: an object for a shared library is linked as a program
MutPie ==
    IF "PIC_PIE" \notin macros \/ Given({"-static", "-D__KERNEL__"}) THEN <<>>
    ELSE (IF Given({"-fPIC"}) THEN <<>> ELSE <<Arg("-fPIE")>>) \o <<Arg("-pie")>>

Pie ==
    IF "PIC_PIE" \notin macros \/ Given({"-static", "-D__KERNEL__"}) THEN <<>>
    ELSE (IF Given({"-fPIC"}) THEN <<>> ELSE <<Arg("-fPIE")>>)
         \o (IF Given({"-shared"}) THEN <<>> ELSE <<Arg("-pie")>>)

PositionIndependent == Add("pie", "relro", Pie)

Relro ==
    Add("relro", "paths",
        IF Given({"-D__KERNEL__"}) THEN <<>>
        ELSE CASE "RELRO_FULL" \in macros -> <<Arg("-Wl,-z,now"), Arg("-Wl,-z,relro")>>
               [] "RELRO_PARTIAL" \in macros -> <<Arg("-Wl,-z,relro")>>
               [] OTHER -> <<>>)

-----------------------------------------------------------------------------
(***************************************************************************)
(* The check for unsafe paths: an outer loop over the arguments, an inner  *)
(* one over the options.  The inner loop may move the outer one on.        *)
(***************************************************************************)

\* check_unsafe_path: "paranoid" makes it an error.
Report(k, unsafe) ==
    /\ reported' = IF unsafe THEN reported \union {k} ELSE reported
    /\ pc' = IF unsafe /\ env.paranoid THEN "failed" ELSE pc

Checking(k) == pc = "paths" /\ k <= Len(argv)

NextArgument ==
    /\ Checking(i) /\ opt > Len(UnsafeOpts)
    /\ i' = i + 1 /\ opt' = 1
    /\ UNCHANGED <<given, pc, args, reported, executed>>

\* Mutant: only the first option of the table is tried
MutOtherOption ==
    /\ Checking(i) /\ opt <= Len(UnsafeOpts)
    /\ argv[i].opt # UnsafeOpts[opt]
    /\ i' = i + 1 /\ opt' = 1
    /\ UNCHANGED <<given, pc, args, reported, executed>>

OtherOption ==
    /\ Checking(i) /\ opt <= Len(UnsafeOpts)
    /\ argv[i].opt # UnsafeOpts[opt]
    /\ opt' = opt + 1
    /\ UNCHANGED <<given, pc, args, i, reported, executed>>

PathInArgument ==
    /\ Checking(i) /\ opt <= Len(UnsafeOpts)
    /\ argv[i].opt = UnsafeOpts[opt] /\ argv[i].path # "none"
    /\ Report(i, argv[i].path = "unsafe")
    /\ opt' = opt + 1
    /\ UNCHANGED <<given, args, i, executed>>

\* The path is the next argument, which is skipped; the options after this one are
\* tried on it all the same.
PathBehind ==
    /\ Checking(i) /\ opt <= Len(UnsafeOpts)
    /\ argv[i].opt = UnsafeOpts[opt] /\ argv[i].path = "none"
    /\ i' = i + 1
    /\ IF i = Len(argv) THEN UNCHANGED <<pc, reported>>
       ELSE Report(i + 1, argv[i + 1] = [opt |-> "arg", path |-> "unsafe"])
    /\ opt' = opt + 1
    /\ UNCHANGED <<given, args, executed>>

\* The command line is appended, and the end of the list.
Forward ==
    /\ pc = "paths" /\ i > Len(argv)
    /\ pc' = "exec"
    /\ args' = args \o argv \o <<Arg("NULL")>>
    /\ UNCHANGED <<given, loops, executed>>

Command == IF "CCACHE" \in macros /\ env.nocache THEN Tail(args) ELSE args

Execute ==
    /\ pc = "exec" /\ pc' = "done"
    /\ executed' = SubSeq(Command, 1, Len(Command) - 1)
    /\ UNCHANGED <<given, args, loops>>

Collect == PathsFit \/ PathTooLong \/ FloatAbi \/ Fp32Mode \/ Architecture \/ Dates
           \/ EpochInvalid \/ PositionIndependent \/ Relro
Check == NextArgument \/ OtherOption \/ PathInArgument \/ PathBehind

Next == Collect \/ Check \/ Forward \/ Execute

Spec == Init /\ [][Next]_vars

-----------------------------------------------------------------------------
(***************************************************************************)
(* Properties                                                              *)
(***************************************************************************)

\* The buffer has room for the longest list: EXCLUSIVE_ARGS is a worst case counted by
\* hand (toolchain-wrapper.c:40-57, where -mfp is missing), over conditions on the macros
\* and the command line that are spread over main.
FitsBuffer == Len(args) <= Allocated

\* What main decides on from the command line agrees with it: the caller's arguments are
\* all there, last and in order, and none of them forbids what the wrapper puts before them
\* on their account.  A shared or static object is not linked as a program, kernel code is
\* not made position independent, no second architecture and no second -mfloat-abi= is
\* named, and no floating-point mode, unless the last word about it was not soft float
\* (toolchain-wrapper.c:344-506, conditions on the macros and the arguments in every part).
\* The predefined options are exempt: -msoft-float, -EL, -EB and the others of predef_args
\* are there whatever the command line says, although the comment at 39-43 keeps a
\* predefined option out when its inverse is given.
Adds(o) == \E k \in 1 .. Len(executed) - Len(argv) : executed[k].opt = o
LastFloat(o) == \E k \in DOMAIN argv : /\ argv[k].opt = o
                                       /\ \A j \in DOMAIN argv : j > k => argv[j].opt \notin
                                            {"-msoft-float", "-mhard-float"}

CommandAgrees ==
    pc = "done" =>
       /\ SubSeq(executed, Len(executed) - Len(argv) + 1, Len(executed)) = argv
       /\ \/ executed[1] = Arg("gcc")
          \/ executed[1] = Arg("ccache") /\ executed[2] = Arg("gcc") /\ ~env.nocache
       /\ Adds("-pie") => ~Given({"-shared", "-static", "-D__KERNEL__"})
       /\ Adds("-fPIE") => ~Given({"-fPIC", "-static", "-D__KERNEL__"})
       /\ Adds("-Wl,-z,relro") => ~Given({"-D__KERNEL__"})
       /\ Adds("-march=") => ~Given({"-march="})
       /\ Adds("-mfloat-abi=") => ~Given({"-mfloat-abi=", "-msoft-float", "-mhard-float"})
       /\ Adds("-mfp") => ~LastFloat("-msoft-float")
       /\ LastFloat("-mhard-float") /\ "FP32_MODE" \in macros => Adds("-mfp")

\* The compiler reads an option without a path together with the next argument.
Bare(k) == argv[k].opt \in Options /\ argv[k].path = "none"
Behind(k) == k > 1 /\ Bare(k - 1)

\* The paths it takes from the command line that are the build machine's.
Unsafe == {k \in DOMAIN argv :
             /\ argv[k].path = "unsafe"
             /\ IF Behind(k) THEN argv[k].opt = "arg" ELSE argv[k].opt \in Options}

\* Every path of the build machine that the compiler will search is reported, nothing
\* else is, and with BR_COMPILER_PARANOID_UNSAFE_PATH the compiler does not run.  Left out
\* are command lines where an option stands right behind one that wants its path: the
\* program then takes it for both.
UnsafeReported ==
    pc = "done" /\ (\A k \in DOMAIN argv : Behind(k) => argv[k].opt \notin Options) =>
       /\ reported = Unsafe
       /\ env.paranoid => Unsafe = {}
=============================================================================
