------------------------- MODULE MCToolchainWrapper -------------------------
(***************************************************************************)
(* Wrappers for ARM, for MIPS with hard and with soft float, and for x86;  *)
(* every command line of up to MaxArgs arguments.                          *)
(***************************************************************************)
EXTENDS ToolchainWrapper

MCBuilds ==
    {{"CCACHE", "FPU", "MODE", "ADDITIONAL_CFLAGS", "FLOAT_ABI", "ARCH", "CPU",
      "NEED_SOURCE_DATE_EPOCH", "PIC_PIE", "RELRO_FULL"},
     {"CCACHE", "ABI", "NAN", "MIPS_TARGET_LITTLE_ENDIAN", "FP32_MODE", "ARCH",
      "NEED_SOURCE_DATE_EPOCH", "PIC_PIE", "RELRO_FULL"},
     {"ABI", "SOFTFLOAT", "FP_CONTRACT_OFF", "MIPS_TARGET_BIG_ENDIAN", "ARCH"},
     {"64", "ADDITIONAL_CFLAGS", "ARCH", "PIC_PIE", "RELRO_PARTIAL"}}

MCUnsafeOpts == <<"-I", "-L">>

MCArguments ==
    {[opt |-> o, path |-> "none"] : o \in {"-mfloat-abi=", "-msoft-float", "-mhard-float",
        "-EB", "-march=", "-static", "-fPIC", "-D__KERNEL__", "-shared", "-I", "-L", "arg"}}
    \union {[opt |-> o, path |-> p] : o \in {"-I", "-L"}, p \in {"safe", "unsafe"}}
    \union {[opt |-> "arg", path |-> "unsafe"]}
=============================================================================
