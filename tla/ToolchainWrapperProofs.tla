----------------------- MODULE ToolchainWrapperProofs -----------------------
(***************************************************************************)
(* What the toolchain wrapper promises, for every set of macros it can be  *)
(* compiled with and every command line.  The buffer is large enough: what *)
(* each part of main may have added so far is bounded, and the bounds add  *)
(* up to EXCLUSIVE_ARGS only because no build has both macros that stand   *)
(* for the floating-point unit.  The two loops of the check report the     *)
(* paths the compiler would search and no others.  The command that is run *)
(* is a prefix and the caller's words, which forbid nothing that main      *)
(* decided to put into the prefix; the predefined options are always in it.*)
(***************************************************************************)
EXTENDS ToolchainWrapper, TLAPS

TargetWords == {"-mabi=", "-mnan=", "-mfpu=", "-msoft-float", "-mMODE", "-m64",
                "-Wa,-momit-lock-prefix=yes", "-mno-fused-madd", "-ffp-contract=off",
                "-Wl,-elf2flt", "-EL", "-EB", "cflag"}

Added == {Arg(o) : o \in TargetWords} \union
         {Arg("ccache"), Arg("gcc"), Arg("--sysroot"), Arg("sysroot"),
          Arg("-mfloat-abi="), Arg("-mfp"), Arg("-march="), Arg("-D__TIME__"),
          Arg("-D__DATE__"), Arg("-Wno-builtin-macro-redefined"), Arg("-fPIE"),
          Arg("-pie"), Arg("-Wl,-z,now"), Arg("-Wl,-z,relro"), Arg("NULL")}

Words == Arguments \union Added

\* The arguments main may have added to the predefined ones when it gets there.
AddedMax(place) ==
    CASE place = "floatabi" -> 0
      [] place = "fp32" -> 1
      [] place = "arch" -> 1
      [] place = "dates" -> 3
      [] place = "pie" -> 6
      [] place = "relro" -> 8
      [] place = "paths" -> 10
      [] OTHER -> 0

Collecting == {"floatabi", "fp32", "arch", "dates", "pie", "relro", "paths"}
Places == Collecting \union {"start", "exec", "done", "failed"}

P == Len(Predefined(macros))

IInv ==
    /\ macros \in Builds /\ argv \in Seq(Arguments)
    /\ pc \in Places /\ args \in Seq(Words)
    /\ pc = "start" => args = <<>>
    /\ pc \in Collecting => Len(args) <= P + AddedMax(pc)
    /\ pc = "fp32" /\ "FLOAT_ABI" \notin macros => Len(args) <= P
    /\ FitsBuffer

LEMMA Appended ==
    ASSUME NEW S, NEW s \in Seq(S), NEW t \in Seq(S)
    PROVE  s \o t \in Seq(S) /\ Len(s \o t) = Len(s) + Len(t)
OBVIOUS

LEMMA Nothing == <<>> \in Seq(Words) /\ Len(<<>>) = 0 /\ Len(<<>>) <= 1
OBVIOUS

LEMMA NoneOfTwo == <<>> \in Seq(Words) /\ Len(<<>>) <= 2
OBVIOUS

LEMMA Two ==
    ASSUME NEW S, NEW s \in Seq(S), NEW t \in Seq(S), Len(s) <= 1, Len(t) <= 1
    PROVE  s \o t \in Seq(S) /\ Len(s \o t) <= 2
<1>1. s \o t \in Seq(S) /\ Len(s \o t) = Len(s) + Len(t)
  BY Appended
<1>2. Len(s) \in Nat /\ Len(t) \in Nat
  OBVIOUS
<1> QED BY <1>1, <1>2

LEMMA Sum ==
    ASSUME NEW a \in Nat, NEW b \in Nat, NEW c \in Nat, NEW d \in Nat, NEW e \in Nat,
           NEW f \in Nat, a <= c + d, b <= e, d + e <= f
    PROVE  a + b <= c + f
OBVIOUS

LEMMA Wider ==
    ASSUME NEW s \in Seq(Arguments)
    PROVE  s \in Seq(Words)
BY DEF Words

-----------------------------------------------------------------------------
(***************************************************************************)
(* What each part of main adds, and how much at most: the count in the     *)
(* comment above EXCLUSIVE_ARGS.                                           *)
(***************************************************************************)

\* Whatever set the words are taken from.
LEMMA TargetOptionsIn ==
    ASSUME NEW S, \A o \in TargetWords : Arg(o) \in S, NEW m
    PROVE  TargetOptions(m) \in Seq(S)
<1>1. \A o \in TargetWords : <<Arg(o)>> \in Seq(S) /\ <<>> \in Seq(S)
  OBVIOUS
<1>2. ASSUME NEW o \in TargetWords, NEW some
      PROVE  IfDefined(m, some, o) \in Seq(S)
  BY <1>1, Zenon DEF IfDefined
<1>3. \A s \in Seq(S), t \in Seq(S) : s \o t \in Seq(S)
  BY Appended
<1>4. /\ IfDefined(m, {"ABI"}, "-mabi=") \in Seq(S)
      /\ IfDefined(m, {"NAN"}, "-mnan=") \in Seq(S)
      /\ IfDefined(m, {"FPU"}, "-mfpu=") \in Seq(S)
      /\ IfDefined(m, {"SOFTFLOAT"}, "-msoft-float") \in Seq(S)
      /\ IfDefined(m, {"MODE"}, "-mMODE") \in Seq(S)
      /\ IfDefined(m, {"64"}, "-m64") \in Seq(S)
      /\ IfDefined(m, {"OMIT_LOCK_PREFIX"}, "-Wa,-momit-lock-prefix=yes") \in Seq(S)
      /\ IfDefined(m, {"NO_FUSED_MADD"}, "-mno-fused-madd") \in Seq(S)
      /\ IfDefined(m, {"FP_CONTRACT_OFF"}, "-ffp-contract=off") \in Seq(S)
      /\ IfDefined(m, {"BINFMT_FLAT"}, "-Wl,-elf2flt") \in Seq(S)
      /\ IfDefined(m, {"MIPS_TARGET_LITTLE_ENDIAN"}, "-EL") \in Seq(S)
      /\ IfDefined(m, {"MIPS_TARGET_BIG_ENDIAN", "ARC_TARGET_BIG_ENDIAN"}, "-EB") \in Seq(S)
      /\ IfDefined(m, {"ADDITIONAL_CFLAGS"}, "cflag") \in Seq(S)
  BY <1>2 DEF TargetWords
<1> QED BY <1>3, <1>4, Zenon DEF TargetOptions

LEMMA PredefinedIsWords ==
    Predefined(macros) \in Seq(Words)
<1> DEFINE a == IfDefined(macros, {"CCACHE"}, "ccache")
           b == <<Arg("gcc"), Arg("--sysroot"), Arg("sysroot")>>
           c == TargetOptions(macros)
<1>1. a \in Seq(Words)
  <2>1. <<Arg("ccache")>> \in Seq(Words) /\ <<>> \in Seq(Words)
    BY DEF Words, Added
  <2> QED BY <2>1, Zenon DEF IfDefined
<1>2. b \in Seq(Words)
  BY DEF Words, Added
<1>3. c \in Seq(Words)
  <2>1. \A o \in TargetWords : Arg(o) \in Words
    BY DEF Words, Added
  <2> QED BY <2>1, TargetOptionsIn
<1>4. Predefined(macros) = (a \o b) \o c
  BY DEF Predefined
<1> HIDE DEF a, b, c
<1>5. a \o b \in Seq(Words)
  BY <1>1, <1>2, Appended
<1>6. (a \o b) \o c \in Seq(Words)
  BY <1>3, <1>5, Appended
<1> QED BY <1>4, <1>6

LEMMA PieShort ==
    Pie \in Seq(Words) /\ Len(Pie) <= 2
<1> DEFINE a == IF Given({"-fPIC"}) THEN <<>> ELSE <<Arg("-fPIE")>>
           b == IF Given({"-shared"}) THEN <<>> ELSE <<Arg("-pie")>>
<1>1. a \in Seq(Words) /\ Len(a) <= 1
  <2>1. <<Arg("-fPIE")>> \in Seq(Words) /\ Len(<<Arg("-fPIE")>>) <= 1
    BY DEF Words, Added
  <2> QED BY <2>1, Nothing, Zenon
<1>2. b \in Seq(Words) /\ Len(b) <= 1
  <2>1. <<Arg("-pie")>> \in Seq(Words) /\ Len(<<Arg("-pie")>>) <= 1
    BY DEF Words, Added
  <2> QED BY <2>1, Nothing, Zenon
<1>3. Pie = <<>> \/ Pie = a \o b
  BY DEF Pie
<1> HIDE DEF a, b
<1>4. a \o b \in Seq(Words) /\ Len(a \o b) <= 2
  BY <1>1, <1>2, Two
<1> QED BY <1>3, <1>4, NoneOfTwo, Zenon

LEMMA FloatAbiShort ==
    ASSUME NEW more,
           more = IF "FLOAT_ABI" \in macros /\ ~Given({"-mfloat-abi=", "-msoft-float", "-mhard-float"})
                  THEN <<Arg("-mfloat-abi=")>> ELSE <<>>
    PROVE  more \in Seq(Words) /\ Len(more) <= 1 /\ ("FLOAT_ABI" \notin macros => Len(more) = 0)
<1>1. <<Arg("-mfloat-abi=")>> \in Seq(Words) /\ Len(<<Arg("-mfloat-abi=")>>) <= 1
  BY DEF Words, Added
<1> QED BY <1>1, Nothing, Zenon

LEMMA Fp32Short ==
    ASSUME NEW more,
           more = IF "FP32_MODE" \in macros /\ ~SoftFloat THEN <<Arg("-mfp")>> ELSE <<>>
    PROVE  more \in Seq(Words) /\ Len(more) <= 1 /\ ("FP32_MODE" \notin macros => Len(more) = 0)
<1>1. <<Arg("-mfp")>> \in Seq(Words) /\ Len(<<Arg("-mfp")>>) <= 1
  BY DEF Words, Added
<1> QED BY <1>1, Nothing, Zenon

LEMMA ArchitectureShort ==
    ASSUME NEW more,
           more = IF Given({"-march="}) THEN <<>>
                  ELSE (IF "ARCH" \in macros THEN <<Arg("-march=")>> ELSE <<>>)
                       \o (IF "CPU" \in macros THEN <<Arg("-march=")>> ELSE <<>>)
    PROVE  more \in Seq(Words) /\ Len(more) <= 2
<1> DEFINE a == IF "ARCH" \in macros THEN <<Arg("-march=")>> ELSE <<>>
           b == IF "CPU" \in macros THEN <<Arg("-march=")>> ELSE <<>>
<1>1. <<Arg("-march=")>> \in Seq(Words) /\ Len(<<Arg("-march=")>>) <= 1
  BY DEF Words, Added
<1>2. /\ a \in Seq(Words) /\ Len(a) <= 1
      /\ b \in Seq(Words) /\ Len(b) <= 1
  BY <1>1, Nothing, Zenon
<1>3. more = <<>> \/ more = a \o b
  BY Zenon
<1> HIDE DEF a, b
<1>4. a \o b \in Seq(Words) /\ Len(a \o b) <= 2
  BY <1>2, Two
<1> QED BY <1>3, <1>4, NoneOfTwo, Zenon

LEMMA DatesShort ==
    ASSUME NEW more,
           more = IF EpochRead /\ env.epoch = "valid"
                  THEN <<Arg("-D__TIME__"), Arg("-D__DATE__"), Arg("-Wno-builtin-macro-redefined")>>
                  ELSE <<>>
    PROVE  more \in Seq(Words) /\ Len(more) <= 3
<1> DEFINE three == <<Arg("-D__TIME__"), Arg("-D__DATE__"), Arg("-Wno-builtin-macro-redefined")>>
<1>1. three \in Seq(Words) /\ Len(three) <= 3
  BY DEF Words, Added
<1>2. <<>> \in Seq(Words) /\ Len(<<>>) <= 3
  OBVIOUS
<1>3. more = three \/ more = <<>>
  BY Zenon
<1> QED BY <1>1, <1>2, <1>3, Zenon

LEMMA RelroWords ==
    /\ <<Arg("-Wl,-z,now"), Arg("-Wl,-z,relro")>> \in Seq(Words)
    /\ Len(<<Arg("-Wl,-z,now"), Arg("-Wl,-z,relro")>>) <= 2
    /\ <<Arg("-Wl,-z,relro")>> \in Seq(Words)
    /\ Len(<<Arg("-Wl,-z,relro")>>) <= 2
BY DEF Words, Added

RelroArgs == IF Given({"-D__KERNEL__"}) THEN <<>>
             ELSE CASE "RELRO_FULL" \in macros -> <<Arg("-Wl,-z,now"), Arg("-Wl,-z,relro")>>
                    [] "RELRO_PARTIAL" \in macros -> <<Arg("-Wl,-z,relro")>>
                    [] OTHER -> <<>>

LEMMA RelroShort ==
    ASSUME macros \in Builds
    PROVE  RelroArgs \in Seq(Words) /\ Len(RelroArgs) <= 2
<1>1. "RELRO_PARTIAL" \notin macros \/ "RELRO_FULL" \notin macros
  BY BuildAssumption DEF Exclusive
<1> DEFINE full == <<Arg("-Wl,-z,now"), Arg("-Wl,-z,relro")>>
           partial == <<Arg("-Wl,-z,relro")>>
           none == <<>>
<1>2. RelroArgs = IF Given({"-D__KERNEL__"}) THEN none
                  ELSE CASE "RELRO_FULL" \in macros -> full
                         [] "RELRO_PARTIAL" \in macros -> partial
                         [] OTHER -> none
  BY Zenon DEF RelroArgs
<1>3. /\ full \in Seq(Words) /\ Len(full) <= 2
      /\ partial \in Seq(Words) /\ Len(partial) <= 2
      /\ none \in Seq(Words) /\ Len(none) <= 2
  BY RelroWords, NoneOfTwo, Zenon
<1> HIDE DEF full, partial, none
<1>4. RelroArgs = full \/ RelroArgs = partial \/ RelroArgs = none
  <2>1. CASE Given({"-D__KERNEL__"})
    BY <1>2, <2>1, Zenon
  <2>2. CASE ~Given({"-D__KERNEL__"})
    BY <1>1, <1>2, <2>2, Zenon
  <2> QED BY <2>1, <2>2
<1> QED BY <1>3, <1>4, Zenon

-----------------------------------------------------------------------------
(***************************************************************************)
(* The invariant                                                           *)
(***************************************************************************)

LEMMA Lengths ==
    ASSUME IInv
    PROVE  Len(args) \in Nat /\ Len(argv) \in Nat /\ P \in Nat
BY PredefinedIsWords DEF IInv, P

\* A step of main keeps the invariant where there is room for what it adds.
LEMMA AddKeeps ==
    ASSUME IInv, NEW from, NEW to \in Collecting, NEW more \in Seq(Words),
           Add(from, to, more),
           Len(args) + Len(more) <= P + AddedMax(to),
           to = "fp32" /\ "FLOAT_ABI" \notin macros => Len(args) + Len(more) <= P
    PROVE  IInv'
<1>1. args' \in Seq(Words) /\ Len(args') = Len(args) + Len(more)
  BY Appended DEF IInv, Add
<1>2. macros' = macros /\ argv' = argv /\ pc' = to /\ P' = P
  BY DEF Add, given, P
<1>3. AddedMax(to) \in 0 .. 10
  BY DEF AddedMax, Collecting
<1>4. FitsBuffer'
  <2>1. Allocated' = P + (Len(argv) + 1) + 10
    BY <1>2 DEF Allocated, P, EXCLUSIVE_ARGS
  <2>2. Len(args') <= P + AddedMax(to)
    BY <1>1, Zenon
  <2>3. AddedMax(to) \in Nat /\ AddedMax(to) <= 10 /\ Len(args') \in Nat
    BY <1>1, <1>3
  <2> QED BY Lengths, <2>1, <2>2, <2>3 DEF FitsBuffer
<1>5. to # "start" /\ to \in Places
  BY DEF Collecting, Places
<1>6. to \in Collecting => Len(args') <= P' + AddedMax(to)
  BY <1>1, <1>2, Zenon
<1>7. to = "fp32" /\ "FLOAT_ABI" \notin macros' => Len(args') <= P'
  BY <1>1, <1>2, Zenon
<1> QED BY <1>1, <1>2, <1>4, <1>5, <1>6, <1>7 DEF IInv

\* Most parts add at most what their place has more than the one before.
LEMMA CountedKeeps ==
    ASSUME IInv, NEW from \in Collecting, NEW to \in Collecting \ {"fp32"},
           NEW more \in Seq(Words), NEW n \in Nat,
           Add(from, to, more), Len(more) <= n, AddedMax(from) + n <= AddedMax(to)
    PROVE  IInv'
<1>1. pc = from
  BY DEF Add
<1>2. Len(args) <= P + AddedMax(from)
  BY <1>1, Zenon DEF IInv
<1>3. AddedMax(from) \in Nat /\ AddedMax(to) \in Nat /\ Len(more) \in Nat
  BY DEF AddedMax, Collecting
<1>4. Len(args) + Len(more) <= P + AddedMax(to)
  BY <1>2, <1>3, Lengths, Sum, Zenon
<1> QED BY <1>4, AddKeeps

LEMMA InitHolds == ASSUME Init PROVE IInv
<1>1. argv \in Seq(Arguments)
  <2>1. PICK n \in 0 .. MaxArgs : argv \in [1 .. n -> Arguments]
    BY DEF Init
  <2>2. n \in Nat
    BY BuildAssumption
  <2> QED BY <2>1, <2>2
<1>2. args = <<>> /\ pc = "start" /\ macros \in Builds
  BY DEF Init
<1>3. args \in Seq(Words) /\ Len(args) = 0
  BY <1>2
<1>4. FitsBuffer
  <2>1. Len(Predefined(macros)) \in Nat /\ Len(argv) \in Nat
    BY <1>1, PredefinedIsWords
  <2> QED BY <1>3, <2>1 DEF FitsBuffer, Allocated, EXCLUSIVE_ARGS
<1> QED BY <1>1, <1>2, <1>3, <1>4 DEF IInv, Places, Collecting

LEMMA ConditionalArgsKeep ==
    ASSUME IInv,
           FloatAbi \/ Fp32Mode \/ Architecture \/ Dates \/ PositionIndependent \/ Relro
    PROVE  IInv'
<1>1. CASE FloatAbi
  <2> DEFINE more == IF "FLOAT_ABI" \in macros
                         /\ ~Given({"-mfloat-abi=", "-msoft-float", "-mhard-float"})
                     THEN <<Arg("-mfloat-abi=")>> ELSE <<>>
  <2>1. Add("floatabi", "fp32", more)
    BY <1>1, Zenon DEF FloatAbi
  <2>2. more \in Seq(Words) /\ Len(more) <= 1 /\ ("FLOAT_ABI" \notin macros => Len(more) = 0)
    BY FloatAbiShort, Zenon
  <2> HIDE DEF more
  <2>3. Len(args) <= P + AddedMax("floatabi")
    BY <2>1, Zenon DEF Add, IInv, Collecting
  <2>4. AddedMax("floatabi") = 0 /\ AddedMax("fp32") = 1
    BY DEF AddedMax
  <2>5. Len(more) \in Nat
    BY <2>2
  <2>6. /\ Len(args) + Len(more) <= P + AddedMax("fp32")
        /\ "FLOAT_ABI" \notin macros => Len(args) + Len(more) <= P
    BY <2>2, <2>3, <2>4, <2>5, Lengths
  <2> QED BY <2>1, <2>2, <2>6, AddKeeps, Zenon DEF Collecting
<1>2. CASE Fp32Mode
  <2> DEFINE more == IF "FP32_MODE" \in macros /\ ~SoftFloat THEN <<Arg("-mfp")>> ELSE <<>>
  <2>1. Add("fp32", "arch", more)
    BY <1>2, Zenon DEF Fp32Mode
  <2>2. more \in Seq(Words) /\ Len(more) <= 1 /\ ("FP32_MODE" \notin macros => Len(more) = 0)
    BY Fp32Short, Zenon
  <2> HIDE DEF more
  <2>3. "FLOAT_ABI" \notin macros \/ "FP32_MODE" \notin macros
    BY BuildAssumption DEF IInv, Exclusive
  <2>4. /\ Len(args) <= P + AddedMax("fp32")
        /\ "FLOAT_ABI" \notin macros => Len(args) <= P
    BY <2>1, Zenon DEF Add, IInv, Collecting
  <2>5. AddedMax("fp32") = 1 /\ AddedMax("arch") = 1
    BY DEF AddedMax
  <2>6. Len(more) \in Nat
    BY <2>2
  <2>7. Len(args) + Len(more) <= P + AddedMax("arch")
    BY <2>2, <2>3, <2>4, <2>5, <2>6, Lengths
  <2>8. "arch" \in Collecting /\ "arch" # "fp32"
    BY DEF Collecting
  <2> QED BY <2>1, <2>2, <2>7, <2>8, AddKeeps, Zenon
<1>3. CASE Architecture
  <2>1. PICK more \in Seq(Words) : Add("arch", "dates", more) /\ Len(more) <= 2
    BY <1>3, ArchitectureShort, Zenon DEF Architecture
  <2>2. AddedMax("arch") + 2 <= AddedMax("dates")
    BY DEF AddedMax
  <2> QED BY <2>1, <2>2, CountedKeeps DEF Collecting
<1>4. CASE Dates
  <2>1. PICK more \in Seq(Words) : Add("dates", "pie", more) /\ Len(more) <= 3
    BY <1>4, DatesShort, Zenon DEF Dates
  <2>2. AddedMax("dates") + 3 <= AddedMax("pie")
    BY DEF AddedMax
  <2> QED BY <2>1, <2>2, CountedKeeps DEF Collecting
<1>5. CASE PositionIndependent
  <2>1. PICK more \in Seq(Words) : Add("pie", "relro", more) /\ Len(more) <= 2
    BY <1>5, PieShort, Zenon DEF PositionIndependent
  <2>2. AddedMax("pie") + 2 <= AddedMax("relro")
    BY DEF AddedMax
  <2> QED BY <2>1, <2>2, CountedKeeps DEF Collecting
<1>6. CASE Relro
  <2>1. /\ Add("relro", "paths", RelroArgs)
        /\ RelroArgs \in Seq(Words) /\ Len(RelroArgs) <= 2
    BY <1>6, RelroShort, Zenon DEF Relro, RelroArgs, IInv
  <2>2. AddedMax("relro") + 2 <= AddedMax("paths")
    BY DEF AddedMax
  <2> QED BY <2>1, <2>2, CountedKeeps DEF Collecting
<1> QED BY <1>1, <1>2, <1>3, <1>4, <1>5, <1>6

LEMMA PathsFitKeeps == ASSUME IInv, PathsFit PROVE IInv'
<1>1. Add("start", "floatabi", Predefined(macros)) /\ args = <<>>
  BY DEF PathsFit, IInv, Add
<1>2. AddedMax("floatabi") = 0 /\ Len(args) = 0
  BY <1>1 DEF AddedMax
<1>3. Len(args) + Len(Predefined(macros)) <= P + AddedMax("floatabi")
  BY <1>2, Lengths DEF P
<1>4. "floatabi" \in Collecting /\ "floatabi" # "fp32"
  BY DEF Collecting
<1> QED BY <1>1, <1>3, <1>4, PredefinedIsWords, AddKeeps, Zenon

LEMMA ForwardKeeps == ASSUME IInv, Forward PROVE IInv'
<1>1. /\ pc = "paths" /\ pc' = "exec" /\ macros' = macros /\ argv' = argv
      /\ args' = (args \o argv) \o <<Arg("NULL")>>
  BY DEF Forward, given
<1>2. argv \in Seq(Words)
  BY Wider DEF IInv
<1>3. args \o argv \in Seq(Words) /\ Len(args \o argv) = Len(args) + Len(argv)
  BY <1>2, Appended DEF IInv
<1>4. <<Arg("NULL")>> \in Seq(Words) /\ Len(<<Arg("NULL")>>) = 1
  BY DEF Words, Added
<1>5. args' \in Seq(Words) /\ Len(args') = (Len(args) + Len(argv)) + 1
  <2>1. /\ (args \o argv) \o <<Arg("NULL")>> \in Seq(Words)
        /\ Len((args \o argv) \o <<Arg("NULL")>>) = Len(args \o argv) + Len(<<Arg("NULL")>>)
    BY <1>3, <1>4, Appended, Zenon
  <2> QED BY <1>1, <1>3, <1>4, <2>1, Zenon
<1>6. Len(args) <= P + AddedMax("paths") /\ AddedMax("paths") = 10
  <2>1. pc \in Collecting
    BY <1>1 DEF Collecting
  <2>2. Len(args) <= P + AddedMax("paths")
    BY <1>1, <2>1, Zenon DEF IInv
  <2>3. AddedMax("paths") = 10
    BY DEF AddedMax
  <2> QED BY <2>2, <2>3
<1>7. FitsBuffer'
  <2>1. Allocated' = P + (Len(argv) + 1) + 10
    BY <1>1 DEF Allocated, P, EXCLUSIVE_ARGS
  <2> QED BY <1>5, <1>6, <2>1, Lengths DEF FitsBuffer
<1> QED BY <1>1, <1>5, <1>7 DEF IInv, Places, Collecting

LEMMA OthersKeep ==
    ASSUME IInv, PathTooLong \/ EpochInvalid \/ Check \/ Execute \/ UNCHANGED vars
    PROVE  IInv'
<1>1. /\ macros' = macros /\ argv' = argv /\ args' = args
      /\ pc' = pc \/ pc' \in {"failed", "done"}
  BY DEF PathTooLong, EpochInvalid, Check, NextArgument, OtherOption, PathInArgument,
     PathBehind, Report, Execute, vars, given
<1>2. P' = P /\ Allocated' = Allocated
  BY <1>1 DEF P, Allocated
<1>3. FitsBuffer'
  BY <1>1, <1>2 DEF IInv, FitsBuffer
<1>4. CASE pc' = pc
  BY <1>1, <1>2, <1>3, <1>4 DEF IInv
<1>5. CASE pc' \in {"failed", "done"}
  <2>1. pc' \in Places /\ pc' \notin Collecting /\ pc' # "start" /\ pc' # "fp32"
    BY <1>5 DEF Places, Collecting
  <2> QED BY <1>1, <1>2, <1>3, <2>1 DEF IInv
<1> QED BY <1>1, <1>4, <1>5

\* The list of arguments never outgrows its buffer, however the wrapper was configured
\* and whatever it is called with (toolchain-wrapper.c:57, 333-334).
THEOREM BufferIsLargeEnough == Spec => []FitsBuffer
<1>1. Init => IInv
  BY InitHolds
<1>2. IInv /\ [Next]_vars => IInv'
  BY ConditionalArgsKeep, PathsFitKeeps, ForwardKeeps, OthersKeep DEF Next, Collect
<1>3. IInv => FitsBuffer
  BY DEF IInv
<1> QED BY <1>1, <1>2, <1>3, PTL DEF Spec

-----------------------------------------------------------------------------
(***************************************************************************)
(* The check for unsafe paths                                              *)
(***************************************************************************)

\* No option stands right behind one that wants its path (see UnsafeReported).
PathsInPlace == \A k \in DOMAIN argv : Behind(k) => argv[k].opt \notin Options

\* One of the options before position o of the table is the one of argument k.
Tried(k, o) == \E j \in 1 .. o - 1 : UnsafeOpts[j] = argv[k].opt

\* How far the two loops are: the arguments before i are judged; i itself is as soon as
\* its option was tried, unless it is the path of the argument before it, which judged
\* it.  The inner loop goes past an option without a path only by moving to the path.
Judged ==
    /\ \A k \in 1 .. i - 1 : k \in reported <=> k \in Unsafe
    /\ \A k \in reported : k <= i
    /\ i <= Len(argv) =>
          /\ i \in reported <=> i \in Unsafe /\ (Behind(i) \/ Tried(i, opt))
          /\ Behind(i) \/ (Tried(i, opt) => argv[i].path # "none")

LoopInv ==
    /\ argv \in Seq(Arguments)
    /\ i \in 1 .. Len(argv) + 1 /\ opt \in 1 .. Len(UnsafeOpts) + 1
    /\ reported \subseteq 1 .. Len(argv) /\ (PathsInPlace => Judged)
    /\ env.paranoid /\ pc # "failed" => reported = {}
    /\ pc \notin {"paths", "exec", "done", "failed"} => i = 1 /\ opt = 1
    /\ pc \in {"exec", "done"} => i = Len(argv) + 1

\* Argument k is a record of an option and a path.
LEMMA ArgumentIs ==
    ASSUME argv \in Seq(Arguments), NEW k \in DOMAIN argv
    PROVE  /\ k \in 1 .. Len(argv)
           /\ argv[k] \in [opt : STRING, path : {"none", "safe", "unsafe"}]
BY ArgumentAssumption

\* The whole table tries every option.
LEMMA AllTried ==
    ASSUME NEW k, argv[k].opt \in Options
    PROVE  Tried(k, Len(UnsafeOpts) + 1)
<1>1. PICK j \in DOMAIN UnsafeOpts : UnsafeOpts[j] = argv[k].opt
  BY DEF Options
<1>2. j \in 1 .. (Len(UnsafeOpts) + 1) - 1
  BY BuildAssumption
<1> QED BY <1>1, <1>2 DEF Tried

LEMMA TriedNext ==
    ASSUME NEW k, NEW o \in Nat \ {0}
    PROVE  Tried(k, o + 1) <=> Tried(k, o) \/ UnsafeOpts[o] = argv[k].opt
<1>1. 1 .. (o + 1) - 1 = (1 .. o - 1) \union {o}
  OBVIOUS
<1> QED BY <1>1 DEF Tried

LEMMA NoneTried == ASSUME NEW k PROVE ~Tried(k, 1)
BY DEF Tried

LEMMA TriedIsOption ==
    ASSUME NEW o \in 1 .. Len(UnsafeOpts), NEW k, argv[k].opt = UnsafeOpts[o]
    PROVE  argv[k].opt \in Options
BY BuildAssumption DEF Options

\* The steps of the loops that keep Judged, each for the argument at i.
LEMMA NextArgumentJudges ==
    ASSUME LoopInv, PathsInPlace, NextArgument
    PROVE  Judged'
<1>1. /\ i \in 1 .. Len(argv) /\ i \in DOMAIN argv /\ opt = Len(UnsafeOpts) + 1
      /\ i' = i + 1 /\ opt' = 1 /\ reported' = reported /\ argv' = argv
  BY BuildAssumption DEF LoopInv, NextArgument, Checking, given
<1>2. Judged
  BY DEF LoopInv
<1>3. i \in reported <=> i \in Unsafe
  <2>1. i \in Unsafe /\ ~Behind(i) => Tried(i, opt)
    BY <1>1, AllTried DEF Unsafe
  <2> QED BY <1>1, <1>2, <2>1 DEF Judged
<1>4. ~Behind(i + 1)
  <2>1. ~Bare(i)
    <3>1. CASE Behind(i)
      BY <1>1, <3>1 DEF PathsInPlace, Bare
    <3>2. CASE ~Behind(i)
      BY <1>1, <1>2, <3>2, AllTried DEF Judged, Bare
    <3> QED BY <3>1, <3>2
  <2> QED BY <1>1, <2>1 DEF Behind
<1>5. /\ Unsafe' = Unsafe /\ (Behind(i))' = Behind(i + 1)
      /\ (Tried(i, opt))' = Tried(i + 1, 1)
  BY <1>1 DEF Behind, Bare, Tried, Unsafe
<1>6. \A k \in 1 .. i' - 1 : k \in reported' <=> k \in Unsafe'
  BY <1>1, <1>2, <1>3, <1>5 DEF Judged
<1>7. \A k \in reported' : k <= i' /\ k # i'
  BY <1>1, <1>2 DEF Judged, LoopInv
<1>8. ~(Behind(i))' /\ ~(Tried(i, opt))'
  BY <1>1, <1>4, <1>5, NoneTried
<1> QED BY <1>6, <1>7, <1>8 DEF Judged

LEMMA OtherOptionJudges ==
    ASSUME LoopInv, PathsInPlace, OtherOption
    PROVE  Judged'
<1>1. /\ i \in 1 .. Len(argv) /\ opt \in Nat \ {0} /\ UnsafeOpts[opt] # argv[i].opt
      /\ i' = i /\ opt' = opt + 1 /\ reported' = reported /\ argv' = argv
  BY DEF LoopInv, OtherOption, Checking, given
<1>2. Judged
  BY DEF LoopInv
<1>3. Unsafe' = Unsafe /\ (Behind(i))' = Behind(i) /\ (Tried(i, opt))' = Tried(i, opt)
  <2>1. Tried(i, opt + 1) = Tried(i, opt)
    BY <1>1, TriedNext DEF Tried
  <2> QED BY <1>1, <2>1 DEF Behind, Bare, Tried, Unsafe
<1> QED BY <1>1, <1>2, <1>3 DEF Judged

LEMMA PathInArgumentJudges ==
    ASSUME LoopInv, PathsInPlace, PathInArgument
    PROVE  Judged'
<1>1. /\ i \in 1 .. Len(argv) /\ i \in DOMAIN argv
      /\ opt \in Nat \ {0} /\ opt \in 1 .. Len(UnsafeOpts)
      /\ argv[i].opt = UnsafeOpts[opt] /\ argv[i].path # "none"
      /\ i' = i /\ opt' = opt + 1 /\ argv' = argv
      /\ reported' = IF argv[i].path = "unsafe" THEN reported \union {i} ELSE reported
  BY BuildAssumption DEF LoopInv, PathInArgument, Checking, Report, given
<1>2. Judged
  BY DEF LoopInv
<1>3. argv[i].opt \in Options /\ ~Behind(i) /\ Tried(i, opt + 1)
  BY <1>1, TriedIsOption, TriedNext DEF PathsInPlace
<1>4. Unsafe' = Unsafe /\ ~(Behind(i))' /\ (Tried(i, opt))'
  BY <1>1, <1>3 DEF Behind, Bare, Tried, Unsafe
<1>5. i \in Unsafe <=> argv[i].path = "unsafe"
  BY <1>1, <1>3 DEF Unsafe
<1>6. i \in reported' <=> i \in Unsafe
  BY <1>1, <1>2, <1>5 DEF Judged
<1>7. \A k \in 1 .. i - 1 : k \in reported' <=> k \in reported
  BY <1>1
<1> QED BY <1>1, <1>2, <1>4, <1>6, <1>7 DEF Judged

LEMMA PathBehindJudges ==
    ASSUME LoopInv, PathsInPlace, PathBehind
    PROVE  Judged'
<1>1. /\ i \in 1 .. Len(argv) /\ i \in DOMAIN argv
      /\ opt \in Nat \ {0} /\ opt \in 1 .. Len(UnsafeOpts)
      /\ argv[i].opt = UnsafeOpts[opt] /\ argv[i].path = "none"
      /\ i' = i + 1 /\ opt' = opt + 1 /\ argv' = argv
      /\ Len(argv) \in Nat /\ reported \subseteq 1 .. Len(argv)
  BY BuildAssumption DEF LoopInv, PathBehind, Checking, given
<1>2. Judged
  BY DEF LoopInv
<1>3. argv[i].opt \in Options /\ ~Behind(i) /\ Bare(i)
  BY <1>1, TriedIsOption DEF PathsInPlace, Bare
<1>4. Behind(i + 1)
  BY <1>1, <1>3 DEF Behind
<1>5. Unsafe' = Unsafe /\ (Behind(i))'
  BY <1>1, <1>4 DEF Behind, Bare, Unsafe
<1>6. i \notin Unsafe /\ i \notin reported
  BY <1>1, <1>2, <1>3 DEF Judged, Unsafe
<1>7. \A k \in reported : k < i
  BY <1>2, <1>6, <1>1 DEF Judged, LoopInv
<1>8. CASE i = Len(argv)
  <2>1. reported' = reported
    BY <1>8 DEF PathBehind
  <2>2. \A k \in 1 .. i' - 1 : k \in reported' <=> k \in Unsafe'
    BY <1>1, <1>2, <1>5, <1>6, <2>1 DEF Judged
  <2>3. \A k \in reported' : k <= i'
    BY <1>1, <1>7, <2>1
  <2>4. ~(i' <= Len(argv'))
    BY <1>1, <1>8
  <2> QED BY <2>2, <2>3, <2>4 DEF Judged
<1>9. CASE i # Len(argv)
  <2>1. i + 1 \in DOMAIN argv
    BY <1>1, <1>9 DEF LoopInv
  <2>2. reported' = IF argv[i + 1] = [opt |-> "arg", path |-> "unsafe"]
                    THEN reported \union {i + 1} ELSE reported
    BY <1>9 DEF PathBehind, Report
  <2>3. i + 1 \in Unsafe <=> argv[i + 1] = [opt |-> "arg", path |-> "unsafe"]
    <3>1. i + 1 \in Unsafe <=> argv[i + 1].opt = "arg" /\ argv[i + 1].path = "unsafe"
      BY <1>4, <2>1 DEF Unsafe
    <3>2. argv[i + 1] \in [opt : STRING, path : {"none", "safe", "unsafe"}]
      BY <2>1, ArgumentIs DEF LoopInv
    <3> QED BY <3>1, <3>2
  <2>4. i + 1 \in reported' <=> i + 1 \in Unsafe
    BY <1>1, <1>7, <2>2, <2>3
  <2>5. \A k \in 1 .. i : k \in reported' <=> k \in Unsafe
    BY <1>1, <1>2, <1>6, <2>2 DEF Judged
  <2>6. \A k \in reported' : k <= i + 1
    BY <1>1, <1>7, <2>2
  <2> QED BY <1>1, <1>5, <2>4, <2>5, <2>6 DEF Judged
<1> QED BY <1>8, <1>9

LEMMA LoopInit == Init => LoopInv
<1> SUFFICES ASSUME Init PROVE LoopInv
  OBVIOUS
<1>1. argv \in Seq(Arguments)
  <2>1. PICK n \in 0 .. MaxArgs : argv \in [1 .. n -> Arguments]
    BY DEF Init
  <2>2. n \in Nat
    BY BuildAssumption
  <2> QED BY <2>1, <2>2
<1>2. /\ pc = "start" /\ i = 1 /\ opt = 1 /\ reported = {}
      /\ i \in 1 .. Len(argv) + 1 /\ opt \in 1 .. Len(UnsafeOpts) + 1
  BY <1>1, BuildAssumption DEF Init
<1>3. ~Behind(1)
  BY DEF Behind
<1>4. Judged
  BY <1>2, <1>3, NoneTried DEF Judged
<1> QED BY <1>1, <1>2, <1>4 DEF LoopInv

LEMMA LoopKeeps ==
    ASSUME LoopInv, [Next]_vars
    PROVE  LoopInv'
<1>1. argv' = argv /\ env' = env /\ PathsInPlace' = PathsInPlace
  BY DEF Next, Collect, PathsFit, PathTooLong, FloatAbi, Fp32Mode, Architecture, Dates,
     EpochInvalid, PositionIndependent, Relro, Add, Check, NextArgument, OtherOption,
     PathInArgument, PathBehind, Forward, Execute, given, vars, PathsInPlace, Behind, Bare
<1>2. CASE Check
  <2>1. PathsInPlace => Judged'
    BY <1>2, NextArgumentJudges, OtherOptionJudges, PathInArgumentJudges, PathBehindJudges
    DEF Check
  <2>2. i' \in 1 .. Len(argv) + 1 /\ opt' \in 1 .. Len(UnsafeOpts) + 1
    BY <1>2, BuildAssumption
    DEF LoopInv, Check, NextArgument, OtherOption, PathInArgument, PathBehind, Checking
  <2>3. env.paranoid /\ pc' # "failed" => reported' = {}
    BY <1>2
    DEF LoopInv, Check, NextArgument, OtherOption, PathInArgument, PathBehind, Checking, Report
  <2>5. reported' \subseteq 1 .. Len(argv)
    <3>1. i \in 1 .. Len(argv) /\ (i # Len(argv) => i + 1 \in 1 .. Len(argv))
      BY <1>2
      DEF LoopInv, Check, NextArgument, OtherOption, PathInArgument, PathBehind, Checking
    <3>2. /\ reported' \subseteq reported \union {i, i + 1}
          /\ i = Len(argv) => reported' \subseteq reported \union {i}
      BY <1>2 DEF Check, NextArgument, OtherOption, PathInArgument, PathBehind, Report
    <3> QED BY <3>1, <3>2 DEF LoopInv
  <2>4. pc' \in {"paths", "failed"}
    BY <1>2
    DEF Check, NextArgument, OtherOption, PathInArgument, PathBehind, Checking, Report
  <2> QED BY <1>1, <2>1, <2>2, <2>3, <2>4, <2>5 DEF LoopInv
<1>3. CASE Collect \/ Forward \/ Execute \/ UNCHANGED vars
  <2>1. i' = i /\ opt' = opt /\ reported' = reported
    BY <1>3 DEF Collect, PathsFit, PathTooLong, FloatAbi, Fp32Mode, Architecture, Dates,
       EpochInvalid, PositionIndependent, Relro, Add, Forward, Execute, loops, vars
  <2>2. Judged' = Judged
    BY <1>1, <2>1 DEF Judged, Unsafe, Behind, Bare, Tried
  <2>3. /\ pc' # "failed" => pc # "failed"
        /\ pc' \notin {"paths", "exec", "done", "failed"} =>
              pc \notin {"paths", "exec", "done", "failed"}
        /\ pc' \in {"exec", "done"} => pc \in {"exec", "done"} \/ (pc = "paths" /\ i > Len(argv))
    BY <1>3 DEF Collect, PathsFit, PathTooLong, FloatAbi, Fp32Mode, Architecture, Dates,
       EpochInvalid, PositionIndependent, Relro, Add, Forward, Execute, vars
  <2>4. i > Len(argv) => i = Len(argv) + 1
    BY DEF LoopInv
  <2> QED BY <1>1, <2>1, <2>2, <2>3, <2>4 DEF LoopInv
<1> QED BY <1>2, <1>3 DEF Next

\* Every path of the build machine that the compiler will search is reported, nothing
\* else is, and the paranoid wrapper does not run the compiler on one, for every table of
\* unsafe options and every command line whose paths are where the options want them.
THEOREM UnsafePathsAreReported == Spec => []UnsafeReported
<1>1. LoopInv => UnsafeReported
  <2> SUFFICES ASSUME LoopInv, pc = "done", PathsInPlace
               PROVE  reported = Unsafe /\ (env.paranoid => Unsafe = {})
    BY DEF UnsafeReported, PathsInPlace
  <2>1. i = Len(argv) + 1 /\ Judged /\ (env.paranoid => reported = {})
    BY DEF LoopInv
  <2>2. Unsafe \subseteq 1 .. Len(argv)
    BY DEF Unsafe, LoopInv
  <2>3. reported \subseteq 1 .. Len(argv)
    BY DEF LoopInv
  <2>4. \A k \in 1 .. Len(argv) : k \in reported <=> k \in Unsafe
    BY <2>1 DEF Judged, LoopInv
  <2> QED BY <2>1, <2>2, <2>3, <2>4
<1> QED BY <1>1, LoopInit, LoopKeeps, PTL DEF Spec

-----------------------------------------------------------------------------
(***************************************************************************)
(* The command agrees with the command line                                *)
(***************************************************************************)

\* The caller's words do not forbid the wrapper to add o.
Allowed(o) ==
    /\ o = "-pie" => ~Given({"-shared", "-static", "-D__KERNEL__"})
    /\ o = "-fPIE" => ~Given({"-fPIC", "-static", "-D__KERNEL__"})
    /\ o = "-Wl,-z,relro" => ~Given({"-D__KERNEL__"})
    /\ o = "-march=" => ~Given({"-march="})
    /\ o = "-mfloat-abi=" => ~Given({"-mfloat-abi=", "-msoft-float", "-mhard-float"})
    /\ o = "-mfp" => ~LastFloat("-msoft-float")

Fit == {a \in Added : Allowed(a.opt)}

\* The compiler, perhaps behind ccache.
Runs(s) ==
    IF "CCACHE" \in macros THEN Len(s) >= 2 /\ s[1] = Arg("ccache") /\ s[2] = Arg("gcc")
    ELSE Len(s) >= 1 /\ s[1] = Arg("gcc")

FloatModeDue == LastFloat("-mhard-float") /\ "FP32_MODE" \in macros
FloatModeIn(s) == \E k \in 1 .. Len(s) : s[k].opt = "-mfp"

\* What is collected before the command line is appended.
Prefix(s) == s \in Seq(Fit) /\ Runs(s)

AgreeInv ==
    /\ argv \in Seq(Arguments)
    /\ pc = "start" => args = <<>>
    /\ pc \in Collecting => Prefix(args)
    /\ pc \in Collecting \ {"floatabi", "fp32"} /\ FloatModeDue => FloatModeIn(args)
    /\ pc = "exec" =>
          \E pre \in Seq(Fit) : /\ args = (pre \o argv) \o <<Arg("NULL")>>
                                /\ Prefix(pre) /\ (FloatModeDue => FloatModeIn(pre))
    /\ CommandAgrees

\* The last word about the floating-point mode is one or the other.
LEMMA HardIsNotSoft ==
    ASSUME argv \in Seq(Arguments), LastFloat("-mhard-float")
    PROVE  ~SoftFloat
<1> SUFFICES ASSUME SoftFloat PROVE FALSE
  OBVIOUS
<1>1. PICK h \in DOMAIN argv :
         /\ argv[h].opt = "-mhard-float"
         /\ \A j \in DOMAIN argv : j > h => argv[j].opt \notin {"-msoft-float", "-mhard-float"}
  BY DEF LastFloat
<1>2. PICK s \in DOMAIN argv :
         /\ argv[s].opt = "-msoft-float"
         /\ \A j \in s + 1 .. Len(argv) : argv[j].opt # "-mhard-float"
  BY DEF SoftFloat
<1>3. h \in 1 .. Len(argv) /\ s \in 1 .. Len(argv) /\ s # h
  BY <1>1, <1>2
<1>4. CASE s > h
  BY <1>1, <1>2, <1>4
<1>5. CASE h > s
  BY <1>1, <1>2, <1>3, <1>5
<1> QED BY <1>3, <1>4, <1>5

LEMMA SoftIsLast ==
    ASSUME argv \in Seq(Arguments), LastFloat("-msoft-float")
    PROVE  SoftFloat
<1>1. PICK s \in DOMAIN argv :
         /\ argv[s].opt = "-msoft-float"
         /\ \A j \in DOMAIN argv : j > s => argv[j].opt \notin {"-msoft-float", "-mhard-float"}
  BY DEF LastFloat
<1>2. \A j \in s + 1 .. Len(argv) : j \in DOMAIN argv /\ j > s
  BY <1>1
<1> QED BY <1>1, <1>2 DEF SoftFloat

-----------------------------------------------------------------------------
(***************************************************************************)
(* What each part adds is allowed                                          *)
(***************************************************************************)

LEMMA OneFits ==
    ASSUME NEW o, Arg(o) \in Added, Allowed(o)
    PROVE  <<Arg(o)>> \in Seq(Fit) /\ Arg(o) \in Fit
<1>1. Arg(o).opt = o
  BY DEF Arg
<1>2. Arg(o) \in Fit
  BY <1>1 DEF Fit
<1> QED BY <1>2

LEMMA TwoIn ==
    ASSUME NEW S, NEW x \in S, NEW y \in S
    PROVE  <<x>> \in Seq(S) /\ <<x, y>> \in Seq(S)
OBVIOUS

\* Elements of a concatenation.
LEMMA Concat ==
    ASSUME NEW S, NEW s \in Seq(S), NEW t \in Seq(S)
    PROVE  /\ s \o t \in Seq(S) /\ Len(s \o t) = Len(s) + Len(t)
           /\ \A k \in 1 .. Len(s) : (s \o t)[k] = s[k]
           /\ \A k \in 1 .. Len(t) : (s \o t)[Len(s) + k] = t[k]
OBVIOUS

\* What comes behind does not change how the list begins.
LEMMA RunsOn ==
    ASSUME NEW S, NEW s \in Seq(S), NEW t \in Seq(S), Runs(s)
    PROVE  Runs(s \o t)
<1>1. /\ Len(s) \in Nat /\ Len(t) \in Nat /\ Len(s \o t) = Len(s) + Len(t)
      /\ \A k \in 1 .. Len(s) : (s \o t)[k] = s[k]
  BY Concat
<1> QED BY <1>1 DEF Runs

\* The beginning of predef_args.
LEMMA RunsFirst ==
    ASSUME NEW S, NEW a \in Seq(S), NEW b \in Seq(S), Len(b) >= 1, b[1] = Arg("gcc"),
           "CCACHE" \in macros => Len(a) = 1 /\ a[1] = Arg("ccache"),
           "CCACHE" \notin macros => Len(a) = 0
    PROVE  Runs(a \o b)
<1>1. /\ Len(a) \in Nat /\ Len(b) \in Nat /\ Len(a \o b) = Len(a) + Len(b)
      /\ \A k \in 1 .. Len(a) : (a \o b)[k] = a[k]
      /\ \A k \in 1 .. Len(b) : (a \o b)[Len(a) + k] = b[k]
  BY Concat
<1>2. CASE "CCACHE" \in macros
  <2>0. Len(a) = 1 /\ a[1] = Arg("ccache")
    BY <1>2
  <2>1. 1 \in 1 .. Len(a) /\ 1 \in 1 .. Len(b) /\ Len(a) + 1 = 2 /\ Len(a \o b) >= 2
    BY <1>1, <2>0
  <2>2. (a \o b)[1] = a[1] /\ (a \o b)[2] = b[1]
    <3>1. (a \o b)[1] = a[1]
      BY <1>1, <2>1
    <3>2. (a \o b)[Len(a) + 1] = b[1]
      BY <1>1, <2>1
    <3> QED BY <2>1, <3>1, <3>2
  <2> QED BY <1>2, <2>0, <2>1, <2>2 DEF Runs
<1>3. CASE "CCACHE" \notin macros
  <2>1. 1 \in 1 .. Len(b) /\ Len(a) + 1 = 1 /\ Len(a \o b) >= 1
    BY <1>1, <1>3
  <2>2. (a \o b)[Len(a) + 1] = b[1]
    BY <1>1, <2>1
  <2> QED BY <1>3, <2>1, <2>2 DEF Runs
<1> QED BY <1>2, <1>3

LEMMA NothingFits == <<>> \in Seq(Fit)
OBVIOUS

\* Main decides on none of the predefined options: the caller's words do not forbid them.
LEMMA TargetWordsFit == \A o \in TargetWords : Arg(o) \in Fit
<1> TAKE o \in TargetWords
<1>1. Allowed(o)
  BY DEF Allowed, TargetWords
<1>2. Arg(o) \in Added
  BY DEF Added
<1> QED BY <1>1, <1>2 DEF Fit, Arg

LEMMA PredefinedFits ==
    Predefined(macros) \in Seq(Fit) /\ Runs(Predefined(macros))
<1> DEFINE a == IfDefined(macros, {"CCACHE"}, "ccache")
           b == <<Arg("gcc"), Arg("--sysroot"), Arg("sysroot")>>
           c == TargetOptions(macros)
<1>1. \A o \in {"ccache", "gcc", "--sysroot", "sysroot"} : Arg(o) \in Fit
  BY DEF Fit, Added, Allowed, Arg
<1>2. /\ "CCACHE" \in macros => a = <<Arg("ccache")>>
      /\ "CCACHE" \notin macros => a = <<>>
  <2>1. macros \cap {"CCACHE"} # {} <=> "CCACHE" \in macros
    OBVIOUS
  <2> QED BY <2>1, Zenon DEF IfDefined
<1>3. b \in Seq(Fit) /\ Len(b) = 3 /\ b[1] = Arg("gcc")
  BY <1>1
<1>4. Predefined(macros) = (a \o b) \o c
  BY DEF Predefined
<1>5. c \in Seq(Fit)
  BY TargetWordsFit, TargetOptionsIn
<1> HIDE DEF a, b, c
<1>6. /\ a \in Seq(Fit)
      /\ "CCACHE" \in macros => Len(a) = 1 /\ a[1] = Arg("ccache")
      /\ "CCACHE" \notin macros => Len(a) = 0
  <2> DEFINE w == Arg("ccache")
  <2>1. w \in Fit
    BY <1>1
  <2> HIDE DEF w
  <2>2. <<w>> \in Seq(Fit) /\ Len(<<w>>) = 1 /\ <<w>>[1] = w
    BY <2>1
  <2>3. CASE "CCACHE" \in macros
    BY <1>2, <2>2, <2>3, Zenon DEF w
  <2>4. CASE "CCACHE" \notin macros
    BY <1>2, <2>4
  <2> QED BY <2>3, <2>4
<1>7. a \o b \in Seq(Fit) /\ (a \o b) \o c \in Seq(Fit)
  BY <1>3, <1>5, <1>6, Appended
<1>8. Runs(a \o b)
  <2>1. Len(b) >= 1 /\ b[1] = Arg("gcc")
    BY <1>3
  <2> QED BY <1>3, <1>6, <2>1, RunsFirst
<1> QED BY <1>4, <1>5, <1>7, <1>8, RunsOn

LEMMA FloatAbiFits ==
    ASSUME NEW more,
           more = IF "FLOAT_ABI" \in macros /\ ~Given({"-mfloat-abi=", "-msoft-float", "-mhard-float"})
                  THEN <<Arg("-mfloat-abi=")>> ELSE <<>>
    PROVE  more \in Seq(Fit)
<1>1. CASE more = <<>>
  BY <1>1, NothingFits
<1>2. CASE more # <<>>
  <2>1. /\ more = <<Arg("-mfloat-abi=")>>
        /\ ~Given({"-mfloat-abi=", "-msoft-float", "-mhard-float"})
    BY <1>2, Zenon
  <2>2. Allowed("-mfloat-abi=") /\ Arg("-mfloat-abi=") \in Added
    BY <2>1 DEF Allowed, Added
  <2> QED BY <2>1, <2>2, OneFits
<1> QED BY <1>1, <1>2

LEMMA Fp32Fits ==
    ASSUME argv \in Seq(Arguments), NEW more,
           more = IF "FP32_MODE" \in macros /\ ~SoftFloat THEN <<Arg("-mfp")>> ELSE <<>>
    PROVE  more \in Seq(Fit) /\ (FloatModeDue => FloatModeIn(more))
<1>1. CASE more = <<>>
  <2>1. <<Arg("-mfp")>> # <<>>
    OBVIOUS
  <2>2. ~("FP32_MODE" \in macros /\ ~SoftFloat)
    BY <1>1, <2>1, Zenon
  <2>3. ~FloatModeDue
    BY <2>2, HardIsNotSoft DEF FloatModeDue
  <2> QED BY <1>1, <2>3, NothingFits
<1>2. CASE more # <<>>
  <2>1. more = <<Arg("-mfp")>> /\ ~SoftFloat
    BY <1>2, Zenon
  <2>2. Allowed("-mfp") /\ Arg("-mfp") \in Added
    BY <2>1, SoftIsLast DEF Allowed, Added
  <2>3. Len(more) = 1 /\ more[1].opt = "-mfp"
    <3>1. Arg("-mfp").opt = "-mfp"
      BY DEF Arg
    <3> QED BY <2>1, <3>1
  <2>4. FloatModeIn(more)
    BY <2>3 DEF FloatModeIn
  <2> QED BY <2>1, <2>2, <2>4, OneFits
<1> QED BY <1>1, <1>2

LEMMA ArchitectureFits ==
    ASSUME NEW more,
           more = IF Given({"-march="}) THEN <<>>
                  ELSE (IF "ARCH" \in macros THEN <<Arg("-march=")>> ELSE <<>>)
                       \o (IF "CPU" \in macros THEN <<Arg("-march=")>> ELSE <<>>)
    PROVE  more \in Seq(Fit)
<1> DEFINE a == IF "ARCH" \in macros THEN <<Arg("-march=")>> ELSE <<>>
           b == IF "CPU" \in macros THEN <<Arg("-march=")>> ELSE <<>>
<1>1. CASE Given({"-march="})
  BY <1>1, NothingFits, Zenon
<1>2. CASE ~Given({"-march="})
  <2>1. <<Arg("-march=")>> \in Seq(Fit)
    <3>1. Allowed("-march=") /\ Arg("-march=") \in Added
      BY <1>2 DEF Allowed, Added
    <3> QED BY <3>1, OneFits
  <2>2. a \in Seq(Fit) /\ b \in Seq(Fit)
    BY <2>1, NothingFits, Zenon
  <2>3. more = a \o b
    BY <1>2, Zenon
  <2> HIDE DEF a, b
  <2> QED BY <2>2, <2>3, Appended
<1> QED BY <1>1, <1>2

LEMMA DatesFit ==
    ASSUME NEW more,
           more = IF EpochRead /\ env.epoch = "valid"
                  THEN <<Arg("-D__TIME__"), Arg("-D__DATE__"), Arg("-Wno-builtin-macro-redefined")>>
                  ELSE <<>>
    PROVE  more \in Seq(Fit)
<1> DEFINE three == <<Arg("-D__TIME__"), Arg("-D__DATE__"), Arg("-Wno-builtin-macro-redefined")>>
<1>1. \A o \in {"-D__TIME__", "-D__DATE__", "-Wno-builtin-macro-redefined"} : Arg(o) \in Fit
  BY DEF Fit, Added, Allowed, Arg
<1>2. three \in Seq(Fit)
  BY <1>1
<1>3. more = three \/ more = <<>>
  BY Zenon
<1> HIDE DEF three
<1> QED BY <1>2, <1>3, NothingFits, Zenon

LEMMA PieFits == Pie \in Seq(Fit)
<1> DEFINE a == IF Given({"-fPIC"}) THEN <<>> ELSE <<Arg("-fPIE")>>
           b == IF Given({"-shared"}) THEN <<>> ELSE <<Arg("-pie")>>
<1>1. CASE Given({"-static", "-D__KERNEL__"}) \/ "PIC_PIE" \notin macros
  BY <1>1, NothingFits, Zenon DEF Pie
<1>2. CASE ~(Given({"-static", "-D__KERNEL__"}) \/ "PIC_PIE" \notin macros)
  <2>1. a \in Seq(Fit)
    <3>1. CASE Given({"-fPIC"})
      BY <3>1, NothingFits, Zenon
    <3>2. CASE ~Given({"-fPIC"})
      <4>1. Allowed("-fPIE") /\ Arg("-fPIE") \in Added
        BY <1>2, <3>2 DEF Allowed, Added, Given
      <4>2. a = <<Arg("-fPIE")>>
        BY <3>2, Zenon
      <4> QED BY <4>1, <4>2, OneFits
    <3> QED BY <3>1, <3>2
  <2>2. b \in Seq(Fit)
    <3>1. CASE Given({"-shared"})
      BY <3>1, NothingFits, Zenon
    <3>2. CASE ~Given({"-shared"})
      <4>1. Allowed("-pie") /\ Arg("-pie") \in Added
        BY <1>2, <3>2 DEF Allowed, Added, Given
      <4>2. b = <<Arg("-pie")>>
        BY <3>2, Zenon
      <4> QED BY <4>1, <4>2, OneFits
    <3> QED BY <3>1, <3>2
  <2>3. Pie = a \o b
    BY <1>2, Zenon DEF Pie
  <2> HIDE DEF a, b
  <2> QED BY <2>1, <2>2, <2>3, Appended
<1> QED BY <1>1, <1>2

LEMMA RelroFits ==
    ASSUME macros \in Builds
    PROVE  RelroArgs \in Seq(Fit)
<1> DEFINE full == <<Arg("-Wl,-z,now"), Arg("-Wl,-z,relro")>>
           partial == <<Arg("-Wl,-z,relro")>>
           none == <<>>
<1>1. CASE Given({"-D__KERNEL__"})
  BY <1>1, NothingFits, Zenon DEF RelroArgs
<1>2. CASE ~Given({"-D__KERNEL__"})
  <2>1. Arg("-Wl,-z,now") \in Fit /\ Arg("-Wl,-z,relro") \in Fit
    BY <1>2 DEF Fit, Added, Allowed, Arg
  <2>2. full \in Seq(Fit) /\ partial \in Seq(Fit) /\ none \in Seq(Fit)
    BY <2>1, TwoIn, NothingFits
  <2>3. RelroArgs = CASE "RELRO_FULL" \in macros -> full
                      [] "RELRO_PARTIAL" \in macros -> partial
                      [] OTHER -> none
    BY <1>2, Zenon DEF RelroArgs
  <2>4. "RELRO_PARTIAL" \notin macros \/ "RELRO_FULL" \notin macros
    BY BuildAssumption DEF Exclusive
  <2> HIDE DEF full, partial, none
  <2>5. RelroArgs = full \/ RelroArgs = partial \/ RelroArgs = none
    BY <2>3, <2>4, Zenon
  <2> QED BY <2>2, <2>5, Zenon
<1> QED BY <1>1, <1>2

-----------------------------------------------------------------------------
(***************************************************************************)
(* The invariant                                                           *)
(***************************************************************************)

\* The words of the caller and the macros do not change.
LEMMA SameWords ==
    ASSUME argv' = argv, macros' = macros
    PROVE  /\ Fit' = Fit /\ FloatModeDue' = FloatModeDue
           /\ \A s : Runs(s)' <=> Runs(s)
BY DEF Fit, Allowed, Given, LastFloat, FloatModeDue, Runs

LEMMA AddAgrees ==
    ASSUME AgreeInv, NEW from \in Collecting, NEW to \in Collecting \ {"floatabi"},
           NEW more \in Seq(Fit), Add(from, to, more),
           FloatModeDue => from \notin {"floatabi", "fp32"} \/ to = "fp32" \/ FloatModeIn(more)
    PROVE  AgreeInv'
<1>1. /\ pc = from /\ pc' = to /\ args' = args \o more /\ argv' = argv /\ macros' = macros
  BY DEF Add, given
<1>2. Prefix(args)
  BY <1>1 DEF AgreeInv
<1>3. args \o more \in Seq(Fit) /\ Runs(args \o more)
  BY <1>2, RunsOn, Appended DEF Prefix
<1>4. FloatModeDue /\ to # "fp32" => FloatModeIn(args \o more)
  <2>1. /\ Len(args) \in Nat /\ Len(more) \in Nat /\ Len(args \o more) = Len(args) + Len(more)
        /\ \A k \in 1 .. Len(args) : (args \o more)[k] = args[k]
        /\ \A k \in 1 .. Len(more) : (args \o more)[Len(args) + k] = more[k]
    BY <1>2, Concat DEF Prefix
  <2>2. ASSUME FloatModeIn(args) PROVE FloatModeIn(args \o more)
    BY <2>1, <2>2 DEF FloatModeIn
  <2>3. ASSUME FloatModeIn(more) PROVE FloatModeIn(args \o more)
    <3>1. PICK k \in 1 .. Len(more) : more[k].opt = "-mfp"
      BY <2>3 DEF FloatModeIn
    <3>2. Len(args) + k \in 1 .. Len(args \o more) /\ (args \o more)[Len(args) + k].opt = "-mfp"
      BY <2>1, <3>1
    <3> QED BY <3>2 DEF FloatModeIn
  <2> QED BY <1>1, <2>2, <2>3 DEF AgreeInv
<1>5. pc' \in Collecting /\ pc' \notin {"start", "exec", "done"}
  BY <1>1 DEF Collecting
<1>6. Prefix(args)'
  BY <1>1, <1>3, SameWords DEF Prefix
<1>7. FloatModeDue' /\ pc' \notin {"floatabi", "fp32"} => FloatModeIn(args)'
  BY <1>1, <1>4, SameWords DEF FloatModeIn
<1> QED BY <1>1, <1>5, <1>6, <1>7 DEF AgreeInv, CommandAgrees

LEMMA CollectAgrees ==
    ASSUME AgreeInv, IInv,
           PathsFit \/ FloatAbi \/ Fp32Mode \/ Architecture \/ Dates \/ PositionIndependent
           \/ Relro
    PROVE  AgreeInv'
<1> USE DEF Collecting
<1>1. CASE PathsFit
  <2>1. /\ args' = args \o Predefined(macros) /\ args = <<>> /\ pc' = "floatabi"
        /\ argv' = argv /\ macros' = macros
    BY <1>1 DEF PathsFit, Add, given, AgreeInv
  <2>2. args' = Predefined(macros)
    BY <2>1, PredefinedFits
  <2>3. Prefix(args)'
    BY <2>1, <2>2, PredefinedFits, SameWords DEF Prefix
  <2> QED BY <2>1, <2>3 DEF AgreeInv, CommandAgrees
<1>2. CASE FloatAbi
  <2>1. PICK more \in Seq(Fit) : Add("floatabi", "fp32", more)
    BY <1>2, FloatAbiFits, Zenon DEF FloatAbi
  <2> QED BY <2>1, AddAgrees
<1>3. CASE Fp32Mode
  <2>1. PICK more \in Seq(Fit) :
           Add("fp32", "arch", more) /\ (FloatModeDue => FloatModeIn(more))
    BY <1>3, Fp32Fits, Zenon DEF Fp32Mode, AgreeInv
  <2> QED BY <2>1, AddAgrees
<1>4. CASE Architecture
  <2>1. PICK more \in Seq(Fit) : Add("arch", "dates", more)
    BY <1>4, ArchitectureFits, Zenon DEF Architecture
  <2> QED BY <2>1, AddAgrees
<1>5. CASE Dates
  <2>1. PICK more \in Seq(Fit) : Add("dates", "pie", more)
    BY <1>5, DatesFit, Zenon DEF Dates
  <2> QED BY <2>1, AddAgrees
<1>6. CASE PositionIndependent
  <2>1. Add("pie", "relro", Pie)
    BY <1>6 DEF PositionIndependent
  <2> QED BY <2>1, PieFits, AddAgrees
<1>7. CASE Relro
  <2>1. Add("relro", "paths", RelroArgs) /\ macros \in Builds
    BY <1>7, Zenon DEF Relro, RelroArgs, IInv
  <2> QED BY <2>1, RelroFits, AddAgrees
<1> QED BY <1>1, <1>2, <1>3, <1>4, <1>5, <1>6, <1>7

LEMMA ForwardAgrees ==
    ASSUME AgreeInv, Forward
    PROVE  AgreeInv'
<1>1. /\ pc = "paths" /\ pc' = "exec" /\ args' = (args \o argv) \o <<Arg("NULL")>>
      /\ argv' = argv /\ macros' = macros
  BY DEF Forward, given
<1>2. Prefix(args) /\ (FloatModeDue => FloatModeIn(args))
  BY <1>1 DEF AgreeInv, Collecting
<1>3. \E pre \in Seq(Fit) : /\ args' = (pre \o argv) \o <<Arg("NULL")>>
                            /\ Prefix(pre) /\ (FloatModeDue => FloatModeIn(pre))
  BY <1>1, <1>2 DEF Prefix
<1>4. ASSUME NEW pre \in Seq(Fit), Prefix(pre), FloatModeDue => FloatModeIn(pre)
      PROVE  pre \in Seq(Fit') /\ Prefix(pre)' /\ (FloatModeDue' => FloatModeIn(pre)')
  BY <1>1, <1>4, SameWords DEF Prefix, FloatModeIn
<1> QED BY <1>1, <1>3, <1>4 DEF AgreeInv, Collecting, CommandAgrees

LEMMA FrontOf ==
    ASSUME NEW S, NEW s \in Seq(S), NEW x \in S
    PROVE  SubSeq(s \o <<x>>, 1, Len(s \o <<x>>) - 1) = s
OBVIOUS

LEMMA BackOf ==
    ASSUME NEW S, NEW s \in Seq(S), NEW t \in Seq(S)
    PROVE  SubSeq(s \o t, Len(s \o t) - Len(t) + 1, Len(s \o t)) = t
OBVIOUS

LEMMA TailOf ==
    ASSUME NEW S, NEW s \in Seq(S), NEW t \in Seq(S), Len(s) >= 1
    PROVE  /\ Tail(s) \in Seq(S) /\ Len(Tail(s)) = Len(s) - 1
           /\ \A k \in 1 .. Len(s) - 1 : Tail(s)[k] = s[k + 1]
           /\ Tail(s \o t) = Tail(s) \o t
OBVIOUS

\* A command made of a fitting prefix and the command line agrees with it.
LEMMA PrefixAgrees ==
    ASSUME argv \in Seq(Arguments), argv' = argv, macros' = macros, env' = env,
           NEW w \in Seq(Fit), executed' = w \o argv,
           Len(w) >= 1,
           \/ w[1] = Arg("gcc")
           \/ Len(w) >= 2 /\ w[1] = Arg("ccache") /\ w[2] = Arg("gcc") /\ ~env.nocache,
           FloatModeDue => FloatModeIn(w)
    PROVE  CommandAgrees'
<1> DEFINE W == Fit \union Arguments
<1>1. w \in Seq(W) /\ argv \in Seq(W)
  OBVIOUS
<1>0. /\ \A S : Given(S)' <=> Given(S)
      /\ \A o : LastFloat(o)' <=> LastFloat(o)
  BY DEF Given, LastFloat
<1>2. /\ Len(executed') - Len(argv) = Len(w) /\ Len(w) \in Nat
      /\ \A k \in 1 .. Len(w) : executed'[k] = w[k]
      /\ SubSeq(executed', Len(executed') - Len(argv) + 1, Len(executed')) = argv
  <2> HIDE DEF W
  <2>1. /\ Len(w) \in Nat /\ Len(argv) \in Nat /\ Len(executed') = Len(w) + Len(argv)
        /\ \A k \in 1 .. Len(w) : executed'[k] = w[k]
    BY <1>1, Concat
  <2>2. SubSeq(executed', Len(executed') - Len(argv) + 1, Len(executed')) = argv
    BY <1>1, BackOf
  <2> QED BY <2>1, <2>2
<1>3. ASSUME NEW o, Adds(o)'
      PROVE  Allowed(o)
  <2>1. PICK k \in 1 .. Len(w) : executed'[k].opt = o
    BY <1>2, <1>3 DEF Adds
  <2>2. w[k] \in Fit /\ executed'[k] = w[k]
    BY <1>2, <2>1
  <2> QED BY <2>1, <2>2 DEF Fit
<1>4. FloatModeDue => Adds("-mfp")'
  BY <1>2 DEF FloatModeIn, Adds
<1>5. executed'[1] = w[1] /\ (Len(w) >= 2 => executed'[2] = w[2])
  BY <1>2
<1> QED BY <1>0, <1>2, <1>3, <1>4, <1>5 DEF CommandAgrees, Allowed, FloatModeDue

LEMMA ExecuteAgrees ==
    ASSUME AgreeInv, Execute
    PROVE  AgreeInv'
<1>1. /\ pc = "exec" /\ pc' = "done" /\ executed' = SubSeq(Command, 1, Len(Command) - 1)
      /\ argv' = argv /\ macros' = macros /\ env' = env /\ argv \in Seq(Arguments)
  BY DEF Execute, given, AgreeInv
<1>2. PICK pre \in Seq(Fit) : /\ args = (pre \o argv) \o <<Arg("NULL")>>
                              /\ Prefix(pre) /\ (FloatModeDue => FloatModeIn(pre))
  BY <1>1 DEF AgreeInv
<1> DEFINE W == Fit \union Arguments \union {Arg("NULL")}
<1>3. pre \in Seq(W) /\ argv \in Seq(W) /\ Arg("NULL") \in W /\ <<Arg("NULL")>> \in Seq(W)
  BY <1>1
<1> HIDE DEF W
<1>4. Len(pre) >= 1 /\ Len(pre) \in Nat
  BY <1>2 DEF Prefix, Runs
<1> DEFINE w == IF "CCACHE" \in macros /\ env.nocache THEN Tail(pre) ELSE pre
<1>5. executed' = w \o argv
  <2>1. CASE ~("CCACHE" \in macros /\ env.nocache)
    <3>1. w = pre /\ Command = args
      BY <2>1, Zenon DEF Command
    <3>2. pre \o argv \in Seq(W)
      BY <1>3, Appended
    <3> QED BY <1>1, <1>2, <1>3, <3>1, <3>2, FrontOf
  <2>2. CASE "CCACHE" \in macros /\ env.nocache
    <3>1. w = Tail(pre) /\ Command = Tail(args)
      BY <2>2, Zenon DEF Command
    <3>2. pre \o argv \in Seq(W) /\ Len(pre \o argv) >= 1
      <4>1. pre \o argv \in Seq(W) /\ Len(pre \o argv) = Len(pre) + Len(argv)
        BY <1>3, Appended
      <4>2. Len(argv) \in Nat
        BY <1>1
      <4> QED BY <1>4, <4>1, <4>2
    <3>3. Tail(args) = Tail(pre \o argv) \o <<Arg("NULL")>>
      BY <1>2, <1>3, <3>2, TailOf
    <3>4. Tail(pre \o argv) = Tail(pre) \o argv /\ Tail(pre) \in Seq(W)
      BY <1>3, <1>4, TailOf
    <3>5. Tail(pre) \o argv \in Seq(W)
      BY <1>3, <3>4, Appended
    <3>6. SubSeq(Tail(args), 1, Len(Tail(args)) - 1) = Tail(pre) \o argv
      BY <1>3, <3>3, <3>4, <3>5, FrontOf
    <3> QED BY <1>1, <3>1, <3>6, Zenon
  <2> QED BY <2>1, <2>2
<1>6. /\ w \in Seq(Fit) /\ Len(w) >= 1
      /\ \/ w[1] = Arg("gcc")
         \/ Len(w) >= 2 /\ w[1] = Arg("ccache") /\ w[2] = Arg("gcc") /\ ~env.nocache
      /\ FloatModeDue => FloatModeIn(w)
  <2>1. CASE ~("CCACHE" \in macros /\ env.nocache)
    <3>1. w = pre
      BY <2>1, Zenon
    <3> HIDE DEF w
    <3> QED BY <1>2, <1>4, <2>1, <3>1 DEF Prefix, Runs
  <2>2. CASE "CCACHE" \in macros /\ env.nocache
    <3>1. w = Tail(pre)
      BY <2>2, Zenon
    <3> HIDE DEF w
    <3>2. Len(pre) >= 2 /\ pre[1] = Arg("ccache") /\ pre[2] = Arg("gcc")
      BY <1>2, <2>2 DEF Prefix, Runs
    <3>3. /\ w \in Seq(Fit) /\ Len(w) = Len(pre) - 1
          /\ \A k \in 1 .. Len(pre) - 1 : w[k] = pre[k + 1]
      BY <1>4, <3>1, TailOf
    <3>4. w[1] = pre[2] /\ Len(w) >= 1
      BY <1>4, <3>2, <3>3
    <3>5. ASSUME FloatModeDue PROVE FloatModeIn(w)
      <4>1. PICK k \in 1 .. Len(pre) : pre[k].opt = "-mfp"
        BY <1>2, <3>5 DEF FloatModeIn
      <4>2. k # 1
        BY <3>2, <4>1 DEF Arg
      <4>3. k - 1 \in 1 .. Len(w) /\ w[k - 1] = pre[(k - 1) + 1]
        BY <1>4, <3>3, <4>1, <4>2
      <4> QED BY <4>1, <4>3 DEF FloatModeIn
    <3> QED BY <3>2, <3>3, <3>4, <3>5
  <2> QED BY <2>1, <2>2
<1> HIDE DEF w
<1>7. CommandAgrees'
  BY <1>1, <1>5, <1>6, PrefixAgrees
<1> QED BY <1>1, <1>7 DEF AgreeInv, Collecting

LEMMA OthersAgree ==
    ASSUME AgreeInv, PathTooLong \/ EpochInvalid \/ Check \/ UNCHANGED vars
    PROVE  AgreeInv'
<1>1. /\ argv' = argv /\ macros' = macros /\ args' = args
      /\ env' = env /\ executed' = executed
      /\ pc' = pc \/ pc' = "failed"
  BY DEF PathTooLong, EpochInvalid, Check, NextArgument, OtherOption, PathInArgument,
     PathBehind, Report, vars, given, loops
<1>2. CASE pc' = "failed"
  BY <1>1, <1>2 DEF AgreeInv, Collecting, CommandAgrees
<1>3. CASE pc' = pc
  <2>1. Fit' = Fit /\ FloatModeDue' = FloatModeDue
    BY <1>1, SameWords
  <2>2. \A s : Prefix(s)' <=> Prefix(s)
    BY <1>1, <2>1, SameWords DEF Prefix
  <2>3. CommandAgrees'
    BY <1>1, <1>3 DEF AgreeInv, CommandAgrees, Adds, Given, LastFloat
  <2>4. (pc \in Collecting => Prefix(args))'
    BY <1>1, <1>3, <2>2 DEF AgreeInv
  <2>5. (pc \in Collecting \ {"floatabi", "fp32"} /\ FloatModeDue => FloatModeIn(args))'
    BY <1>1, <1>3, <2>1 DEF AgreeInv, FloatModeIn
  <2>6. ASSUME pc' = "exec"
        PROVE  (\E pre \in Seq(Fit) : /\ args = (pre \o argv) \o <<Arg("NULL")>>
                                       /\ Prefix(pre) /\ (FloatModeDue => FloatModeIn(pre)))'
    <3>1. PICK pre \in Seq(Fit) : /\ args = (pre \o argv) \o <<Arg("NULL")>>
                                  /\ Prefix(pre) /\ (FloatModeDue => FloatModeIn(pre))
      BY <1>3, <2>6 DEF AgreeInv
    <3>2. pre \in Seq(Fit') /\ Prefix(pre)' /\ (FloatModeDue' => FloatModeIn(pre)')
      BY <2>1, <2>2, <3>1 DEF FloatModeIn
    <3> QED BY <1>1, <3>1, <3>2
  <2> QED BY <1>1, <1>3, <2>3, <2>4, <2>5, <2>6 DEF AgreeInv
<1> QED BY <1>1, <1>2, <1>3

LEMMA AgreeInit == ASSUME Init PROVE AgreeInv
<1>1. argv \in Seq(Arguments) /\ args = <<>> /\ pc = "start"
  BY InitHolds DEF IInv, Init
<1> QED BY <1>1 DEF AgreeInv, Collecting, CommandAgrees

\* The command that is run is the compiler with the caller's words behind everything the
\* wrapper adds, and nothing among what main decides to add that they forbid, for every
\* set of macros and every command line (toolchain-wrapper.c:344-506).  The predefined
\* options are allowed whatever the words are, as the code has it: for them the promise
\* of its comment (39-43) does not hold.
THEOREM CommandAgreesWithTheCaller == Spec => []CommandAgrees
<1>1. Init => IInv /\ AgreeInv
  BY InitHolds, AgreeInit
<1>2. IInv /\ AgreeInv /\ [Next]_vars => (IInv /\ AgreeInv)'
  <2> SUFFICES ASSUME IInv, AgreeInv, [Next]_vars
               PROVE  IInv' /\ AgreeInv'
    OBVIOUS
  <2>1. IInv'
    BY ConditionalArgsKeep, PathsFitKeeps, ForwardKeeps, OthersKeep DEF Next, Collect
  <2>2. AgreeInv'
    BY CollectAgrees, ForwardAgrees, ExecuteAgrees, OthersAgree DEF Next, Collect
  <2> QED BY <2>1, <2>2
<1>3. IInv /\ AgreeInv => CommandAgrees
  BY DEF AgreeInv
<1> QED BY <1>1, <1>2, <1>3, PTL DEF Spec
=============================================================================
