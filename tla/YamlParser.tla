----------------------------- MODULE YamlParser -----------------------------
(***************************************************************************)
(* YamlParser: the configuration file becomes the members the program asks *)
(* for.  The sections are read in a fixed order; a key that is missing, or *)
(* whose value does not convert, stops the parser with a runtime_error, a  *)
(* name that a table does not know with an out_of_range.                   *)
(*                                                                         *)
(* A configuration is a function from the keys that are there to values.   *)
(* A key is <<block, name>>; a block without keys of its own interest is   *)
(* the key <<block, "">>.  Only values that decide something are told      *)
(* apart; of the other members the model records that they are set.        *)
(***************************************************************************)
EXTENDS Integers, Sequences, FiniteSets, SequencesExt, FiniteSetsExt

CONSTANTS Unconvertible,    \* a value of the wrong type
          NoFile            \* there is no configuration file

VARIABLES
  config,       \* the file
  section,      \* what the parser does next, or "parsed" or "failed"
  how,          \* how it failed
  members,      \* members that were set
  k, value2add, wavelet_basis        \* the scan of getWavelets

parserVars == <<config, section, how, members, k, value2add, wavelet_basis>>
scanVars == <<k, value2add, wavelet_basis>>

Names(block, names) == {<<block, n>> : n \in names}
Value(key) == config[key]
Has(key) == key \in DOMAIN config

(* The keys each section asks for.  Within a section their order shows only *)
(* in which of two faults is reported.                                      *)
GeneralKeys ==
  Names("general", {"logging", "iterations", "epsilonScaling", "output_prefix", "source"})

Source == Value(<<"general", "source">>)

SourceKeys ==
  IF Source = "measurements"
  THEN Names("measurements", {"measurements_polarization", "warm_start", "measurements_files",
                              "measurements_units", "measurements_sigma"})
  ELSE Names("simulation", {"skymodel", "signal_to_noise", "number_of_measurements", "sim_J",
                            "w_rms", "coverage_files", "coverage_units"})

OperatorKeys ==
  Names("operators", {"kernel", "oversampling", "powMethod_iter", "powMethod_tolerance",
    "eigenvector_real", "eigenvector_imag", "cellsizex", "cellsizey", "width", "height",
    "Jx", "Jy", "Jw", "gpu", "wprojection", "mpi_wstacking", "mpi_all_to_all", "kmeans_iters",
    "conjugate_w"})

WaveletKeys == Names("SARA", {"wavelet_levels", "realValueConstraint", "positiveValueConstraint"})

Algorithm == Value(<<"algorithm", "algorithm">>)
AlgorithmBlock == IF Algorithm = "fb_joint_map" THEN "fb" ELSE Algorithm

\* Faulty variant: the options of padmm are read for primaldual as well.
AlgorithmKeysAlike ==
  IF AlgorithmBlock = "fb"
  THEN Names("fb", {"mpiAlgorithm", "relVarianceConvergence", "stepsize",
                    "regularisation_parameter", "dualFBVarianceConvergence",
                    "nondiffFuncType", "diffFuncType"})
  ELSE Names(Algorithm, {"epsilonConvergenceScaling", "mpiAlgorithm", "relVarianceConvergence",
                         "update_iters", "update_tolerance"})

AlgorithmKeys ==
  CASE Algorithm = "padmm" ->
         Names("padmm", {"epsilonConvergenceScaling", "mpiAlgorithm", "relVarianceConvergence",
                         "update_iters", "update_tolerance", "dualFBVarianceConvergence"})
    [] Algorithm = "primaldual" ->
         Names("primaldual", {"epsilonConvergenceScaling", "mpiAlgorithm",
                              "relVarianceConvergence", "update_iters", "update_tolerance",
                              "precondition_iters"})
    [] Algorithm \in {"fb", "fb_joint_map"} ->
         Names("fb", {"mpiAlgorithm", "relVarianceConvergence", "stepsize",
                      "regularisation_parameter", "dualFBVarianceConvergence",
                      "nondiffFuncType", "diffFuncType"})

\* Keys that are asked for only once the tables know the kinds of functions.
FunctionKeys ==
  IF AlgorithmBlock # "fb" THEN {}
  ELSE (IF Value(<<"fb", "nondiffFuncType">>) = "denoiser" THEN Names("fb", {"model_path"}) ELSE {})
       \union (IF Value(<<"fb", "diffFuncType">>) = "CRR"
               THEN Names("fb", {"CRR_function_model_path", "CRR_gradient_model_path",
                                 "CRR_mu", "CRR_lambda"})
               ELSE {})
       \union (IF Algorithm = "fb_joint_map"
               THEN Names("fb", {"jmap_iters", "jmap_relVarianceConvergence",
                                 "jmap_objVarianceConvergence", "jmap_alpha", "jmap_beta"})
               ELSE {})

(* get<T>: every key there and of its type. *)
Got(keys) == \A key \in keys : Has(key) /\ Value(key) # Unconvertible

\* The tables stokes_string, algo_distribution_string, nondiff_type_string and
\* diff_type_string, asked with map::at.
Tables ==
  [measurements_polarization |-> {"I", "Q", "U", "V", "LL", "RR", "LR", "RL", "XX", "YY", "P"},
   mpiAlgorithm |-> {"none", "serial-equivalent", "random-updates", "fully-distributed"},
   nondiffFuncType |-> {"l1", "denoiser", "realIndicator"},
   diffFuncType |-> {"l2", "CRR"}]
InTables(keys) == \A key \in keys : key[2] \in DOMAIN Tables => Value(key) \in Tables[key[2]]

Units == {"lambda", "radians", "pixels"}
UnitsKnown ==
  \A key \in SourceKeys : key[2] \in {"measurements_units", "coverage_units"} => Value(key) \in Units

Fail(kind) == section' = "failed" /\ how' = kind /\ UNCHANGED <<members, scanVars>>

\* One method of the parser: what it asks for, then where it goes.
SetMembers(keys, next) ==
  /\ members' = members \union {key[2] : key \in keys}
  /\ section' = next
  /\ UNCHANGED how

readFile ==
  /\ section = "file"
  /\ IF config = NoFile THEN Fail("threw")
     ELSE SetMembers({}, "GeneralConfiguration") /\ UNCHANGED scanVars
  /\ UNCHANGED config

(* GeneralConfiguration: the block of the other source must not be there. *)
OtherBlock == IF Source = "measurements" THEN "simulation" ELSE "measurements"
SourceRefused ==
  \/ ~Got(GeneralKeys)
  \/ Source \notin {"measurements", "simulation"}
  \/ Has(<<OtherBlock, "">>)
  \/ ~Got(SourceKeys)
  \/ ~UnitsKnown

\* The table of polarisations is asked first of all in the block.
PolarizationUnknown ==
  /\ Got(GeneralKeys) /\ Source = "measurements"
  /\ Got(Names("measurements", {"measurements_polarization"}))
  /\ ~InTables(Names("measurements", {"measurements_polarization"}))

parseAndSetGeneralConfiguration ==
  /\ section = "GeneralConfiguration"
  /\ IF PolarizationUnknown THEN Fail("uncaught")
     ELSE IF SourceRefused THEN Fail("threw")
     ELSE /\ SetMembers(GeneralKeys \union SourceKeys
                          \union Names("input", {"measurements", "units"})
                          \union (IF Source = "measurements" THEN Names("input", {"w_term"}) ELSE {}),
                        "MeasureOperators")
          /\ UNCHANGED scanVars
  /\ UNCHANGED config

parseAndSetMeasureOperators ==
  /\ section = "MeasureOperators"
  /\ IF ~Got(OperatorKeys) THEN Fail("threw")
     ELSE SetMembers(OperatorKeys, "SARA") /\ UNCHANGED scanVars
  /\ UNCHANGED config

-----------------------------------------------------------------------------
(* SARA: the list of wavelets is scanned character by character.  Position  *)
(* k counts from 0 as in the code; a wavelet is its number, 0 for Dirac,    *)
(* and DB without a number is -1.                                           *)

Digit == [d \in {"0", "1", "2", "3", "4", "5", "6", "7", "8", "9"} |->
            CHOOSE n \in 0 .. 9 : ToString(n) = d]
Number(text) == IF text = <<>> THEN -1
                ELSE FoldLeft(LAMBDA n, c : 10 * n + Digit[c], 0, text)

\* remove_if(isspace)
input == SelectSeq(Value(<<"SARA", "wavelet_dict">>), LAMBDA c : c # " ")
at(pos) == input[pos + 1]
substr(pos, n) == SubSeq(input, pos + 1, IF pos + n < Len(input) THEN pos + n ELSE Len(input))

\* std::stoi reads the digits in front.
stoi(text) ==
  LET digits == {n \in 0 .. Len(text) : \A j \in 1 .. n : text[j] \in DOMAIN Digit}
  IN Number(SubSeq(text, 1, Max(digits)))

parseAndSetSARA ==
  /\ section = "SARA"
  /\ IF ~Got(Names("SARA", {"wavelet_dict"})) THEN Fail("threw")
     ELSE /\ SetMembers({}, "wavelets")
          /\ k' = 0 /\ value2add' = <<>> /\ wavelet_basis' = <<>>
  /\ UNCHANGED config

AtEnd == k = Len(input)
Scanning == section = "wavelets" /\ k <= Len(input)

ScanSingle ==
  /\ Scanning /\ (AtEnd \/ (~AtEnd /\ at(k) = ","))
  /\ wavelet_basis' = Append(wavelet_basis, Number(value2add))
  /\ value2add' = <<>>
  /\ k' = k + 1
  /\ UNCHANGED <<config, section, how, members>>

\* Faulty variant: only the end of the text is looked for.
DigitsAfterDotsLast == IF k + 3 >= Len(input) THEN 2 ELSE 3

\* The second number has one digit if the text, or the item, ends after it.
DigitsAfterDots == IF k + 3 >= Len(input) THEN 2 ELSE IF at(k + 3) = "," THEN 2 ELSE 3

ScanRange ==
  /\ Scanning /\ ~AtEnd /\ at(k) = "."
  /\ LET final_value == substr(k + 2, DigitsAfterDots)
     IN IF stoi(value2add) = -1 \/ k + 2 > Len(input) \/ stoi(final_value) = -1
        THEN Fail("uncaught")
        ELSE /\ wavelet_basis' = wavelet_basis \o
                  [j \in 1 .. stoi(final_value) - stoi(value2add) + 1 |-> stoi(value2add) + j - 1]
             /\ value2add' = <<>>
             /\ k' = k + DigitsAfterDots + 2
             /\ UNCHANGED <<section, how, members>>
  /\ UNCHANGED config

ScanDigit ==
  /\ Scanning /\ ~AtEnd /\ at(k) \notin {",", "."}
  /\ value2add' = Append(value2add, at(k))
  /\ k' = k + 1
  /\ UNCHANGED <<config, section, how, members, wavelet_basis>>

WaveletsScanned ==
  /\ section = "wavelets" /\ k > Len(input)
  /\ IF ~Got(WaveletKeys) THEN Fail("threw")
     ELSE /\ SetMembers(WaveletKeys \union Names("SARA", {"wavelet_basis"}), "AlgorithmOptions")
          /\ UNCHANGED scanVars
  /\ UNCHANGED config

-----------------------------------------------------------------------------
Algorithms == {"padmm", "fb", "fb_joint_map", "primaldual"}

\* In the order of the code: keys before the first table, tables, the rest.
parseAndSetAlgorithmOptions ==
  /\ section = "AlgorithmOptions"
  /\ IF \/ ~Got(Names("algorithm", {"algorithm"})) THEN Fail("threw")
     ELSE IF Algorithm \notin Algorithms \/ ~Got(AlgorithmKeys) THEN Fail("threw")
     ELSE IF ~InTables(AlgorithmKeys) THEN Fail("uncaught")
     ELSE IF ~Got(FunctionKeys) THEN Fail("threw")
     ELSE /\ SetMembers(AlgorithmKeys \union FunctionKeys \union Names("algorithm", {"algorithm"}),
                        "Version")
          /\ UNCHANGED scanVars
  /\ UNCHANGED config

ParseVersion ==
  /\ section = "Version"
  /\ IF ~Got(Names("general", {"version"})) THEN Fail("threw")
     ELSE SetMembers(Names("general", {"version"}), "parsed") /\ UNCHANGED scanVars
  /\ UNCHANGED config

ParserInit ==
  /\ how = "" /\ members = {}
  /\ k = 0 /\ value2add = <<>> /\ wavelet_basis = <<>>

ParserNext ==
  \/ readFile \/ parseAndSetGeneralConfiguration \/ parseAndSetMeasureOperators
  \/ parseAndSetSARA \/ ScanSingle \/ ScanRange \/ ScanDigit \/ WaveletsScanned
  \/ parseAndSetAlgorithmOptions \/ ParseVersion
=============================================================================
