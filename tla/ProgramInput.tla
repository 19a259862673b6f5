---------------------------- MODULE ProgramInput ----------------------------
(***************************************************************************)
(* How purify comes by its input: main parses the configuration, checks    *)
(* its version, reads the files it names and folds them into one half      *)
(* space (main.cc, getInputData of setup_utils.cc).  Other programs call   *)
(* read_measurements directly: section is then "library" and config holds  *)
(* their arguments.  YamlParser and InputFiles are the two components      *)
(* composed here.                                                          *)
(*                                                                         *)
(* The weights' normalisation is one factor for all rows and is left out.  *)
(***************************************************************************)
EXTENDS YamlParser, InputFiles

CONSTANTS
  Beginnings,     \* [section, config, disk, build]: what is asked, and of which machine
  WaveletItems    \* [wavelet lists, as sequences of characters -> their items]

\* main begins with the configuration file, a library caller with its own arguments.
ASSUME BeginningsAssumption == \A b \in Beginnings : b.section \in {"file", "library"}

NoName == ""                \* an empty name in coverage_files: random coverage

\* A file of the disk is what its name says; what main or a library caller asks for are
\* names of files, or in a simulation perhaps none.
ASSUME FilesAssumption ==
  \A b \in Beginnings :
    /\ DOMAIN b.disk = Files
    /\ \A name \in Files : b.disk[name] = Missing \/ Formed(name, b.disk[name])
    /\ b.section = "library" => b.config.names \in Seq(Files)
    /\ b.section = "file" /\ b.config # NoFile =>
         \A key \in {<<"measurements", "measurements_files">>, <<"simulation", "coverage_files">>} :
           key \in DOMAIN b.config =>
             \/ b.config[key] = Unconvertible \/ b.config[key] \in Seq(Files)
             \/ key[1] = "simulation" /\ Head(b.config[key]) = NoName

inputVars == <<parserVars, environment, arguments, reading>>

Version == "4.2.0"

Parsed == section = "parsed" /\ stage = "idle"
EndWith(result) == stage' = "ready" /\ uv' = result
NotReading == UNCHANGED <<environment, arguments, i, found_files, format_type>>

\* main compares versions before anything else is done.
WrongVersion ==
  /\ Parsed /\ Value(<<"general", "version">>) # Version
  /\ EndWith(Failed("uncaught"))
  /\ NotReading /\ UNCHANGED parserVars

measurements ==
  IF Source = "measurements" THEN Value(<<"measurements", "measurements_files">>)
  ELSE Value(<<"simulation", "coverage_files">>)

measurements_units ==
  IF Source = "measurements" THEN Value(<<"measurements", "measurements_units">>)
  ELSE Value(<<"simulation", "coverage_units">>)

\* TRUE when the key is missing or of another type, and in simulations always.
w_term_member ==
  ~(Source = "measurements" /\ Got(Names("measurements", {"w_term"}))) \/ Value(<<"measurements", "w_term">>)

RightVersion == Parsed /\ Value(<<"general", "version">>) = Version

\* A simulation without coverage files draws its own; an empty list is asked
\* for its first name all the same (std::vector::at).
NoCoverage == measurements # <<>> => Head(measurements) = NoName

RandomCoverage ==
  /\ RightVersion /\ Source = "simulation" /\ NoCoverage
  /\ EndWith(IF measurements = <<>> THEN Failed("uncaught") ELSE Vis(<<>>, 0, "radians"))
  /\ NotReading /\ UNCHANGED parserVars

ReadInput ==
  /\ RightVersion
  /\ Source = "simulation" => ~NoCoverage
  /\ Call(measurements, w_term_member, "I", measurements_units)
  /\ UNCHANGED parserVars

\* getInputData after read_measurements.
FoldInput ==
  /\ stage = "returned" /\ section = "parsed"
  /\ EndWith(IF uv.outcome = "good" /\ Value(<<"operators", "conjugate_w">>)
             THEN conjugate_w(uv) ELSE uv)
  /\ NotReading /\ UNCHANGED parserVars

LibraryCall ==
  /\ section = "library"
  /\ Call(config.names, config.w_term, config.pol, config.units)
  /\ UNCHANGED parserVars

LibraryReturn ==
  /\ stage = "returned" /\ section = "library"
  /\ EndWith(uv)
  /\ NotReading /\ UNCHANGED parserVars

Parse == ParserNext /\ UNCHANGED <<environment, arguments, reading>>
ReadOn == ReadMeasurements /\ UNCHANGED parserVars
Vanish == FileVanishes /\ UNCHANGED parserVars

Program ==
  \/ Parse \/ WrongVersion \/ RandomCoverage \/ ReadInput \/ ReadOn
  \/ FoldInput \/ LibraryCall \/ LibraryReturn

InputNext == Program \/ Vanish

InputInit ==
  /\ ParserInit /\ FilesInit
  /\ \E b \in Beginnings :
       section = b.section /\ config = b.config /\ disk = b.disk /\ build = b.build

\* A sequential program runs on; nothing obliges the environment.
InputSpec == InputInit /\ [][InputNext]_inputVars /\ WF_inputVars(Program)

-----------------------------------------------------------------------------
(* What a file holds, by the standard of its format: a row at every place. *)

StoredUvfits(f) ==
  LET of(x, p) == f.cells[x[2]][x[1]][p]
      kept == {x \in CellsOf(f) : \A p \in PolIndices :
                 Unflagged([re |-> of(x, p).re, im |-> of(x, p).im], of(x, p).weight)}
  IN [x \in kept |->
        [u |-> f.coords[x[2]].u * Frequency(f, x[1]),
         v |-> -f.coords[x[2]].v * Frequency(f, x[1]),
         w |-> f.coords[x[2]].w * Frequency(f, x[1]),
         vis |-> [re |-> of(x, 0).re + of(x, 1).re, im |-> of(x, 0).im + of(x, 1).im],
         weights |-> <<2 * of(x, 0).weight * of(x, 1).weight, of(x, 0).weight + of(x, 1).weight>>]]

StoredMs(f) ==
  SideBySide([c \in DOMAIN f.frequency |->
           [x \in {y \in DOMAIN f.rows : c \notin f.rows[y].flagged} |-> ChannelRow(f, pol, c, f.rows[x])]])

Stored(file) ==
  CASE file.layout = "uvfits" -> StoredUvfits(file.content)
    [] file.layout = "ms" -> StoredMs(file.content)
    [] file.layout \in {"text", "h5"} -> file.rows

Listed == {n \in Range(names) : Exists(n)}
Folded(row) ==
  IF section = "parsed" /\ Value(<<"operators", "conjugate_w">>) /\ row.w < 0
  THEN Mirror(row) ELSE row

\* The text and HDF5 readers take the caller's word for the w column of the
\* first file, and for later files ask whether a w so far was not 0.
WColumnsFit ==
  format_type \in {"vis", "h5"} =>
    /\ \A n \in Listed : disk[n].has_w = w_term
    /\ w_term /\ Len(found_files) > 1 => HasW(disk[found_files[1]].rows)

ThereIn(list) == {n \in DOMAIN list : Exists(list[n])}

\* What main and the library are given is every visibility of every file that
\* was listed and there, as often as it is there, with its own coordinates,
\* value and weight, in the conventions of the format and mirrored into w >= 0
\* when main was asked to: whatever the flags, the layout of the cells, the pass
\* that counted them and the files joined before.
OwnRows ==
  stage = "ready" /\ uv.outcome = "good" /\ names # <<>> /\ WColumnsFit =>
    LET held == SideBySide([n \in ThereIn(names) |->
                         LET stored == Stored(disk[names[n]])
                         IN  [x \in DOMAIN stored |-> Folded(stored[x])]])
    IN  /\ \A row \in Range(uv.rows) \union Range(held) : Occurrences(uv.rows, row) = Occurrences(held, row)
        /\ uv.units = IF format_type \in {"vis", "h5"} THEN units ELSE "lambda"

\* A list of files purify is meant to read.  sound tells of each file whether
\* it can be read by itself (the README lists the sound files of the formats
\* that the code cannot read).
SameKind(n, m) == Extension[n] = Extension[m] /\ disk[n].pointing = disk[m].pointing

Readable ==
  /\ stage = "scan" /\ i = 1
  /\ Listed # {} /\ \A n, m \in Listed : disk[n].sound /\ SameKind(n, m)
  /\ Exists(names[1]) \/ \A n \in Listed : Extension[n] = "uvfits"
  /\ \A n \in Listed :
       /\ Extension[n] \in {"vis", "h5"} =>
            /\ disk[n].has_w = w_term
            /\ w_term /\ Cardinality(Listed) > 1 => HasW(disk[n].rows)
       /\ Extension[n] = "h5" => "H5" \in build
       /\ Extension[n] = "ms" => "CASACORE" \in build
       /\ Extension[n] # "ms" => pol = "I"

\* Files that can be read are read, unless one of them is taken away meanwhile.
ReadableIsRead == Readable ~> (stage = "ready" /\ (uv.outcome = "good" \/ vanished))

-----------------------------------------------------------------------------
(* The configuration *)

\* The members main and setup_utils ask for, by source and algorithm.
UsedAlways ==
  {key[2] : key \in OperatorKeys \union WaveletKeys} \union
  {"version", "logging", "source", "measurements", "mpiAlgorithm", "algorithm",
   "wavelet_basis", "output_prefix", "iterations", "epsilonScaling", "relVarianceConvergence"}

UsedBySource ==
  IF Source = "measurements"
  THEN {"measurements_sigma", "units", "w_term", "warm_start", "measurements_polarization"}
  ELSE {"skymodel", "number_of_measurements", "w_rms", "signal_to_noise", "sim_J", "units"}

UsedByAlgorithm ==
  CASE Algorithm = "padmm" ->
         {"dualFBVarianceConvergence", "epsilonConvergenceScaling", "update_tolerance", "update_iters"}
    [] Algorithm = "primaldual" ->
         {"epsilonConvergenceScaling", "precondition_iters", "update_tolerance", "update_iters"}
    [] Algorithm \in {"fb", "fb_joint_map"} ->
         {"stepsize", "regularisation_parameter", "dualFBVarianceConvergence", "nondiffFuncType",
          "diffFuncType"}
         \union (IF Value(<<"fb", "diffFuncType">>) = "CRR"
                 THEN {"CRR_function_model_path", "CRR_gradient_model_path", "CRR_mu", "CRR_lambda"}
                 ELSE {})
         \union (IF Value(<<"fb", "nondiffFuncType">>) = "denoiser" THEN {"model_path"} ELSE {})

\* No run starts on a member's default by accident: whatever main asks for with
\* the chosen source and algorithm, a configuration that is accepted has set.
\* (Simulations never set w_term, warm_start and measurements_polarization, and
\* fb never sets update_tolerance: there main does run on the defaults.)
UsedIsSet == section = "parsed" => UsedAlways \union UsedBySource \union UsedByAlgorithm \subseteq members

\* The items of a wavelet list: a number or two numbers with dots between.
Expanded(items) ==
  FlattenSeq([j \in DOMAIN items |->
    [n \in 1 .. items[j][Len(items[j])] - items[j][1] + 1 |-> items[j][1] + n - 1]])

\* Numbers, ranges, numbers of two digits, in any order and with any spaces:
\* the scan that jumps by the digits it expects finds every wavelet once.
WaveletsExpanded ==
  section \in {"AlgorithmOptions", "Version", "parsed"} =>
    wavelet_basis = Expanded(WaveletItems[Value(<<"SARA", "wavelet_dict">>)])
=============================================================================
