----------------------------- MODULE InputFiles -----------------------------
(***************************************************************************)
(* read_measurements::read_measurements, the serial overload: from a list  *)
(* of names to one vis_params.  The names are looked up one by one, missing*)
(* ones are dropped, the format is that of the first name; then the files  *)
(* that were found are read and joined in order.                           *)
(*                                                                         *)
(* The disk belongs to the environment: a file that was found may be gone  *)
(* by the time it is read (once per behaviour).  A file on the disk is     *)
(*   [kind: "file" or "directory", layout: "text", "h5", "uvfits", "ms",   *)
(*    content: what VisFiles, UvFits or MeasurementSets reads]             *)
(***************************************************************************)
EXTENDS VisFiles, UvFits, MeasurementSets

CONSTANTS
  Files,        \* names
  Extension,    \* [Files -> the extension of a name, as it is written]
  Missing

ASSUME ExtensionAssumption == DOMAIN Extension = Files

VARIABLES
  disk,         \* [Files -> a file or Missing]
  names, w_term, pol, units,      \* the arguments
  build,        \* interfaces purify was compiled with
  stage,        \* "idle", "scan", "read", "join", "returned"
  i,            \* next name, then next found file
  found_files, format_type,
  uv,           \* the vis_params read so far, or how the read failed
  vanished      \* has the environment removed its file?

arguments == <<names, w_term, pol, units, build>>
reading == <<stage, i, found_files, format_type, uv>>
environment == <<disk, vanished>>

\* External: tolower.
Lower(ext) == CASE ext = "H5" -> "h5" [] ext = "UVFITS" -> "uvfits" [] OTHER -> ext

Formats == {"vis", "h5", "uvfits", "ms"}
FormatOf(name) == Lower(Extension[name])
Exists(name) == disk[name] # Missing

\* A file that is what its name says.
Formed(name, file) ==
  CASE FormatOf(name) = "vis" -> WellFormedText(file)
    [] FormatOf(name) = "h5" -> WellFormedH5(file)
    [] FormatOf(name) = "uvfits" -> file.layout = "uvfits" /\ WellFormedUvfits(file.content)
    [] FormatOf(name) = "ms" -> file.layout = "ms" /\ WellFormedMs(file.content)
    [] OTHER -> TRUE

Return(result) == stage' = "returned" /\ uv' = result

FilesInit ==
  /\ vanished = FALSE
  /\ names = <<>> /\ w_term = TRUE /\ pol = "I" /\ units = "lambda"
  /\ stage = "idle" /\ i = 1 /\ found_files = <<>> /\ format_type = "uvfits"
  /\ uv = Vis(<<>>, 0, "lambda")

\* read_measurements(files, with_w, polarisation, of_units) is called.
Call(files, with_w, polarisation, of_units) ==
  /\ stage = "idle"
  /\ stage' = "scan"
  /\ names' = files /\ w_term' = with_w /\ pol' = polarisation /\ units' = of_units
  /\ UNCHANGED <<environment, build, i, found_files, format_type, uv>>

(* Looking up the names *)

SkipMissing ==
  /\ stage = "scan" /\ i <= Len(names) /\ ~Exists(names[i])
  /\ i' = i + 1
  /\ UNCHANGED <<environment, arguments, stage, found_files, format_type, uv>>

\* Faulty variant: the first name is compared as well.
RefusedNameAlways(name) ==
  \/ FormatOf(name) \notin Formats
  \/ FormatOf(name) = "ms" /\ disk[name].kind # "directory"
  \/ FormatOf(name) # format_type

\* An extension that is not known, a measurement set that is no directory, or
\* a format other than that of the first name.
RefusedName(name) ==
  \/ FormatOf(name) \notin Formats
  \/ FormatOf(name) = "ms" /\ disk[name].kind # "directory"
  \/ i > 1 /\ FormatOf(name) # format_type

RefuseName ==
  /\ stage = "scan" /\ i <= Len(names) /\ Exists(names[i]) /\ RefusedName(names[i])
  /\ Return(Failed("threw"))
  /\ UNCHANGED <<environment, arguments, i, found_files, format_type>>

KeepName ==
  /\ stage = "scan" /\ i <= Len(names) /\ Exists(names[i]) /\ ~RefusedName(names[i])
  /\ found_files' = Append(found_files, names[i])
  /\ format_type' = IF i = 1 THEN FormatOf(names[i]) ELSE format_type
  /\ i' = i + 1
  /\ UNCHANGED <<environment, arguments, stage, uv>>

(* The switch over the format *)

Unsupported ==
  \/ found_files = <<>>
  \/ format_type \in {"vis", "h5"} /\ pol # "I"
  \/ format_type = "h5" /\ "H5" \notin build
  \/ format_type = "ms" /\ "CASACORE" \notin build

Choose ==
  /\ stage = "scan" /\ i > Len(names)
  /\ i' = 1
  /\ IF Unsupported THEN Return(Failed("threw")) ELSE stage' = "read" /\ UNCHANGED uv
  /\ UNCHANGED <<environment, arguments, found_files, format_type>>

(* Reading.  What the readers make of a file that is gone: *)
Gone == {Failed(IF format_type \in {"vis", "uvfits"} THEN "threw" ELSE "uncaught")}

\* has_suffix(".h5") looks at the name as it is written, in builds with HDF5.
Suffix(name) == IF "H5" \in build THEN Extension[name] ELSE "vis"

FirstRead(name) ==
  IF ~Exists(name) THEN Gone
  ELSE CASE format_type \in {"vis", "h5"} -> read_visibility(Suffix(name), disk[name], w_term)
         [] format_type = "uvfits" -> read_uvfits(disk[name].content, pol)
         [] format_type = "ms" -> read_measurementset(disk[name].content, pol, <<>>)

NextRead(name) ==
  IF ~Exists(name) THEN Gone
  ELSE CASE format_type \in {"vis", "h5"} -> read_next_visibility(Suffix(name), disk[name], uv)
         [] format_type = "uvfits" -> read_next_uvfits(disk[name].content, uv)
         [] format_type = "ms" -> read_next_measurementset(disk[name].content, uv, pol)

Take(result) ==
  /\ uv' = result
  /\ IF result.outcome = "good"
     THEN stage' = "join" /\ i' = i + 1
     ELSE stage' = "returned" /\ UNCHANGED i
  /\ UNCHANGED <<environment, arguments, found_files, format_type>>

ReadFirst == stage = "read" /\ \E r \in FirstRead(found_files[1]) : Take(r)

ReadNext ==
  /\ stage = "join" /\ i <= Len(found_files)
  /\ \E r \in NextRead(found_files[i]) : Take(r)

\* .vis and .h5 files have no units of their own.
Finish ==
  /\ stage = "join" /\ i > Len(found_files)
  /\ Return(IF format_type \in {"vis", "h5"} THEN [uv EXCEPT !.units = units] ELSE uv)
  /\ UNCHANGED <<environment, arguments, i, found_files, format_type>>

ReadMeasurements ==
  \/ SkipMissing \/ RefuseName \/ KeepName \/ Choose \/ ReadFirst \/ ReadNext \/ Finish

\* The environment: one of the files not yet read is removed.
StillToRead(name) ==
  \/ stage = "scan" /\ name \in Range(names)
  \/ stage = "read" /\ name \in Range(found_files)
  \/ stage = "join" /\ name \in Range(SubSeq(found_files, i, Len(found_files)))

FileVanishes ==
  \E name \in Files :
    /\ ~vanished /\ StillToRead(name) /\ Exists(name)
    /\ vanished' = TRUE /\ disk' = [disk EXCEPT ![name] = Missing]
    /\ UNCHANGED <<arguments, stage, i, found_files, format_type, uv>>
=============================================================================
