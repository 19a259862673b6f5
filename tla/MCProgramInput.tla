--------------------------- MODULE MCProgramInput ---------------------------
(***************************************************************************)
(* Configurations: every source and algorithm, one key missing or wrong at *)
(* a time.  Disks: up to three files of one format, two of different ones, *)
(* in every state the readers tell apart.                                  *)
(***************************************************************************)
EXTENDS ProgramInput, TLC

(* Files *)
MCFiles == {"a.vis", "b.vis", "c.vis", "d.h5", "e.h5", "f.H5", "g.uvfits", "h.uvfits", "m.ms", "n.ms", "o.txt"}
MCExtension ==
  [f \in MCFiles |->
     CASE f \in {"a.vis", "b.vis", "c.vis"} -> "vis" [] f \in {"d.h5", "e.h5"} -> "h5"
       [] f = "f.H5" -> "H5" [] f \in {"g.uvfits", "h.uvfits"} -> "uvfits"
       [] f \in {"m.ms", "n.ms"} -> "ms" [] f = "o.txt" -> "txt"]

Row(t, w) == [u |-> 10 * t + 1, v |-> 10 * t + 2, w |-> w,
              vis |-> [re |-> 10 * t + 3, im |-> 10 * t + 4], weights |-> t]

TextFile(rows, has_w) ==
  [kind |-> "file", layout |-> "text", content |-> write_visibility(rows, has_w),
   rows |-> rows, has_w |-> has_w, sound |-> TRUE, pointing |-> 0]
H5File(rows, has_w) ==
  LET columns == [u |-> [j \in DOMAIN rows |-> rows[j].u], v |-> [j \in DOMAIN rows |-> -rows[j].v],
                  re |-> [j \in DOMAIN rows |-> rows[j].vis.re], im |-> [j \in DOMAIN rows |-> rows[j].vis.im],
                  sigma |-> [j \in DOMAIN rows |-> -rows[j].weights]]
  IN [TextFile(rows, has_w) EXCEPT !.layout = "h5",
        !.content = IF has_w THEN columns @@ [w |-> [j \in DOMAIN rows |-> rows[j].w]] ELSE columns]

WithW(t) == <<Row(t, -3), Row(t + 1, 2)>>
NoW(t) == <<Row(t, 0), Row(t + 1, 0)>>

TextFiles(t) ==
  LET good == TextFile(WithW(t), TRUE)
  IN {good, TextFile(NoW(t), FALSE), TextFile(NoW(t), TRUE), TextFile(<<>>, TRUE),
      [good EXCEPT !.content = Append(@, <<>>), !.sound = FALSE]}      \* an empty last line
H5Files(t) == {H5File(WithW(t), TRUE), H5File(NoW(t), FALSE)}

\* Two channels, three baselines; a flagged weight, a NaN and an empty cell.
Cell(t, b, c, p, pols) == [re |-> 100 * t + 10 * b + 4 * c + p + 1, im |-> b + c + p,
                     weight |-> IF b = 1 /\ c = 0 /\ p = 1 /\ pols > 1 THEN 0 ELSE b + c + p + t]
UvFitsContent(t, pols) ==
  [opens |-> TRUE, naxes |-> 7, pcount |-> 5, pointings |-> 1, ifs |-> 1,
   pols |-> pols, channels |-> 2, baselines |-> 3, pointing |-> 1, centre |-> 10 + t, delta |-> 1,
   coords |-> [b \in 0 .. 2 |-> [u |-> b + 1, v |-> 2 * b - 1, w |-> b - 1]],
   cells |-> [b \in 0 .. 2 |-> [c \in 0 .. 1 |-> [p \in 0 .. pols - 1 |->
                IF b = 2 /\ c = 1 /\ p = 0 THEN [re |-> NaN, im |-> 0, weight |-> 1]
                ELSE IF b = 0 /\ c = 1 /\ p = 0 /\ t = 1 THEN [re |-> 0, im |-> 0, weight |-> 1]
                ELSE Cell(t, b, c, p, pols)]]]]
UvFitsFile(content, sound) ==
  [kind |-> "file", layout |-> "uvfits", content |-> content, sound |-> sound, pointing |-> content.pointing]
UvFitsFiles(t) ==
  LET good == UvFitsContent(t, 2)
  IN {UvFitsFile(good, TRUE), UvFitsFile(UvFitsContent(t, 4), TRUE),
      UvFitsFile(UvFitsContent(t, 1), FALSE),
      UvFitsFile([good EXCEPT !.pointing = 2], TRUE)}
     \union {UvFitsFile(bad, FALSE) : bad \in {[good EXCEPT !.naxes = 4], [good EXCEPT !.pointings = 2],
                                              [good EXCEPT !.ifs = 2], [good EXCEPT !.opens = FALSE]}}

MsRow(t, j, channels, flagged, source) ==
  [u |-> 2 * t + j, v |-> t + j, w |-> j - 2, source |-> source, flagged |-> flagged,
   sigma |-> [p \in {"I", "LL"} |-> IF p = "I" THEN t ELSE t + 1],
   data |-> [p \in {"I", "LL"} |-> [c \in 0 .. channels - 1 |->
               [re |-> 10 * t + 3 * c + j, im |-> IF p = "I" THEN 1 ELSE 2]]]]
Ms(t, channels, flags, sources) ==
  [opens |-> TRUE, windows |-> <<channels, channels>>, frequency |-> [c \in 0 .. channels - 1 |-> c + 5],
   rows |-> [j \in DOMAIN sources |-> MsRow(t, j, channels, flags[j], sources[j])]]
MsFile(content, sound) ==
  [kind |-> "directory", layout |-> "ms", content |-> content, sound |-> sound,
   pointing |-> IF content.rows = <<>> THEN 0 ELSE content.rows[1].source]
MsFiles(t) ==
  LET good == Ms(t, 3, <<{}, {1}>>, <<1, 1>>)
  IN {MsFile(good, TRUE), MsFile(Ms(t, 1, <<{}, {}>>, <<1, 1>>), TRUE), MsFile(Ms(t, 3, <<{0}, {}>>, <<2, 2>>), TRUE),
      MsFile(Ms(t, 2, <<{}, {}>>, <<1, 1>>), FALSE),            \* two channels
      MsFile(Ms(t, 3, <<{0}, {0, 2}>>, <<1, 1>>), FALSE),       \* nothing in the first channel
      MsFile(Ms(t, 3, <<{0}, {0}>>, <<0, 0>>), TRUE),           \* the same at the origin
      MsFile(Ms(t, 3, <<{}, {}>>, <<1, 2>>), FALSE), MsFile(Ms(t, 3, <<>>, <<>>), FALSE),
      MsFile([good EXCEPT !.windows = <<3, 2>>], FALSE), MsFile([good EXCEPT !.opens = FALSE], FALSE),
      [MsFile(good, FALSE) EXCEPT !.kind = "file"]}

MCVersions ==
  [f \in MCFiles |->
     {Missing} \union
     (CASE f = "a.vis" -> TextFiles(1) [] f = "b.vis" -> TextFiles(3) [] f = "c.vis" -> {TextFile(WithW(5), TRUE)}
        [] f = "d.h5" -> H5Files(1) [] f = "e.h5" -> H5Files(3) [] f = "f.H5" -> {[H5File(WithW(5), TRUE) EXCEPT !.sound = FALSE]}
        [] f = "g.uvfits" -> UvFitsFiles(1) [] f = "h.uvfits" -> UvFitsFiles(2)
        [] f = "m.ms" -> MsFiles(1) [] f = "n.ms" -> MsFiles(2)
        [] f = "o.txt" -> {[TextFile(<<>>, FALSE) EXCEPT !.sound = FALSE]})]

Lists ==
  {<<>>, <<"a.vis">>, <<"a.vis", "b.vis">>, <<"b.vis", "a.vis">>, <<"a.vis", "b.vis", "c.vis">>,
   <<"d.h5">>, <<"d.h5", "e.h5">>, <<"f.H5">>, <<"f.H5", "d.h5">>, <<"g.uvfits">>, <<"g.uvfits", "h.uvfits">>,
   <<"m.ms">>, <<"m.ms", "n.ms">>, <<"o.txt">>, <<"c.vis", "h.uvfits">>, <<"e.h5", "c.vis">>}

Disks(list) ==
  {[f \in MCFiles |-> IF \E j \in DOMAIN list : list[j] = f
                      THEN choice[CHOOSE j \in DOMAIN list : list[j] = f] ELSE Missing] :
     choice \in {c \in [DOMAIN list -> UNION {MCVersions[f] : f \in Range(list)}] :
                   \A j \in DOMAIN list : c[j] \in MCVersions[list[j]]}}

(* Configurations *)
MCWaveletItems ==
  (<<"0">> :> <<<<0>>>>)
  @@ (<<"0", ".", ".", "8">> :> <<<<0, 8>>>>)
  @@ (<<"0", ",", "1", "2", ".", ".", "1", "6", ",", "2", "0">> :> <<<<0>>, <<12, 16>>, <<20>>>>)
  @@ (<<"3", ".", ".", "5", ",", " ", "8", ".", ".", "1", "1">> :> <<<<3, 5>>, <<8, 11>>>>)
  @@ (<<"1", "1", ",", " ", "2", ".", ".", "3", " ", ",", "7">> :> <<<<11>>, <<2, 3>>, <<7>>>>)
  @@ (<<"9", ".", ".", "1", "0">> :> <<<<9, 10>>>>)
  @@ (<<"4", ".", ".", "4", ",", "1">> :> <<<<4, 4>>, <<1>>>>)
OpenEnded == {<<"9", ".", ".">>, <<".", ".", "8">>, <<"9", ".">>}
OneWavelet == <<"0">>

On(block, set) == [key \in Names(block, set) |-> "x"]
Block(block, pairs) == [key \in Names(block, DOMAIN pairs) |-> pairs[key[2]]]

SourceBlock(s, list) ==
  IF s = "measurements"
  THEN Block(s, [measurements_polarization |-> "I", warm_start |-> "x", measurements_files |-> list,
                 measurements_units |-> "radians", measurements_sigma |-> "x"]) @@ On(s, {""})
  ELSE Block(s, [skymodel |-> "x", signal_to_noise |-> "x", number_of_measurements |-> "x", sim_J |-> "x",
                 w_rms |-> "x", coverage_files |-> list, coverage_units |-> "pixels"]) @@ On(s, {""})

FbBlock(nondiff, diff) ==
  Block("fb", [mpiAlgorithm |-> "none", relVarianceConvergence |-> "x", stepsize |-> "x",
               regularisation_parameter |-> "x", dualFBVarianceConvergence |-> "x",
               nondiffFuncType |-> nondiff, diffFuncType |-> diff])
  @@ (IF nondiff = "denoiser" THEN On("fb", {"model_path"}) ELSE << >>)
  @@ (IF diff = "CRR" THEN On("fb", {"CRR_function_model_path", "CRR_gradient_model_path", "CRR_mu", "CRR_lambda"}) ELSE << >>)

\* Every algorithm's block is there, as in the file purify comes with.
AlgorithmBlocks(a, nondiff, diff) ==
  Block("algorithm", [algorithm |-> a]) @@ FbBlock(nondiff, diff)
  @@ On("fb", {"jmap_iters", "jmap_relVarianceConvergence", "jmap_objVarianceConvergence", "jmap_alpha", "jmap_beta"})
  @@ Block("padmm", [epsilonConvergenceScaling |-> "x", mpiAlgorithm |-> "serial-equivalent", relVarianceConvergence |-> "x",
                     update_iters |-> "x", update_tolerance |-> "x", dualFBVarianceConvergence |-> "x"])
  @@ Block("primaldual", [epsilonConvergenceScaling |-> "x", mpiAlgorithm |-> "random-updates", relVarianceConvergence |-> "x",
                     update_iters |-> "x", update_tolerance |-> "x", precondition_iters |-> "x"])

MCOperatorKeys ==
  {"kernel", "oversampling", "powMethod_iter", "powMethod_tolerance", "eigenvector_real", "eigenvector_imag",
   "cellsizex", "cellsizey", "width", "height", "Jx", "Jy", "Jw", "gpu", "wprojection", "mpi_wstacking",
   "mpi_all_to_all", "kmeans_iters"}

Config(s, a, nondiff, diff, list, fold, text) ==
  Block("general", [logging |-> "x", iterations |-> "x", epsilonScaling |-> "x", output_prefix |-> "x",
                    source |-> s, version |-> "4.2.0"])
  @@ SourceBlock(s, list)
  @@ On("operators", MCOperatorKeys) @@ Block("operators", [conjugate_w |-> fold])
  @@ Block("SARA", [wavelet_dict |-> text, wavelet_levels |-> "x", realValueConstraint |-> "x", positiveValueConstraint |-> "x"])
  @@ AlgorithmBlocks(a, nondiff, diff)

WithKey(c, key, value) == (key :> value) @@ c
Without(c, key) == [x \in DOMAIN c \ {key} |-> c[x]]

Plain(s, a) == Config(s, a, "l1", "l2", <<"c.vis">>, TRUE, OneWavelet)
Kinds == {"l1", "denoiser", "none"} \X {"l2", "CRR"}
Accepted ==
  {Plain(s, a) : s \in {"measurements", "simulation", "other"}, a \in {"padmm", "primaldual", "sdmm"}}
  \union {Config("measurements", a, x[1], x[2], <<"c.vis">>, FALSE, OneWavelet) :
            a \in {"fb", "fb_joint_map"}, x \in Kinds}
  \union {Config("measurements", "padmm", "l1", "l2", <<"c.vis">>, FALSE, t) : t \in DOMAIN MCWaveletItems \union OpenEnded}
  \union {Config("simulation", "padmm", "l1", "l2", l, TRUE, OneWavelet) : l \in {<<>>, <<NoName>>, <<"a.vis", "c.vis">>}}
Faulty ==
  LET bases == {Plain("measurements", "padmm"), Plain("simulation", "primaldual"),
                Config("measurements", "fb_joint_map", "denoiser", "CRR", <<"c.vis">>, TRUE, OneWavelet)}
  IN UNION {{Without(c, key) : key \in DOMAIN c} : c \in bases}
     \union UNION {{WithKey(c, key, "unknown") :
                     key \in {x \in DOMAIN c : x[2] \in (DOMAIN Tables) \union
                               {"measurements_units", "coverage_units", "version"}}} : c \in bases}
     \union {WithKey(Plain("measurements", "padmm"), key, Unconvertible) :
               key \in {<<"general", "iterations">>, <<"measurements", "w_term">>, <<"operators", "Jx">>, <<"padmm", "update_iters">>}}
     \union {WithKey(Plain("measurements", "padmm"), <<"simulation", "">>, "x")}

\* main with every list of files, with and without a w column.
Runs ==
  {[section |-> "file", config |-> c, disk |-> d, build |-> {"H5", "CASACORE"}] :
     c \in Accepted \union Faulty \union {NoFile}, d \in {[f \in MCFiles |-> IF f = "c.vis" THEN TextFile(WithW(5), TRUE) ELSE Missing]}}
  \union UNION {{[section |-> "file", config |-> WithKey(Config("measurements", "padmm", "l1", "l2", l, TRUE, OneWavelet),
                                                  <<"measurements", "w_term">>, w),
                  disk |-> d, build |-> {"H5", "CASACORE"}] : d \in Disks(l), w \in BOOLEAN} : l \in Lists}

\* Other programs, with other polarisations and builds.
Calls ==
  UNION {{[section |-> "library", config |-> [names |-> l, w_term |-> FALSE, pol |-> p, units |-> "radians"],
           disk |-> d, build |-> b] : d \in Disks(l), p \in {"I", "LL"}, b \in {{}, {"CASACORE"}}} :
         l \in {x \in Lists : Len(x) <= 1} \union {<<"m.ms", "n.ms">>}}

MCBeginnings == Runs \union Calls
=============================================================================
