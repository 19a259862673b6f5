--------------------------- MODULE PurifyRunProofs ---------------------------
(***************************************************************************)
(* Proofs about PurifyRun, for any number of ranks and of iterations and   *)
(* any configuration: the ranks agree on the collective calls (CallsMatch),*)
(* leave the loop together (LeaveTogether), and only the root writes, each *)
(* result once (OneWriter).                                                *)
(*                                                                         *)
(* A rank may run ahead of another as long as it makes no collective call, *)
(* by several functions of main, and by one iteration.  The invariant      *)
(* compares what the ranks still have to call together, up to the loop and *)
(* then iteration by iteration (laps).                                     *)
(***************************************************************************)
EXTENDS PurifyRun, Lists

\* The collective calls, and those of a list.
Shared ==
  {"scatter", "sum_weights", "sum_size", "kmeans", "w_support", "all_to_all", "max_u",
   "max_v", "exchange_indices", "broadcast_eigenvector", "recv_grid", "send_grid",
   "all_sum_image", "sum_power_method", "sum_root_size", "sum_sara", "max_step_size",
   "sum_density", "max_weight", "max_alpha", "land_residual", "l2_norm", "objective",
   "broadcast_measurements", "broadcast_wavelets"}
Names == Shared \cup OwnCalls
Cols(calls) == Kept(calls, Shared)

\* The collective calls of the functions from a stage of the setup up to the loop, as a
\* rank other than the root makes them; Size stands for such a rank.
FromEstimate == Cols(Direct)
FromAlgorithm == Joined(Cols(AlgorithmCalls), FromEstimate)
FromOutputs == Joined(Cols(OutputCalls(Size)), FromAlgorithm)
FromOperator == Joined(Cols(OperatorCalls), FromOutputs)
FromInput == Joined(Cols(InputCalls(Size)), FromOperator)

After(st) ==
  IF st \in {"configure", "input"} THEN FromInput
  ELSE IF st = "operator" THEN FromOperator
  ELSE IF st = "outputs" THEN FromOutputs
  ELSE IF st = "algorithm" THEN FromAlgorithm
  ELSE IF st = "estimate" THEN FromEstimate
  ELSE <<>>

Dead == {"threw", "aborted"}
Done(r) == stage[r] \in {"finish", "returned"}

\* A rank that goes on: it has not ended and is not about to end.
Live(r) ==
  /\ stage[r] \notin Dead
  /\ todo[r] # <<>> => Head(todo[r]) \notin {"throw", "abort"}

\* Lap 0 is the setup, lap n the iteration n, the last lap what follows the loop.
Lap(r) == IF Done(r) THEN iter[r] + 1 ELSE iter[r]

\* The collective calls a rank still makes in its lap, and those of a whole lap.
Ahead(r) == Joined(Cols(todo[r]), After(stage[r]))
Whole(r) == Cols(IF Done(r) THEN FinalCalls(r) ELSE IterationCalls(r))

SetupStages == {"configure", "input", "operator", "outputs", "algorithm", "estimate"}

Typing ==
  /\ stage \in [Ranks -> Stages]
  /\ todo \in [Ranks -> Seq(Names)]
  /\ iter \in [Ranks -> 0 .. IterMax]
  /\ gamma \in [Ranks -> {0, 1}]
  /\ good \in [Ranks -> BOOLEAN]
  /\ DOMAIN sigma = Ranks
  /\ written \in [Ranks -> Seq(Files)]
  /\ \A r \in Ranks : stage[r] \in SetupStages => iter[r] = 0
  /\ \A r \in Ranks : stage[r] \in Dead \cup {"returned"} => todo[r] = <<>>

\* The calls a rank may have to make at a stage, n iterations begun: those that change the
\* step size or decide by themselves occur in their places only, the functions of the loop
\* do not fail, and with MPI only the root writes.
Permitted(r, st, n) ==
  {call \in Names :
    /\ params.algorithm = "fb" => call # "max_step_size"
    /\ n = 0 => call # "max_alpha"
    /\ Local \/ params.algorithm = "fb" => call # "l2_norm"
    /\ using_mpi => call # "decide_alone" /\ (r # Root => call \notin Files)
    /\ st \in {"iterate", "finish", "returned"} => call \notin {"throw", "abort"}}

Contents == \A r \in Ranks : todo[r] \in Seq(Permitted(r, stage[r], iter[r]))

\* What the ranks hold alike, so that they derive the same calls.
StepSizesAlike ==
  \A r, q \in Ranks :
    IF params.algorithm = "fb"
    THEN stage[r] \notin SetupStages \cup Dead \/ stage[r] = "estimate" => gamma[r] = 1
    ELSE gamma[r] = gamma[q]
VerdictsAlike == using_mpi => \A r, q \in Ranks : good[r] = good[q]

\* Two ranks in one lap have the same collective calls ahead.  A rank in an earlier lap
\* has none left, and the one in front has made none of its lap yet.
InStep(r, q) ==
  /\ Lap(r) = Lap(q) => Ahead(r) = Ahead(q)
  /\ Lap(r) < Lap(q) => Ahead(r) = <<>> /\ Cols(todo[q]) = Whole(q)

\* With MPI the laps differ by at most one and the ranks leave the loop alike.
SameWay(r, q) ==
  using_mpi =>
    /\ Lap(r) = Lap(q) => (Done(r) <=> Done(q))
    /\ Lap(r) < Lap(q) =>
         /\ ~Done(r) /\ Lap(q) = Lap(r) + 1
         /\ Done(q) <=> (good[r] \/ iter[r] = IterMax)

LapsAligned ==
  /\ \A r, q \in Ranks : Live(r) /\ Live(q) => InStep(r, q) /\ SameWay(r, q)
  /\ ~using_mpi => \A r \in Ranks : Live(r) /\ Lap(r) > 0 => Cols(todo[r]) = <<>>

Alike == StepSizesAlike /\ VerdictsAlike /\ LapsAligned

RunInv == Typing /\ Contents /\ (JudgeAlike => Alike)

\* Writes of f still to come in the functions after a stage of the root.
Later(st, f) ==
  IF f \in {"sol_update", "res_update"} THEN 0
  ELSE IF f \in {"purified", "residuals"}
  THEN IF st \in {"finish", "returned"} THEN 0 ELSE 1
  ELSE IF st \in {"configure", "input", "operator", "outputs"} THEN 1 ELSE 0

Writes(calls, f) == Len(Kept(calls, {f}))

\* The writes of f the root has made and has still to make, and those it makes in a run of
\* n iterations.
Tally(f) == Times(Root, f) + Writes(todo[Root], f) + Later(stage[Root], f)
Due(f, n) == IF f \in {"sol_update", "res_update"} THEN n ELSE 1

WriterInv ==
  using_mpi =>
    /\ \A r \in Ranks \ {Root} : written[r] = <<>>
    /\ stage[Root] \notin Dead => \A f \in Files : Tally(f) = Due(f, iter[Root])

------------------------------------------------------------------------------
(***************************************************************************)
(* The lists of calls                                                      *)
(***************************************************************************)

\* The calls of the operator, those of the setup but for the files and the algorithm, those
\* of the algorithm and those of an iteration.
GridCalls == {"recv_grid", "send_grid", "all_sum_image"}
SetupCalls ==
  {"throw", "abort", "scatter", "sum_weights", "sum_size", "kmeans", "w_support",
   "all_to_all", "max_u", "max_v", "exchange_indices", "recv_grid", "send_grid",
   "all_sum_image", "broadcast_eigenvector", "sum_power_method"}
StepCalls == {"sum_size", "sum_root_size", "sum_sara", "sum_density", "max_weight"}
LapCalls == {"max_alpha", "land_residual", "objective",
             "broadcast_measurements", "broadcast_wavelets"}

LEMMA NamesKnown ==
  /\ Files \subseteq OwnCalls /\ {"throw", "abort", "decide_alone"} \subseteq OwnCalls
  /\ OwnCalls \subseteq Names /\ Shared \subseteq Names /\ Shared \cap OwnCalls = {}
  /\ SetupCalls \cup StepCalls \cup LapCalls \cup {"max_step_size", "l2_norm"} \subseteq Names
  /\ "l2_norm" \notin SetupCalls \cup StepCalls \cup LapCalls \cup Files \cup {"max_step_size"}
  /\ SetupCalls \cap Files = {} /\ StepCalls \cap Files = {} /\ LapCalls \cap Files = {}
  /\ "max_step_size" \notin SetupCalls \cup StepCalls \cup LapCalls \cup Files
  /\ "max_alpha" \notin SetupCalls \cup StepCalls \cup Files \cup {"max_step_size"}
  /\ "decide_alone" \notin SetupCalls \cup StepCalls \cup LapCalls \cup Files \cup {"max_step_size"}
  /\ "max_step_size" \notin Files
  /\ GridCalls \subseteq SetupCalls /\ {"throw", "abort"} \cap (GridCalls \cup LapCalls) = {}
  /\ {"throw", "abort"} \cap Files = {}
BY DEF Names, OwnCalls, Files, Shared, GridCalls, SetupCalls, StepCalls, LapCalls

\* Lists of at most three calls, and the lists that depend on the rank or on MPI.
LEMMA ShortLists ==
  ASSUME NEW B
  PROVE  /\ <<>> \in Seq(B)
         /\ \A a \in B : <<a>> \in Seq(B)
         /\ \A a, b \in B : <<a, b>> \in Seq(B)
         /\ \A a, b, c \in B : <<a, b, c>> \in Seq(B)
OBVIOUS

LEMMA GuardedLists ==
  ASSUME NEW B, NEW calls \in Seq(B)
  PROVE  OnlyMpi(calls) \in Seq(B) /\ \A r : RootWrites(r, calls) \in Seq(B)
BY DEF OnlyMpi, RootWrites

LEMMA GridLists ==
  ASSUME NEW B, GridCalls \subseteq B
  PROVE  Direct \in Seq(B) /\ Adjoint \in Seq(B)
BY ShortLists DEF GridCalls, Direct, Adjoint

LEMMA OperatorLists ==
  ASSUME NEW B, SetupCalls \subseteq B
  PROVE  /\ Construct \in Seq(B) /\ Direct \in Seq(B) /\ Adjoint \in Seq(B)
         /\ \A fault : FailsOn(fault) \in Seq(B)
<1>1. {"exchange_indices", "throw"} \subseteq B /\ GridCalls \subseteq B
  BY NamesKnown DEF SetupCalls
<1>2. QED
  BY <1>1, ShortLists, GridLists DEF Construct, FailsOn

LEMMA SetupLists ==
  ASSUME NEW B, SetupCalls \subseteq B
  PROVE  OperatorCalls \in Seq(B) /\ \A r : InputCalls(r) \in Seq(B)
<1>1. /\ {"scatter", "sum_weights", "sum_size", "kmeans", "w_support", "all_to_all"} \subseteq B
      /\ {"throw", "abort", "max_u", "max_v", "broadcast_eigenvector", "sum_power_method"} \subseteq B
  BY DEF SetupCalls
<1>2. \A r : ReadFiles(r) \in Seq(B)
  BY <1>1, ShortLists DEF ReadFiles, OnlyMpi
<1>3. WStacking \in Seq(B)
  BY <1>1, ShortLists DEF WStacking
<1>4. /\ OnlyMpi(<<"sum_weights", "sum_size">>) \in Seq(B)
      /\ OnlyMpi(<<"max_u", "max_v">>) \in Seq(B)
      /\ OnlyMpi(<<"broadcast_eigenvector">>) \in Seq(B)
      /\ <<"sum_power_method">> \in Seq(B) /\ <<>> \in Seq(B)
  BY <1>1, ShortLists DEF OnlyMpi
<1>5. OperatorCalls \in Seq(B)
  BY <1>4, OperatorLists DEF OperatorCalls
<1>6. \A r : InputCalls(r) \in Seq(B)
  BY <1>2, <1>3, <1>4, OperatorLists DEF InputCalls
<1>7. QED
  BY <1>5, <1>6

LEMMA OutputLists ==
  ASSUME NEW B, SetupCalls \subseteq B, NEW r, ~using_mpi \/ r = Root => Files \subseteq B
  PROVE  OutputCalls(r) \in Seq(B)
<1>1. \A calls \in Seq(Files \cup {"throw"}) : RootWrites(r, calls) \in Seq(B)
  <2>1. SUFFICES ASSUME NEW calls \in Seq(Files \cup {"throw"})
                 PROVE  RootWrites(r, calls) \in Seq(B)
    OBVIOUS
  <2>2. "throw" \in B
    BY DEF SetupCalls
  <2>3. CASE ~using_mpi \/ r = Root
    BY <2>2, <2>3, SeqMonotonic DEF RootWrites
  <2>4. CASE ~(~using_mpi \/ r = Root)
    BY <2>4, ShortLists DEF RootWrites
  <2>5. QED
    BY <2>3, <2>4
<1>2. /\ FailsOn("output") \in Seq(Files \cup {"throw"})
      /\ <<"config", "eigenvector_real", "eigenvector_imag">> \in Seq(Files \cup {"throw"})
      /\ <<"psf">> \in Seq(Files \cup {"throw"}) /\ <<"dirty">> \in Seq(Files \cup {"throw"})
  BY ShortLists DEF Files, FailsOn
<1> DEFINE opening == FailsOn("output") \o <<"config", "eigenvector_real", "eigenvector_imag">>
<1>3. opening \in Seq(Files \cup {"throw"})
  BY <1>2
<1> HIDE DEF opening
<1>4. /\ RootWrites(r, opening) \in Seq(B)
      /\ RootWrites(r, <<"psf">>) \in Seq(B) /\ RootWrites(r, <<"dirty">>) \in Seq(B)
  BY <1>1, <1>2, <1>3
<1>5. OnlyMpi(<<"sum_size">>) \in Seq(B) /\ Adjoint \in Seq(B)
  <2>1. "sum_size" \in B
    BY DEF SetupCalls
  <2>2. QED
    BY <2>1, ShortLists, OperatorLists DEF OnlyMpi
<1>6. QED
  BY <1>4, <1>5 DEF OutputCalls, opening

LEMMA FinalLists ==
  ASSUME NEW B, GridCalls \subseteq B, NEW r,
         ~using_mpi \/ r = Root => {"purified", "residuals"} \subseteq B
  PROVE  FinalCalls(r) \in Seq(B)
<1>1. RootWrites(r, <<"purified", "residuals">>) \in Seq(B)
  BY ShortLists DEF RootWrites
<1>2. QED
  BY <1>1, GridLists DEF FinalCalls

LEMMA AlgorithmLists ==
  ASSUME NEW B, SetupCalls \cup StepCalls \subseteq B,
         params.algorithm # "fb" => "max_step_size" \in B
  PROVE  AlgorithmCalls \in Seq(B)
<1>1. {"sum_size", "sum_root_size", "sum_sara", "sum_density", "max_weight", "throw"} \subseteq B
  BY DEF StepCalls, SetupCalls
<1>2. EpsilonCalls \in Seq(B)
  <2>1. /\ <<"sum_size", "sum_size">> \in Seq(B) /\ <<"sum_size", "sum_root_size">> \in Seq(B)
        /\ <<"sum_sara", "sum_sara">> \in Seq(B) /\ <<>> \in Seq(B)
    BY <1>1, ShortLists
  <2>2. QED
    BY <2>1 DEF EpsilonCalls
<1>3. /\ OnlyMpi(<<"sum_density", "max_weight">>) \in Seq(B)
      /\ <<"throw">> \in Seq(B) /\ <<>> \in Seq(B) /\ Adjoint \in Seq(B)
  BY <1>1, ShortLists, OperatorLists DEF OnlyMpi
<1>4. params.algorithm # "fb" => OnlyMpi(<<"max_step_size">>) \in Seq(B)
  BY <1>3, ShortLists DEF OnlyMpi
<1>5. QED
  BY <1>2, <1>3, <1>4 DEF AlgorithmCalls

LEMMA LapLists ==
  ASSUME NEW B, GridCalls \cup LapCalls \subseteq B, ~using_mpi => "decide_alone" \in B,
         Local \/ params.algorithm = "fb" \/ "l2_norm" \in B,
         NEW r, ~using_mpi \/ r = Root => {"sol_update", "res_update"} \subseteq B
  PROVE  /\ UpdaterCalls(r) \in Seq(B) /\ IterationCalls(r) \in Seq(B)
         /\ ConvergenceCalls \in Seq(B)
<1>1. LapCalls \subseteq B /\ Direct \in Seq(B) /\ Adjoint \in Seq(B)
  BY GridLists
<1>2. ConvergenceCalls \in Seq(B)
  <2>1. /\ <<"land_residual">> \in Seq(B) /\ ("l2_norm" \in B => <<"l2_norm">> \in Seq(B))
        /\ <<"objective">> \in Seq(B) /\ <<>> \in Seq(B)
        /\ ~using_mpi => <<"decide_alone">> \in Seq(B)
    BY <1>1, ShortLists DEF LapCalls
  <2>2. QED
    BY <2>1 DEF ConvergenceCalls
<1>3. UpdaterCalls(r) \in Seq(B)
  <2>1. OnlyMpi(<<"max_alpha">>) \in Seq(B) /\ <<>> \in Seq(B)
    BY <1>1, ShortLists DEF LapCalls, OnlyMpi
  <2>2. RootWrites(r, <<"sol_update", "res_update">>) \in Seq(B)
    BY <2>1, ShortLists DEF RootWrites
  <2>3. QED
    BY <1>1, <2>1, <2>2 DEF UpdaterCalls
<1>4. <<"broadcast_measurements", "broadcast_wavelets">> \in Seq(B) /\ <<>> \in Seq(B)
  BY <1>1, ShortLists DEF LapCalls
<1>5. QED
  BY <1>1, <1>2, <1>3, <1>4 DEF IterationCalls

\* The lists of calls of a run and those of its collective calls.
LEMMA ListsKnown ==
  /\ OperatorCalls \in Seq(Names) /\ AlgorithmCalls \in Seq(Names) /\ Direct \in Seq(Names)
  /\ Adjoint \in Seq(Names) /\ ConvergenceCalls \in Seq(Names)
  /\ \A r : /\ InputCalls(r) \in Seq(Names) /\ OutputCalls(r) \in Seq(Names)
            /\ FinalCalls(r) \in Seq(Names) /\ UpdaterCalls(r) \in Seq(Names)
            /\ IterationCalls(r) \in Seq(Names)
<1>1. /\ SetupCalls \subseteq Names /\ SetupCalls \cup StepCalls \subseteq Names
      /\ GridCalls \cup LapCalls \subseteq Names /\ GridCalls \subseteq Names
      /\ {"sol_update", "res_update", "purified", "residuals"} \subseteq Names
      /\ Files \subseteq Names
      /\ "decide_alone" \in Names /\ "max_step_size" \in Names /\ "l2_norm" \in Names
  BY NamesKnown DEF Files
<1>2. /\ OperatorCalls \in Seq(Names) /\ Direct \in Seq(Names) /\ Adjoint \in Seq(Names)
      /\ \A r : InputCalls(r) \in Seq(Names)
  BY <1>1, SetupLists, OperatorLists
<1>3. AlgorithmCalls \in Seq(Names)
  BY <1>1, AlgorithmLists
<1>4. \A r : OutputCalls(r) \in Seq(Names) /\ FinalCalls(r) \in Seq(Names)
  BY <1>1, OutputLists, FinalLists
<1>5. \A r : /\ UpdaterCalls(r) \in Seq(Names) /\ IterationCalls(r) \in Seq(Names)
             /\ ConvergenceCalls \in Seq(Names)
  BY <1>1, LapLists
<1>6. QED
  BY <1>2, <1>3, <1>4, <1>5

LEMMA ColsKnown ==
  /\ \A s \in Seq(Names) : Cols(s) \in Seq(Names)
  /\ \A s, t \in Seq(Names) : /\ Joined(s, t) \in Seq(Names)
                              /\ Cols(Joined(s, t)) = Joined(Cols(s), Cols(t))
  /\ \A s \in Seq(OwnCalls) : Cols(s) = <<>>
  /\ Cols(<<>>) = <<>>
<1>1. \A s \in Seq(Names) : Cols(s) \in Seq(Names)
  BY KeptType DEF Cols
<1>2. \A s, t \in Seq(Names) : /\ Joined(s, t) \in Seq(Names)
                               /\ Cols(Joined(s, t)) = Joined(Cols(s), Cols(t))
  BY KeptJoined DEF Cols
<1>3. \A s \in Seq(OwnCalls) : Cols(s) = <<>>
  <2>1. OwnCalls \cap Shared = {}
    BY NamesKnown
  <2>2. QED
    BY <2>1, KeptNone DEF Cols
<1>4. QED
  BY <1>1, <1>2, <1>3, KeptEmpty DEF Cols

\* The files a rank writes do not matter for the collective calls.
LEMMA WritesQuiet ==
  ASSUME NEW r, NEW calls \in Seq(OwnCalls)
  PROVE  Cols(RootWrites(r, calls)) = <<>> /\ RootWrites(r, calls) \in Seq(Names)
<1>1. RootWrites(r, calls) \in Seq(OwnCalls)
  BY GuardedLists
<1>2. OwnCalls \subseteq Names
  BY NamesKnown
<1>3. QED
  BY <1>1, <1>2, ColsKnown, SeqMonotonic

\* Every rank makes the collective calls of a rank other than the root for the outputs
\* and at the end.
LEMMA OutputsAlike ==
  ASSUME NEW r
  PROVE  /\ Cols(OutputCalls(r)) = Cols(OutputCalls(Size))
         /\ Cols(FinalCalls(r)) = Cols(FinalCalls(Size))
<1> DEFINE opening == FailsOn("output") \o <<"config", "eigenvector_real", "eigenvector_imag">>
           n == OnlyMpi(<<"sum_size">>)
<1>1. opening \in Seq(OwnCalls) /\ <<"psf">> \in Seq(OwnCalls) /\ <<"dirty">> \in Seq(OwnCalls)
      /\ <<"purified", "residuals">> \in Seq(OwnCalls)
  <2>1. Files \cup {"throw"} \subseteq OwnCalls
    BY DEF OwnCalls
  <2>2. /\ FailsOn("output") \in Seq(OwnCalls)
        /\ <<"config", "eigenvector_real", "eigenvector_imag">> \in Seq(OwnCalls)
        /\ <<"psf">> \in Seq(OwnCalls) /\ <<"dirty">> \in Seq(OwnCalls)
        /\ <<"purified", "residuals">> \in Seq(OwnCalls)
    BY <2>1, ShortLists DEF FailsOn, Files
  <2>3. QED
    BY <2>2
<1>2. n \in Seq(Names) /\ Adjoint \in Seq(Names)
  BY NamesKnown, ListsKnown, ShortLists DEF OnlyMpi, SetupCalls
<1>3. \A q : /\ OutputCalls(q) = Joined(Joined(Joined(Joined(Joined(Joined(RootWrites(q, opening),
                    n), Adjoint), n), RootWrites(q, <<"psf">>)), Adjoint), RootWrites(q, <<"dirty">>))
             /\ FinalCalls(q) = Joined(Adjoint, RootWrites(q, <<"purified", "residuals">>))
  BY DEF OutputCalls, FinalCalls, Joined
<1> HIDE DEF opening, n
<1>4. \A q : /\ Cols(RootWrites(q, opening)) = <<>> /\ RootWrites(q, opening) \in Seq(Names)
             /\ Cols(RootWrites(q, <<"psf">>)) = <<>> /\ RootWrites(q, <<"psf">>) \in Seq(Names)
             /\ Cols(RootWrites(q, <<"dirty">>)) = <<>> /\ RootWrites(q, <<"dirty">>) \in Seq(Names)
             /\ Cols(RootWrites(q, <<"purified", "residuals">>)) = <<>>
             /\ RootWrites(q, <<"purified", "residuals">>) \in Seq(Names)
  BY <1>1, WritesQuiet
<1>5. \A q : /\ Cols(OutputCalls(q)) = Joined(Joined(Joined(Joined(Joined(Joined(<<>>,
                   Cols(n)), Cols(Adjoint)), Cols(n)), <<>>), Cols(Adjoint)), <<>>)
             /\ Cols(FinalCalls(q)) = Joined(Cols(Adjoint), <<>>)
  <2>1. SUFFICES ASSUME NEW q
                 PROVE  /\ Cols(OutputCalls(q)) = Joined(Joined(Joined(Joined(Joined(Joined(<<>>,
                             Cols(n)), Cols(Adjoint)), Cols(n)), <<>>), Cols(Adjoint)), <<>>)
                        /\ Cols(FinalCalls(q)) = Joined(Cols(Adjoint), <<>>)
    OBVIOUS
  <2> DEFINE a == Joined(RootWrites(q, opening), n)
             b == Joined(a, Adjoint)
             c == Joined(b, n)
             d == Joined(c, RootWrites(q, <<"psf">>))
             e == Joined(d, Adjoint)
  <2>2. a \in Seq(Names) /\ Cols(a) = Joined(<<>>, Cols(n))
    BY <1>2, <1>4, ColsKnown
  <2>3. b \in Seq(Names) /\ Cols(b) = Joined(Cols(a), Cols(Adjoint))
    BY <1>2, <2>2, ColsKnown
  <2>4. c \in Seq(Names) /\ Cols(c) = Joined(Cols(b), Cols(n))
    BY <1>2, <2>3, ColsKnown
  <2>5. d \in Seq(Names) /\ Cols(d) = Joined(Cols(c), <<>>)
    BY <1>4, <2>4, ColsKnown
  <2>6. e \in Seq(Names) /\ Cols(e) = Joined(Cols(d), Cols(Adjoint))
    BY <1>2, <2>5, ColsKnown
  <2>7. Cols(Joined(e, RootWrites(q, <<"dirty">>))) = Joined(Cols(e), <<>>)
    BY <1>4, <2>6, ColsKnown
  <2>8. OutputCalls(q) = Joined(e, RootWrites(q, <<"dirty">>))
    BY <1>3
  <2>9. Cols(FinalCalls(q)) = Joined(Cols(Adjoint), <<>>)
    BY <1>2, <1>3, <1>4, ColsKnown
  <2>10. QED
    BY <2>2, <2>3, <2>4, <2>5, <2>6, <2>7, <2>8, <2>9
<1>6. QED
  BY <1>5

\* Every rank makes the same collective calls for its input, but for a root that has to
\* abort the others because it cannot read its file.
LEMMA InputAlike ==
  ASSUME NEW r
  PROVE  \/ InputCalls(r) = InputCalls(Size)
         \/ InputCalls(r) # <<>> /\ Head(InputCalls(r)) = "abort"
<1>1. Size # Root
  BY SizeAssumption DEF Root
<1>2. CASE ReadFiles(r) = ReadFiles(Size)
  BY <1>2 DEF InputCalls
<1>3. CASE ReadFiles(r) # ReadFiles(Size)
  <2>1. ReadFiles(r) = <<"abort">> /\ params.fault = "file"
    BY <1>1, <1>3 DEF ReadFiles
  <2>2. FailsOn("eigenvector") = <<>> /\ FailsOn("skymodel") = <<>>
    BY <2>1 DEF FailsOn
  <2> DEFINE a == <<"abort">>
  <2>3. \A s, t \in Seq(Names) : /\ <<>> \o s = s
                                 /\ s # <<>> => s \o t # <<>> /\ Head(s \o t) = Head(s)
                                 /\ s \o t \in Seq(Names)
    OBVIOUS
  <2>4. /\ OnlyMpi(<<"sum_weights", "sum_size">>) \in Seq(Names) /\ WStacking \in Seq(Names)
        /\ OnlyMpi(<<"max_u", "max_v">>) \in Seq(Names) /\ Construct \in Seq(Names)
        /\ Direct \in Seq(Names) /\ a \in Seq(Names) /\ a # <<>> /\ Head(a) = "abort"
    <3>1. {"sum_weights", "sum_size", "max_u", "max_v", "kmeans", "w_support",
           "all_to_all", "abort"} \subseteq Names
      BY NamesKnown DEF SetupCalls
    <3>2. QED
      BY <3>1, NamesKnown, ShortLists, OperatorLists DEF OnlyMpi, WStacking
  <2>5. CASE params.source = "measurements"
    BY <2>1, <2>2, <2>3, <2>4, <2>5 DEF InputCalls
  <2>6. CASE params.source = "simulation"
    BY <2>1, <2>2, <2>3, <2>4, <2>6 DEF InputCalls
  <2>7. CASE params.source \notin {"measurements", "simulation"}
    BY <2>7 DEF InputCalls
  <2>8. QED
    BY <2>5, <2>6, <2>7
<1>4. QED
  BY <1>2, <1>3

\* With MPI every iteration has a collective call, its last; without MPI neither an
\* iteration nor what follows the loop has any.
LEMMA LapCols ==
  ASSUME NEW r
  PROVE  /\ using_mpi => Cols(IterationCalls(r)) # <<>>
         /\ ~using_mpi => Cols(IterationCalls(r)) = <<>> /\ Cols(FinalCalls(r)) = <<>>
<1> DEFINE updates == IF params.dist = "mpi_random_updates"
                      THEN <<"broadcast_measurements", "broadcast_wavelets">> ELSE <<>>
           front == Joined(Joined(Joined(Direct, Adjoint), updates), UpdaterCalls(r))
<1>1. updates \in Seq(Names)
  BY NamesKnown, ShortLists DEF LapCalls
<1>2. IterationCalls(r) = Joined(front, ConvergenceCalls)
  BY DEF IterationCalls, Joined
<1> HIDE DEF updates
<1>3. front \in Seq(Names) /\ ConvergenceCalls \in Seq(Names)
  BY <1>1, ColsKnown, ListsKnown
<1>4. Cols(IterationCalls(r)) = Joined(Cols(front), Cols(ConvergenceCalls))
  BY <1>2, <1>3, ColsKnown
<1>5. ASSUME using_mpi PROVE Cols(IterationCalls(r)) # <<>>
  <2>1. \E k \in 1 .. Len(ConvergenceCalls) : ConvergenceCalls[k] \in Shared
    <3>1. "objective" \in Shared
      BY DEF Shared
    <3>2. ConvergenceCalls[Len(ConvergenceCalls)] = "objective" /\ Len(ConvergenceCalls) > 0
      BY <1>5 DEF ConvergenceCalls
    <3>3. QED
      BY <1>3, <3>1, <3>2
  <2>2. Cols(ConvergenceCalls) # <<>>
    BY <1>3, <2>1, KeptNothing DEF Cols
  <2>3. QED
    BY <1>3, <1>4, <2>2, ColsKnown, JoinedEmpty
<1>6. ASSUME ~using_mpi
      PROVE  Cols(IterationCalls(r)) = <<>> /\ Cols(FinalCalls(r)) = <<>>
  <2>1. Direct = <<>> /\ Adjoint = <<>> /\ updates = <<>>
    BY <1>6 DEF Direct, Adjoint, AllToAll, mop_algo, using_mpi, updates
  <2>2. /\ <<"sol_update", "res_update">> \in Seq(OwnCalls) /\ <<>> \in Seq(OwnCalls)
        /\ <<"purified", "residuals">> \in Seq(OwnCalls) /\ <<"decide_alone">> \in Seq(OwnCalls)
    BY ShortLists DEF OwnCalls, Files
  <2>3. UpdaterCalls(r) \in Seq(OwnCalls)
    <3>1. OnlyMpi(<<"max_alpha">>) = <<>>
      BY <1>6 DEF OnlyMpi
    <3>2. RootWrites(r, <<"sol_update", "res_update">>) \in Seq(OwnCalls)
      BY <2>2, GuardedLists
    <3>3. QED
      BY <2>1, <2>2, <3>1, <3>2 DEF UpdaterCalls
  <2>4. ConvergenceCalls \in Seq(OwnCalls)
    BY <1>6, <2>2 DEF ConvergenceCalls
  <2>5. IterationCalls(r) \in Seq(OwnCalls)
    BY <1>2, <2>1, <2>2, <2>3, <2>4 DEF Joined
  <2>6. FinalCalls(r) \in Seq(OwnCalls)
    <3>1. RootWrites(r, <<"purified", "residuals">>) \in Seq(OwnCalls)
      BY <2>2, GuardedLists
    <3>2. QED
      BY <2>1, <2>2, <3>1 DEF FinalCalls
  <2>7. QED
    BY <2>5, <2>6, ColsKnown
<1>7. QED
  BY <1>5, <1>6

\* Ranks with step sizes of the same sign make the same collective calls in an iteration.
LEMMA LapsAlike ==
  ASSUME NEW r, NEW q, gamma[r] > 0 <=> gamma[q] > 0
  PROVE  Cols(IterationCalls(r)) = Cols(IterationCalls(q))
<1> DEFINE updates == IF params.dist = "mpi_random_updates"
                      THEN <<"broadcast_measurements", "broadcast_wavelets">> ELSE <<>>
           front == Joined(Joined(Direct, Adjoint), updates)
           step == IF gamma[r] > 0 THEN OnlyMpi(<<"max_alpha">>) ELSE <<>>
           images(p) == RootWrites(p, <<"sol_update", "res_update">>)
<1>1. front \in Seq(Names)
  BY NamesKnown, ShortLists, ColsKnown, ListsKnown DEF LapCalls
<1>2. step \in Seq(Names)
  BY NamesKnown, ShortLists DEF LapCalls, OnlyMpi
<1>3. \A p : Cols(images(p)) = <<>> /\ images(p) \in Seq(Names)
  <2>1. <<"sol_update", "res_update">> \in Seq(OwnCalls)
    BY ShortLists DEF OwnCalls, Files
  <2>2. QED
    BY <2>1, WritesQuiet
<1>4. \A p \in {r, q} :
        IterationCalls(p) = Joined(Joined(front, Joined(Joined(step, Adjoint), images(p))),
                                   ConvergenceCalls)
  BY DEF IterationCalls, UpdaterCalls, Joined
<1> HIDE DEF front, step, images
<1>5. \A p \in {r, q} :
        Cols(IterationCalls(p)) =
          Joined(Joined(Cols(front), Joined(Joined(Cols(step), Cols(Adjoint)), <<>>)),
                 Cols(ConvergenceCalls))
  <2>1. SUFFICES ASSUME NEW p \in {r, q}
                 PROVE  Cols(IterationCalls(p)) =
                          Joined(Joined(Cols(front), Joined(Joined(Cols(step), Cols(Adjoint)), <<>>)),
                                 Cols(ConvergenceCalls))
    OBVIOUS
  <2> DEFINE a == Joined(step, Adjoint)
             b == Joined(a, images(p))
             c == Joined(front, b)
  <2>2. a \in Seq(Names) /\ Cols(a) = Joined(Cols(step), Cols(Adjoint))
    BY <1>2, ColsKnown, ListsKnown
  <2>3. b \in Seq(Names) /\ Cols(b) = Joined(Cols(a), <<>>)
    BY <1>3, <2>2, ColsKnown
  <2>4. c \in Seq(Names) /\ Cols(c) = Joined(Cols(front), Cols(b))
    BY <1>1, <2>3, ColsKnown
  <2>5. Cols(Joined(c, ConvergenceCalls)) = Joined(Cols(c), Cols(ConvergenceCalls))
    BY <2>4, ColsKnown, ListsKnown
  <2>6. QED
    BY <1>4, <2>1, <2>2, <2>3, <2>4, <2>5
<1>6. QED
  BY <1>5

\* The lists follow from the configuration, which does not change, and, within the loop,
\* from the step size.
LEMMA ListsKept ==
  ASSUME params' = params
  PROVE  /\ FromInput' = FromInput /\ FromOperator' = FromOperator
         /\ FromOutputs' = FromOutputs /\ FromAlgorithm' = FromAlgorithm
         /\ FromEstimate' = FromEstimate
         /\ \A r : gamma'[r] = gamma[r] => IterationCalls(r)' = IterationCalls(r)
         /\ \A r : FinalCalls(r)' = FinalCalls(r)
         /\ using_mpi' = using_mpi /\ Local' = Local
<1>1. using_mpi' = using_mpi /\ Local' = Local
  BY DEF using_mpi, Local
<1>2. Direct' = Direct /\ Adjoint' = Adjoint /\ Construct' = Construct
  BY DEF Direct, Adjoint, Construct, AllToAll, mop_algo
<1>3. /\ \A calls : OnlyMpi(calls)' = OnlyMpi(calls)
      /\ \A r, calls : RootWrites(r, calls)' = RootWrites(r, calls)
      /\ \A fault : FailsOn(fault)' = FailsOn(fault)
  BY <1>1 DEF OnlyMpi, RootWrites, FailsOn
<1>4. WStacking' = WStacking /\ \A r : ReadFiles(r)' = ReadFiles(r)
  BY <1>1, <1>3 DEF WStacking, AllToAll, mop_algo, ReadFiles, OnlyMpi
<1>5. InputCalls(Size)' = InputCalls(Size)
  BY <1>2, <1>3, <1>4 DEF InputCalls, OnlyMpi, FailsOn, ReadFiles, using_mpi
<1>6. OperatorCalls' = OperatorCalls
  BY <1>1, <1>2 DEF OperatorCalls, OnlyMpi
<1>7. /\ OutputCalls(Size)' = OutputCalls(Size)
      /\ \A r : FinalCalls(r)' = FinalCalls(r)
  BY <1>1, <1>2 DEF OutputCalls, FinalCalls, OnlyMpi, RootWrites, FailsOn
<1>8. AlgorithmCalls' = AlgorithmCalls
  BY <1>1, <1>2 DEF AlgorithmCalls, EpsilonCalls, Recognised, OnlyMpi
<1>9. ConvergenceCalls' = ConvergenceCalls
  BY <1>1 DEF ConvergenceCalls
<1>10. \A r : gamma'[r] = gamma[r] => IterationCalls(r)' = IterationCalls(r)
  BY <1>1, <1>2, <1>9 DEF IterationCalls, UpdaterCalls, OnlyMpi, RootWrites
<1>11. FromInput' = FromInput /\ FromOperator' = FromOperator /\ FromOutputs' = FromOutputs
       /\ FromAlgorithm' = FromAlgorithm /\ FromEstimate' = FromEstimate
  BY <1>2, <1>5, <1>6, <1>7, <1>8
     DEF FromInput, FromOperator, FromOutputs, FromAlgorithm, FromEstimate
<1>12. QED
  BY <1>1, <1>7, <1>10, <1>11

------------------------------------------------------------------------------
(***************************************************************************)
(* What a rank has to do, whatever the others do                           *)
(***************************************************************************)

\* The functions of main make permitted calls only.
LEMMA ListsPermitted ==
  ASSUME NEW r, NEW n
  PROVE  /\ FailsOn("version") \in Seq(Permitted(r, "input", n))
         /\ InputCalls(r) \in Seq(Permitted(r, "operator", n))
         /\ OperatorCalls \in Seq(Permitted(r, "outputs", n))
         /\ OutputCalls(r) \in Seq(Permitted(r, "algorithm", n))
         /\ AlgorithmCalls \in Seq(Permitted(r, "estimate", n))
         /\ Direct \in Seq(Permitted(r, "iterate", n))
         /\ n # 0 => IterationCalls(r) \in Seq(Permitted(r, "iterate", n))
         /\ FinalCalls(r) \in Seq(Permitted(r, "finish", n))
<1>1. /\ SetupCalls \subseteq Names /\ StepCalls \subseteq Names /\ LapCalls \subseteq Names
      /\ GridCalls \subseteq Names /\ Files \subseteq Names
      /\ {"max_step_size", "l2_norm", "decide_alone"} \subseteq Names
  BY NamesKnown
<1>2. \A st \in SetupStages :
        /\ SetupCalls \cup StepCalls \subseteq Permitted(r, st, n)
        /\ ~using_mpi \/ r = Root => Files \subseteq Permitted(r, st, n)
        /\ params.algorithm # "fb" => "max_step_size" \in Permitted(r, st, n)
  BY <1>1, NamesKnown DEF Permitted, SetupStages
<1>3. \A st \in Stages :
        /\ GridCalls \subseteq Permitted(r, st, n)
        /\ n # 0 => LapCalls \subseteq Permitted(r, st, n)
        /\ ~using_mpi => "decide_alone" \in Permitted(r, st, n)
        /\ Local \/ params.algorithm = "fb" \/ "l2_norm" \in Permitted(r, st, n)
        /\ ~using_mpi \/ r = Root => Files \subseteq Permitted(r, st, n)
  <2>1. SUFFICES ASSUME NEW st \in Stages
                 PROVE  /\ GridCalls \subseteq Permitted(r, st, n)
                        /\ n # 0 => LapCalls \subseteq Permitted(r, st, n)
                        /\ ~using_mpi => "decide_alone" \in Permitted(r, st, n)
                        /\ Local \/ params.algorithm = "fb" \/ "l2_norm" \in Permitted(r, st, n)
                        /\ ~using_mpi \/ r = Root => Files \subseteq Permitted(r, st, n)
    OBVIOUS
  <2>2. /\ "decide_alone" \notin {"throw", "abort"} /\ "l2_norm" \notin {"throw", "abort"}
        /\ "l2_norm" # "max_alpha" /\ "l2_norm" # "max_step_size" /\ "l2_norm" # "decide_alone"
        /\ "decide_alone" # "max_alpha" /\ "decide_alone" # "max_step_size"
        /\ "l2_norm" \notin Files /\ "decide_alone" \notin Files
    BY DEF Files
  <2>3. GridCalls \subseteq Permitted(r, st, n)
    BY <1>1, NamesKnown DEF Permitted
  <2>4. n # 0 => LapCalls \subseteq Permitted(r, st, n)
    BY <1>1, NamesKnown DEF Permitted
  <2>5. ~using_mpi => "decide_alone" \in Permitted(r, st, n)
    BY <1>1, <2>2 DEF Permitted
  <2>6. Local \/ params.algorithm = "fb" \/ "l2_norm" \in Permitted(r, st, n)
    BY <1>1, <2>2 DEF Permitted
  <2>7. ~using_mpi \/ r = Root => Files \subseteq Permitted(r, st, n)
    BY <1>1, NamesKnown DEF Permitted
  <2>8. QED
    BY <2>3, <2>4, <2>5, <2>6, <2>7
<1>4. /\ {"input", "operator", "outputs", "algorithm", "estimate"} \subseteq SetupStages
      /\ {"iterate", "finish"} \subseteq Stages
  BY DEF SetupStages, Stages
<1>5. /\ FailsOn("version") \in Seq(Permitted(r, "input", n))
      /\ InputCalls(r) \in Seq(Permitted(r, "operator", n))
      /\ OperatorCalls \in Seq(Permitted(r, "outputs", n))
  BY <1>2, <1>4, OperatorLists, SetupLists
<1>6. OutputCalls(r) \in Seq(Permitted(r, "algorithm", n))
  BY <1>2, <1>4, OutputLists
<1>7. AlgorithmCalls \in Seq(Permitted(r, "estimate", n))
  BY <1>2, <1>4, AlgorithmLists
<1>8. Direct \in Seq(Permitted(r, "iterate", n))
  BY <1>3, <1>4, GridLists
<1>9. FinalCalls(r) \in Seq(Permitted(r, "finish", n))
  <2>1. ~using_mpi \/ r = Root => {"purified", "residuals"} \subseteq Permitted(r, "finish", n)
    BY <1>3, <1>4 DEF Files
  <2>2. QED
    BY <1>3, <1>4, <2>1, FinalLists
<1>10. ASSUME n # 0 PROVE IterationCalls(r) \in Seq(Permitted(r, "iterate", n))
  <2>1. /\ GridCalls \cup LapCalls \subseteq Permitted(r, "iterate", n)
        /\ ~using_mpi \/ r = Root => {"sol_update", "res_update"} \subseteq Permitted(r, "iterate", n)
    BY <1>3, <1>4, <1>10 DEF Files
  <2>2. QED
    BY <1>3, <1>4, <2>1, LapLists
<1>11. QED
  BY <1>5, <1>6, <1>7, <1>8, <1>9, <1>10

LEMMA PermittedKept ==
  ASSUME params' = params
  PROVE  Contents' <=> \A r \in Ranks : todo'[r] \in Seq(Permitted(r, stage'[r], iter'[r]))
<1>1. Local' = Local /\ using_mpi' = using_mpi
  BY ListsKept
<1>2. Ranks' = Ranks
  BY DEF Ranks
<1>3. ASSUME NEW r
      PROVE  Permitted(r, stage[r], iter[r])' = Permitted(r, stage'[r], iter'[r])
  BY <1>1 DEF Permitted
<1>4. QED
  BY <1>2, <1>3 DEF Contents

\* A rank that enters a function has the calls of that function to make.
LEMMA EnteredTyped ==
  ASSUME Typing, Contents, params' = params, NEW r \in Ranks,
         NEW from \in Stages, NEW to \in Stages \ Dead, NEW calls, Enter(r, from, to, calls),
         iter' \in [Ranks -> 0 .. IterMax],
         \A q \in Ranks \ {r} : iter'[q] = iter[q],
         to \in SetupStages => iter'[r] = 0, to = "returned" => calls = <<>>,
         calls \in Seq(Permitted(r, to, iter'[r])),
         gamma' \in [Ranks -> {0, 1}], good' = good, sigma' = sigma, written' = written
  PROVE  Typing' /\ Contents'
<1>1. /\ stage' \in [Ranks -> Stages] /\ stage'[r] = to
      /\ \A q \in Ranks \ {r} : stage'[q] = stage[q]
  BY DEF Typing, Enter
<1>2. calls \in Seq(Names)
  <2>1. Permitted(r, to, iter'[r]) \subseteq Names
    BY DEF Permitted
  <2>2. QED
    BY <2>1, SeqMonotonic
<1>3. /\ todo' \in [Ranks -> Seq(Names)] /\ todo'[r] = calls
      /\ \A q \in Ranks \ {r} : todo'[q] = todo[q]
  BY <1>2 DEF Typing, Enter
<1>4. Contents'
  <2>1. \A q \in Ranks : todo'[q] \in Seq(Permitted(q, stage'[q], iter'[q]))
    BY <1>1, <1>3 DEF Contents
  <2>2. QED
    BY <2>1, PermittedKept
<1>5. \A q \in Ranks : stage'[q] \in SetupStages => iter'[q] = 0
  BY <1>1 DEF Typing
<1>6. \A q \in Ranks : stage'[q] \in Dead \cup {"returned"} => todo'[q] = <<>>
  BY <1>1, <1>3 DEF Typing, Dead
<1>7. QED
  BY <1>1, <1>3, <1>4, <1>5, <1>6 DEF Typing, Ranks, Stages, SetupStages, Dead

\* A call made leaves the others to make.
LEMMA MadeTyped ==
  ASSUME Typing, Contents, UNCHANGED <<params, stage, iter, sigma>>,
         todo' \in [Ranks -> Seq(Names)],
         \A q \in Ranks : \/ todo'[q] = todo[q]
                          \/ todo[q] # <<>> /\ todo'[q] = Tail(todo[q]),
         gamma' \in [Ranks -> {0, 1}], good' \in [Ranks -> BOOLEAN],
         written' \in [Ranks -> Seq(Files)]
  PROVE  Typing' /\ Contents'
<1>1. ASSUME NEW q \in Ranks
      PROVE  todo'[q] \in Seq(Permitted(q, stage'[q], iter'[q]))
  <2>1. todo[q] \in Seq(Permitted(q, stage[q], iter[q]))
    BY DEF Contents
  <2>2. todo[q] # <<>> => Tail(todo[q]) \in Seq(Permitted(q, stage[q], iter[q]))
    BY <2>1, HeadTailProperties
  <2>3. stage'[q] = stage[q] /\ iter'[q] = iter[q]
    OBVIOUS
  <2>4. QED
    BY <2>1, <2>2, <2>3
<1>2. Contents'
  BY <1>1, PermittedKept
<1>3. \A q \in Ranks : stage'[q] \in Dead \cup {"returned"} => todo'[q] = <<>>
  BY DEF Typing
<1>4. QED
  BY <1>2, <1>3 DEF Typing, Ranks, Stages, SetupStages, Dead

LEMMA TypingInit == ASSUME Init PROVE Typing /\ Contents
<1>1. Typing
  BY IterMaxAssumption DEF Init, Typing, Stages, Dead
<1>2. Contents
  BY DEF Init, Contents
<1>3. QED
  BY <1>1, <1>2

\* Together means that every rank has the call to make, and makes it.
LEMMA JointTyped ==
  ASSUME Typing, Contents, NEW call, Together(call), AllMade,
         UNCHANGED <<params, stage, iter, sigma, written>>,
         gamma' \in [Ranks -> {0, 1}], good' \in [Ranks -> BOOLEAN]
  PROVE  Typing' /\ Contents'
<1>1. \A q \in Ranks : todo[q] # <<>> /\ todo'[q] = Tail(todo[q])
  BY DEF Together, Calls, AllMade
<1>2. \A q \in Ranks : Tail(todo[q]) \in Seq(Names)
  BY <1>1, HeadTailProperties DEF Typing
<1>3. todo' \in [Ranks -> Seq(Names)]
  BY <1>2 DEF AllMade
<1>4. written' \in [Ranks -> Seq(Files)]
  BY DEF Typing
<1>5. QED
  BY <1>1, <1>3, <1>4, MadeTyped

LEMMA OwnTyped ==
  ASSUME Typing, Contents, NEW r \in Ranks, todo[r] # <<>>, Made(r),
         UNCHANGED <<params, stage, iter, sigma, gamma>>,
         good' \in [Ranks -> BOOLEAN], written' \in [Ranks -> Seq(Files)]
  PROVE  Typing' /\ Contents'
<1>1. todo'[r] = Tail(todo[r]) /\ \A q \in Ranks \ {r} : todo'[q] = todo[q]
  BY DEF Made, Typing
<1>2. Tail(todo[r]) \in Seq(Names)
  BY HeadTailProperties DEF Typing
<1>3. todo' \in [Ranks -> Seq(Names)]
  BY <1>2 DEF Made, Typing
<1>4. gamma' \in [Ranks -> {0, 1}]
  BY DEF Typing
<1>5. QED
  BY <1>1, <1>3, <1>4, MadeTyped

LEMMA TypingKept ==
  ASSUME Typing, Contents, [Next]_vars
  PROVE  Typing' /\ Contents'
<1> USE DEF Dead
<1>a. Stages \ Dead = {"configure", "input", "operator", "outputs", "algorithm", "estimate",
                       "iterate", "finish", "returned"}
  BY DEF Stages
<1>b. \A r \in Ranks : iter[r] \in 0 .. IterMax /\ todo[r] \in Seq(Names)
  BY DEF Typing
<1>1. ASSUME NEW r \in Ranks, Configure(r) PROVE Typing' /\ Contents'
  <2>1. Enter(r, "configure", "input", FailsOn("version")) /\ gamma' \in [Ranks -> {0, 1}]
    BY <1>1 DEF Configure, Typing
  <2>2. iter' = iter /\ iter[r] = 0
    BY <1>1 DEF Configure, Enter, Typing, SetupStages
  <2>3. FailsOn("version") \in Seq(Permitted(r, "input", iter'[r]))
    BY <1>b, ListsPermitted
  <2>4. QED
    BY <1>1, <1>a, <2>1, <2>2, <2>3, EnteredTyped DEF Configure, Typing
<1>2. ASSUME NEW r \in Ranks, GetInputData(r) PROVE Typing' /\ Contents'
  <2>1. Enter(r, "input", "operator", InputCalls(r)) /\ gamma' \in [Ranks -> {0, 1}]
    BY <1>2 DEF GetInputData, Typing
  <2>2. iter' = iter /\ iter[r] = 0
    BY <1>2 DEF GetInputData, Enter, Typing, SetupStages
  <2>3. InputCalls(r) \in Seq(Permitted(r, "operator", iter'[r]))
    BY <1>b, ListsPermitted
  <2>4. QED
    BY <1>2, <1>a, <2>1, <2>2, <2>3, EnteredTyped DEF GetInputData, Typing
<1>3. ASSUME NEW r \in Ranks, CreateMeasurementOperator(r) PROVE Typing' /\ Contents'
  <2>1. Enter(r, "operator", "outputs", OperatorCalls) /\ gamma' \in [Ranks -> {0, 1}]
    BY <1>3 DEF CreateMeasurementOperator, Typing
  <2>2. iter' = iter /\ iter[r] = 0
    BY <1>3 DEF CreateMeasurementOperator, Enter, Typing, SetupStages
  <2>3. OperatorCalls \in Seq(Permitted(r, "outputs", iter'[r]))
    BY <1>b, ListsPermitted
  <2>4. QED
    BY <1>3, <1>a, <2>1, <2>2, <2>3, EnteredTyped DEF CreateMeasurementOperator, Typing
<1>4. ASSUME NEW r \in Ranks, SaveOutputs(r) PROVE Typing' /\ Contents'
  <2>1. Enter(r, "outputs", "algorithm", OutputCalls(r)) /\ gamma' \in [Ranks -> {0, 1}]
    BY <1>4 DEF SaveOutputs, Typing
  <2>2. iter' = iter /\ iter[r] = 0
    BY <1>4 DEF SaveOutputs, Enter, Typing, SetupStages
  <2>3. OutputCalls(r) \in Seq(Permitted(r, "algorithm", iter'[r]))
    BY <1>b, ListsPermitted
  <2>4. QED
    BY <1>4, <1>a, <2>1, <2>2, <2>3, EnteredTyped DEF SaveOutputs, Typing
<1>5. ASSUME NEW r \in Ranks, CreateAlgorithm(r) PROVE Typing' /\ Contents'
  <2>1. Enter(r, "algorithm", "estimate", AlgorithmCalls) /\ gamma' \in [Ranks -> {0, 1}]
    BY <1>5 DEF CreateAlgorithm, Typing
  <2>2. iter' = iter /\ iter[r] = 0
    BY <1>5 DEF CreateAlgorithm, Enter, Typing, SetupStages
  <2>3. AlgorithmCalls \in Seq(Permitted(r, "estimate", iter'[r]))
    BY <1>b, ListsPermitted
  <2>4. QED
    BY <1>5, <1>a, <2>1, <2>2, <2>3, EnteredTyped DEF CreateAlgorithm, Typing
<1>6. ASSUME NEW r \in Ranks, EstimateResidual(r) PROVE Typing' /\ Contents'
  <2>1. Enter(r, "estimate", "iterate", Direct) /\ gamma' \in [Ranks -> {0, 1}]
    BY <1>6 DEF EstimateResidual, Typing
  <2>2. iter' = iter /\ iter[r] = 0
    BY <1>6 DEF EstimateResidual, Enter, Typing, SetupStages
  <2>3. Direct \in Seq(Permitted(r, "iterate", iter'[r]))
    BY <1>b, ListsPermitted
  <2>4. QED
    BY <1>6, <1>a, <2>1, <2>2, <2>3, EnteredTyped DEF EstimateResidual, Typing
<1>7. ASSUME NEW r \in Ranks, Iterate(r) PROVE Typing' /\ Contents'
  <2>1. Enter(r, "iterate", "iterate", IterationCalls(r)) /\ gamma' \in [Ranks -> {0, 1}]
    BY <1>7 DEF Iterate, Typing
  <2>2. /\ iter' \in [Ranks -> 0 .. IterMax] /\ iter'[r] # 0
        /\ \A q \in Ranks \ {r} : iter'[q] = iter[q]
    BY <1>7, IterMaxAssumption DEF Iterate, Typing
  <2>3. IterationCalls(r) \in Seq(Permitted(r, "iterate", iter'[r]))
    BY <2>2, ListsPermitted
  <2>4. "iterate" \notin SetupStages
    BY DEF SetupStages
  <2>5. QED
    BY <1>7, <1>a, <2>1, <2>2, <2>3, <2>4, EnteredTyped DEF Iterate, Typing
<1>8. ASSUME NEW r \in Ranks, LeaveLoop(r) PROVE Typing' /\ Contents'
  <2>1. Enter(r, "iterate", "finish", FinalCalls(r)) /\ gamma' \in [Ranks -> {0, 1}]
    BY <1>8 DEF LeaveLoop, Typing
  <2>2. iter' = iter
    BY <1>8 DEF LeaveLoop
  <2>3. FinalCalls(r) \in Seq(Permitted(r, "finish", iter'[r]))
    BY <1>b, ListsPermitted
  <2>4. "finish" \notin SetupStages
    BY DEF SetupStages
  <2>5. QED
    BY <1>8, <1>a, <2>1, <2>2, <2>3, <2>4, EnteredTyped DEF LeaveLoop, Typing
<1>9. ASSUME NEW r \in Ranks, Return(r) PROVE Typing' /\ Contents'
  <2>1. Enter(r, "finish", "returned", <<>>) /\ gamma' \in [Ranks -> {0, 1}]
    BY <1>9 DEF Return, Typing
  <2>2. iter' = iter
    BY <1>9 DEF Return
  <2>3. <<>> \in Seq(Permitted(r, "returned", iter'[r]))
    OBVIOUS
  <2>4. "returned" \notin SetupStages
    BY DEF SetupStages
  <2>5. QED
    BY <1>9, <1>a, <2>1, <2>2, <2>3, <2>4, EnteredTyped DEF Return, Typing
<1>10. ASSUME NEW r \in Ranks, WriteFile(r) PROVE Typing' /\ Contents'
  <2>1. written' \in [Ranks -> Seq(Files)]
    BY <1>10, AppendProperties DEF WriteFile, Typing
  <2>2. good' \in [Ranks -> BOOLEAN]
    BY <1>10 DEF WriteFile, Typing
  <2>3. QED
    BY <1>10, <2>1, <2>2, OwnTyped DEF WriteFile
<1>11. ASSUME NEW r \in Ranks, DecideAlone(r) PROVE Typing' /\ Contents'
  <2>1. good' \in [Ranks -> BOOLEAN]
    BY <1>11 DEF DecideAlone, Typing
  <2>2. written' \in [Ranks -> Seq(Files)]
    BY <1>11 DEF DecideAlone, Typing
  <2>3. QED
    BY <1>11, <2>1, <2>2, OwnTyped DEF DecideAlone, Calls
<1>12. ASSUME NEW r \in Ranks, Throw(r) \/ Abort(r) PROVE Typing' /\ Contents'
  <2>1. /\ stage' \in [Ranks -> Stages] /\ todo' \in [Ranks -> Seq(Names)]
        /\ \A q \in Ranks : \/ stage'[q] \in Dead /\ todo'[q] = <<>>
                            \/ stage'[q] = stage[q] /\ todo'[q] = todo[q]
    <3>1. <<>> \in Seq(Names) /\ {"threw", "aborted"} \subseteq Stages
      BY DEF Stages
    <3>2. stage \in [Ranks -> Stages] /\ todo \in [Ranks -> Seq(Names)]
      BY DEF Typing
    <3>3. CASE Throw(r)
      <4>1. stage' = [stage EXCEPT ![r] = "threw"] /\ todo' = [todo EXCEPT ![r] = <<>>]
        BY <3>3 DEF Throw
      <4>2. /\ stage'[r] = "threw" /\ todo'[r] = <<>>
            /\ \A q \in Ranks \ {r} : stage'[q] = stage[q] /\ todo'[q] = todo[q]
        BY <3>2, <4>1
      <4>3. stage' \in [Ranks -> Stages] /\ todo' \in [Ranks -> Seq(Names)]
        BY <3>1, <3>2, <4>1
      <4>4. QED
        BY <4>2, <4>3
    <3>4. CASE Abort(r)
      <4>1. /\ stage' = [q \in Ranks |-> IF stage[q] = "threw" THEN "threw" ELSE "aborted"]
            /\ todo' = [q \in Ranks |-> <<>>]
        BY <3>4 DEF Abort
      <4>2. \A q \in Ranks : stage'[q] \in Dead /\ todo'[q] = <<>>
        BY <4>1
      <4>3. stage' \in [Ranks -> Stages] /\ todo' \in [Ranks -> Seq(Names)]
        BY <3>1, <4>1
      <4>4. QED
        BY <4>2, <4>3
    <3>5. QED
      BY <1>12, <3>3, <3>4
  <2>2. UNCHANGED <<params, iter, sigma, gamma, good, written>>
    BY <1>12 DEF Throw, Abort
  <2>3. \A q \in Ranks : todo'[q] \in Seq(Permitted(q, stage'[q], iter'[q]))
    BY <2>1, <2>2 DEF Contents
  <2>4. Contents'
    BY <2>2, <2>3, PermittedKept
  <2>5. Typing'
    BY <2>1, <2>2 DEF Typing, Ranks, Stages, SetupStages
  <2>6. QED
    BY <2>4, <2>5
<1>13. ASSUME Collective PROVE Typing' /\ Contents'
  <2>1. gamma' \in [Ranks -> {0, 1}] /\ good' \in [Ranks -> BOOLEAN]
    BY <1>13 DEF Collective, Typing
  <2>2. QED
    BY <1>13, <2>1, JointTyped DEF Collective
<1>14. ASSUME MaxStepSize PROVE Typing' /\ Contents'
  <2>1. gamma' \in [Ranks -> {0, 1}] /\ good' \in [Ranks -> BOOLEAN]
    BY <1>14 DEF MaxStepSize, Typing, Largest
  <2>2. QED
    BY <1>14, <2>1, JointTyped DEF MaxStepSize
<1>15. ASSUME MaxAlpha PROVE Typing' /\ Contents'
  <2>1. gamma' \in [Ranks -> {0, 1}] /\ good' \in [Ranks -> BOOLEAN]
    BY <1>15 DEF MaxAlpha, Typing, Largest
  <2>2. QED
    BY <1>15, <2>1, JointTyped DEF MaxAlpha
<1>16. ASSUME ResidualGlobal PROVE Typing' /\ Contents'
  <2>1. gamma' \in [Ranks -> {0, 1}] /\ good' \in [Ranks -> BOOLEAN]
    BY <1>16 DEF ResidualGlobal, Typing
  <2>2. QED
    BY <1>16, <2>1, JointTyped DEF ResidualGlobal
<1>17. ASSUME ResidualLocal PROVE Typing' /\ Contents'
  <2>1. gamma' \in [Ranks -> {0, 1}] /\ good' \in [Ranks -> BOOLEAN]
    BY <1>17 DEF ResidualLocal, Typing
  <2>2. QED
    BY <1>17, <2>1, JointTyped DEF ResidualLocal
<1>18. ASSUME Objective PROVE Typing' /\ Contents'
  <2>1. gamma' \in [Ranks -> {0, 1}] /\ good' \in [Ranks -> BOOLEAN]
    BY <1>18 DEF Objective, Typing
  <2>2. QED
    BY <1>18, <2>1, JointTyped DEF Objective
<1>19. ASSUME UNCHANGED vars PROVE Typing' /\ Contents'
  <2>1. Contents'
    BY <1>19, PermittedKept DEF vars, Contents
  <2>2. QED
    BY <1>19, <2>1 DEF vars, Typing, Ranks, Stages, SetupStages
<1>20. QED
  BY <1>1, <1>2, <1>3, <1>4, <1>5, <1>6, <1>7, <1>8, <1>9, <1>10, <1>11, <1>12,
     <1>13, <1>14, <1>15, <1>16, <1>17, <1>18, <1>19
  DEF Next, Joint, Main

------------------------------------------------------------------------------
(***************************************************************************)
(* The ranks beside one another                                            *)
(***************************************************************************)

LEMMA AfterKnown == \A st : After(st) \in Seq(Names)
<1>1. FromEstimate \in Seq(Names)
  BY ColsKnown, ListsKnown DEF FromEstimate
<1>2. FromAlgorithm \in Seq(Names)
  BY <1>1, ColsKnown, ListsKnown DEF FromAlgorithm
<1>3. FromOutputs \in Seq(Names)
  BY <1>2, ColsKnown, ListsKnown DEF FromOutputs
<1>4. FromOperator \in Seq(Names)
  BY <1>3, ColsKnown, ListsKnown DEF FromOperator
<1>5. FromInput \in Seq(Names)
  BY <1>4, ColsKnown, ListsKnown DEF FromInput
<1>6. <<>> \in Seq(Names)
  OBVIOUS
<1>7. QED
  BY <1>1, <1>2, <1>3, <1>4, <1>5, <1>6 DEF After

LEMMA NothingJoined ==
  ASSUME NEW s \in Seq(Names)
  PROVE  Joined(s, <<>>) = s
BY DEF Joined

\* What a rank has ahead, from the first call it has to make on.
LEMMA AheadKnown ==
  ASSUME Typing, NEW r \in Ranks
  PROVE  /\ Ahead(r) \in Seq(Names)
         /\ todo[r] = <<>> => Ahead(r) = After(stage[r])
         /\ todo[r] # <<>> =>
              /\ Head(todo[r]) \in Names /\ Tail(todo[r]) \in Seq(Names)
              /\ Head(todo[r]) \in Shared =>
                   /\ Live(r) /\ Ahead(r) # <<>> /\ Cols(todo[r]) # <<>>
                   /\ Ahead(r) = Joined(<<Head(todo[r])>>,
                                        Joined(Cols(Tail(todo[r])), After(stage[r])))
                   /\ Joined(Cols(Tail(todo[r])), After(stage[r])) \in Seq(Names)
              /\ Head(todo[r]) \notin Shared => Cols(Tail(todo[r])) = Cols(todo[r])
<1>1. todo[r] \in Seq(Names) /\ After(stage[r]) \in Seq(Names)
  BY AfterKnown DEF Typing
<1>2. Ahead(r) \in Seq(Names) /\ Cols(todo[r]) \in Seq(Names)
  BY <1>1, ColsKnown DEF Ahead
<1>3. ASSUME todo[r] = <<>> PROVE Ahead(r) = After(stage[r])
  BY <1>1, <1>2, <1>3, ColsKnown, JoinedEmpty DEF Ahead
<1>4. ASSUME todo[r] # <<>>
      PROVE  /\ Head(todo[r]) \in Names /\ Tail(todo[r]) \in Seq(Names)
             /\ Head(todo[r]) \notin Shared => Cols(Tail(todo[r])) = Cols(todo[r])
             /\ Head(todo[r]) \in Shared =>
                  Cols(todo[r]) = Joined(<<Head(todo[r])>>, Cols(Tail(todo[r])))
  <2>1. todo[r] \in Seq(Names) /\ todo[r] # <<>>
    BY <1>1, <1>4
  <2>2. /\ Head(todo[r]) \in Names /\ Tail(todo[r]) \in Seq(Names)
        /\ Kept(todo[r], Shared)
             = IF Head(todo[r]) \in Shared
               THEN <<Head(todo[r])>> \o Kept(Tail(todo[r]), Shared)
               ELSE Kept(Tail(todo[r]), Shared)
    BY ONLY <2>1, KeptTail
  <2>3. QED
    BY <2>2, Zenon DEF Cols, Joined
<1>5. ASSUME todo[r] # <<>>, Head(todo[r]) \in Shared
      PROVE  /\ Live(r) /\ Ahead(r) # <<>> /\ Cols(todo[r]) # <<>>
             /\ Ahead(r) = Joined(<<Head(todo[r])>>,
                                  Joined(Cols(Tail(todo[r])), After(stage[r])))
             /\ Joined(Cols(Tail(todo[r])), After(stage[r])) \in Seq(Names)
  <2>1. Live(r)
    BY <1>5, NamesKnown DEF Live, Typing
  <2> DEFINE h == <<Head(todo[r])>>
             c == Cols(Tail(todo[r]))
  <2>2. h \in Seq(Names) /\ h # <<>> /\ c \in Seq(Names)
    <3>1. h # <<>>
      OBVIOUS
    <3>2. h \in Seq(Names)
      BY <1>4, <1>5, ShortLists
    <3>3. c \in Seq(Names)
      BY <1>4, <1>5, ColsKnown
    <3>4. QED
      BY <3>1, <3>2, <3>3
  <2>3. Cols(todo[r]) = Joined(h, c)
    BY <1>4, <1>5
  <2> HIDE DEF h, c
  <2>4. Cols(todo[r]) # <<>> /\ Joined(c, After(stage[r])) \in Seq(Names)
    BY <1>1, <2>2, <2>3, JoinedEmpty, ColsKnown
  <2>5. Ahead(r) = Joined(h, Joined(c, After(stage[r])))
    BY <1>1, <2>2, <2>3, JoinedAssociative DEF Ahead
  <2>6. Ahead(r) # <<>>
    BY <2>2, <2>4, <2>5, JoinedEmpty
  <2>7. QED
    BY <2>1, <2>4, <2>5, <2>6 DEF h, c
<1>6. QED
  BY <1>2, <1>3, <1>4, <1>5

\* The ranks stay aligned when every rank that goes on is where it was.
LEMMA LapsKept ==
  ASSUME LapsAligned, params' = params, using_mpi => good' = good,
         \A q \in Ranks : Live(q)' =>
           /\ Live(q) /\ Lap(q)' = Lap(q) /\ Done(q)' = Done(q) /\ iter'[q] = iter[q]
           /\ Ahead(q)' = Ahead(q)
           /\ Lap(q) > 0 => Cols(todo[q])' = Cols(todo[q]) /\ Whole(q)' = Whole(q),
         \A q \in Ranks : Lap(q) \in Nat
  PROVE  LapsAligned'
<1>1. Ranks' = Ranks /\ using_mpi' = using_mpi
  BY ListsKept DEF Ranks
<1>2. ASSUME NEW r \in Ranks, NEW q \in Ranks, Live(r)', Live(q)'
      PROVE  InStep(r, q)' /\ SameWay(r, q)'
  <2>1. InStep(r, q) /\ SameWay(r, q)
    BY <1>2 DEF LapsAligned
  <2>2. Lap(r)' < Lap(q)' => Lap(q) > 0
    BY <1>2
  <2>3. InStep(r, q)'
    BY <1>2, <2>1, <2>2 DEF InStep
  <2>4. SameWay(r, q)'
    BY <1>1, <1>2, <2>1 DEF SameWay
  <2>5. QED
    BY <2>3, <2>4
<1>3. ASSUME ~using_mpi, NEW r \in Ranks, Live(r)', Lap(r)' > 0
      PROVE  Cols(todo[r])' = <<>>
  BY <1>3 DEF LapsAligned
<1>4. QED
  BY <1>1, <1>2, <1>3 DEF LapsAligned

LEMMA StageKept ==
  ASSUME params' = params, NEW q, stage'[q] = stage[q], iter'[q] = iter[q]
  PROVE  /\ Lap(q)' = Lap(q) /\ Done(q)' = Done(q)
         /\ After(stage[q])' = After(stage[q])
         /\ gamma'[q] = gamma[q] => Whole(q)' = Whole(q)
<1>1. Done(q)' = Done(q) /\ Lap(q)' = Lap(q)
  BY DEF Done, Lap
<1>2. After(stage[q])' = After(stage[q])
  BY ListsKept DEF After
<1>3. ASSUME gamma'[q] = gamma[q] PROVE Whole(q)' = Whole(q)
  <2>1. IterationCalls(q)' = IterationCalls(q) /\ FinalCalls(q)' = FinalCalls(q)
    BY <1>3, ListsKept
  <2>2. QED
    BY <1>1, <2>1 DEF Whole, Cols
<1>4. QED
  BY <1>1, <1>2, <1>3

\* A rank that does nothing keeps its place.
LEMMA Unmoved ==
  ASSUME params' = params, NEW q, stage'[q] = stage[q], iter'[q] = iter[q],
         todo'[q] = todo[q], gamma'[q] = gamma[q]
  PROVE  /\ Live(q)' = Live(q) /\ Lap(q)' = Lap(q) /\ Done(q)' = Done(q)
         /\ Ahead(q)' = Ahead(q) /\ Whole(q)' = Whole(q)
         /\ Cols(todo[q])' = Cols(todo[q])
<1>1. Lap(q)' = Lap(q) /\ Done(q)' = Done(q) /\ After(stage[q])' = After(stage[q])
      /\ Whole(q)' = Whole(q)
  BY StageKept
<1>2. Live(q)' = Live(q)
  BY DEF Live, Dead
<1>3. Cols(todo[q])' = Cols(todo[q])
  BY DEF Cols
<1>4. Ahead(q)' = Ahead(q)
  BY <1>1, <1>3 DEF Ahead
<1>5. QED
  BY <1>1, <1>2, <1>3, <1>4

LEMMA LapsAreNumbers ==
  ASSUME Typing, NEW r \in Ranks
  PROVE  /\ iter[r] \in 0 .. IterMax /\ iter[r] \in Nat /\ Lap(r) \in Nat
         /\ Done(r) => Lap(r) > 0
         /\ Live(r) /\ Lap(r) > 0 => After(stage[r]) = <<>>
         /\ Live(r) /\ Lap(r) > 0 => Done(r) \/ stage[r] = "iterate"
<1>1. iter[r] \in 0 .. IterMax /\ stage[r] \in Stages
  BY DEF Typing
<1>2. iter[r] \in Nat
  BY <1>1, IterMaxAssumption
<1>3. Lap(r) \in Nat /\ (Done(r) => Lap(r) > 0)
  BY <1>2 DEF Lap
<1>4. ASSUME Live(r), Lap(r) > 0 PROVE Done(r) \/ stage[r] = "iterate"
  <2>1. stage[r] \in SetupStages => iter[r] = 0
    BY DEF Typing
  <2>2. CASE Done(r)
    BY <2>2
  <2>3. CASE ~Done(r)
    BY <1>1, <1>4, <2>1, <2>3 DEF Live, Lap, Done, Stages, SetupStages, Dead
  <2>4. QED
    BY <2>2, <2>3
<1>5. ASSUME Live(r), Lap(r) > 0 PROVE After(stage[r]) = <<>>
  BY <1>4, <1>5 DEF After, Done
<1>6. QED
  BY <1>1, <1>2, <1>3, <1>4, <1>5

\* A call all ranks make together: all of them are in the same lap and go on alike.
LEMMA JointAligned ==
  ASSUME Typing, LapsAligned, NEW call \in Shared, Together(call), AllMade,
         UNCHANGED <<params, stage, iter>>
  PROVE  /\ LapsAligned'
         /\ \A r, q \in Ranks : iter[r] = iter[q]
<1>1. \A r \in Ranks : /\ todo[r] # <<>> /\ Head(todo[r]) = call
                       /\ todo'[r] = Tail(todo[r])
  BY DEF Together, Calls, AllMade
<1>2. \A r \in Ranks : /\ Live(r) /\ Ahead(r) # <<>> /\ Cols(todo[r]) # <<>>
                       /\ Ahead(r) = Joined(<<call>>, Joined(Cols(Tail(todo[r])), After(stage[r])))
                       /\ Joined(Cols(Tail(todo[r])), After(stage[r])) \in Seq(Names)
  BY <1>1, AheadKnown
<1>3. \A r \in Ranks : Ahead(r)' = Joined(Cols(Tail(todo[r])), After(stage[r]))
  <2>1. SUFFICES ASSUME NEW r \in Ranks
                 PROVE  Ahead(r)' = Joined(Cols(Tail(todo[r])), After(stage[r]))
    OBVIOUS
  <2>2. After(stage[r])' = After(stage[r])
    BY StageKept
  <2>3. Cols(todo[r])' = Cols(Tail(todo[r]))
    BY <1>1 DEF Cols
  <2>4. QED
    BY <2>2, <2>3 DEF Ahead
<1>4. \A r \in Ranks : Lap(r)' = Lap(r) /\ Done(r)' = Done(r) /\ Lap(r) \in Nat
  BY StageKept, LapsAreNumbers
<1>5. \A r, q \in Ranks : InStep(r, q) /\ InStep(q, r) /\ SameWay(r, q)
  BY <1>2 DEF LapsAligned
<1>6. \A r, q \in Ranks : Lap(r) = Lap(q) /\ Ahead(r) = Ahead(q)
  BY <1>2, <1>4, <1>5 DEF InStep
<1>7. \A r, q \in Ranks : Ahead(r)' = Ahead(q)'
  <2>1. SUFFICES ASSUME NEW r \in Ranks, NEW q \in Ranks PROVE Ahead(r)' = Ahead(q)'
    OBVIOUS
  <2>2. Joined(<<call>>, Ahead(r)') = Joined(<<call>>, Ahead(q)')
    BY <1>2, <1>3, <1>6
  <2>3. Ahead(r)' \in Seq(Names) /\ Ahead(q)' \in Seq(Names) /\ call \in Names
    BY <1>2, <1>3, NamesKnown
  <2>4. QED
    BY <2>2, <2>3, JoinedOnce
<1>8. using_mpi' = using_mpi /\ Ranks' = Ranks
  BY ListsKept DEF Ranks
<1>9. \A r, q \in Ranks : InStep(r, q)' /\ SameWay(r, q)'
  <2>1. SUFFICES ASSUME NEW r \in Ranks, NEW q \in Ranks PROVE InStep(r, q)' /\ SameWay(r, q)'
    OBVIOUS
  <2>2. Lap(r)' = Lap(q)' /\ Ahead(r)' = Ahead(q)' /\ ~(Lap(r)' < Lap(q)')
    BY <1>4, <1>6, <1>7
  <2>3. using_mpi' => (Done(r)' <=> Done(q)')
    BY <1>4, <1>5, <1>6, <1>8 DEF SameWay
  <2>4. QED
    BY <2>2, <2>3 DEF InStep, SameWay
<1>10. ~using_mpi => \A r \in Ranks : Lap(r) = 0
  BY <1>2, <1>4 DEF LapsAligned
<1>11. LapsAligned'
  <2>1. ~using_mpi' => \A r \in Ranks : Live(r)' /\ Lap(r)' > 0 => Cols(todo[r])' = <<>>
    BY <1>4, <1>8, <1>10
  <2>2. QED
    BY <1>8, <1>9, <2>1 DEF LapsAligned
<1>12. \A r, q \in Ranks : iter[r] = iter[q]
  <2>1. SUFFICES ASSUME NEW r \in Ranks, NEW q \in Ranks PROVE iter[r] = iter[q]
    OBVIOUS
  <2>2. Done(r) <=> Done(q)
    <3>1. CASE using_mpi
      BY <1>5, <1>6, <3>1 DEF SameWay
    <3>2. CASE ~using_mpi
      BY <1>10, <3>2, LapsAreNumbers
    <3>3. QED
      BY <3>1, <3>2
  <2>3. iter[r] \in Nat /\ iter[q] \in Nat /\ Lap(r) = Lap(q)
    BY <1>6, LapsAreNumbers
  <2>4. QED
    BY <2>2, <2>3 DEF Lap
<1>13. QED
  BY <1>11, <1>12

\* Two ranks whose step sizes have the same sign and of which both or neither has left
\* the loop have the same lap before them.
LEMMA WholeAlike ==
  ASSUME NEW r, NEW q, Done(r) <=> Done(q), Done(r) \/ (gamma[r] > 0 <=> gamma[q] > 0)
  PROVE  Whole(r) = Whole(q)
BY LapsAlike, OutputsAlike DEF Whole

\* Without MPI a rank makes no collective call in the loop and after it.
LEMMA SerialLaps ==
  ASSUME Typing, LapsAligned, ~using_mpi, NEW r \in Ranks
  PROVE  /\ Whole(r) = <<>>
         /\ Live(r) /\ Lap(r) > 0 => Ahead(r) = <<>> /\ Cols(todo[r]) = <<>>
<1>1. Whole(r) = <<>>
  BY LapCols DEF Whole
<1>2. ASSUME Live(r), Lap(r) > 0 PROVE Ahead(r) = <<>> /\ Cols(todo[r]) = <<>>
  <2>1. Cols(todo[r]) = <<>> /\ After(stage[r]) = <<>>
    BY <1>2, LapsAreNumbers DEF LapsAligned
  <2>2. <<>> \in Seq(Names)
    OBVIOUS
  <2>3. QED
    BY <2>1, <2>2, JoinedEmpty DEF Ahead
<1>3. QED
  BY <1>1, <1>2

\* A rank that has made all calls of its lap enters the next one, or leaves the loop when
\* its last iteration converged or was the last: the others have not passed it otherwise.
LEMMA NextLap ==
  ASSUME Typing, StepSizesAlike, VerdictsAlike, LapsAligned,
         NEW r \in Ranks, stage[r] = "iterate", todo[r] = <<>>,
         UNCHANGED <<params, gamma, good>>, Typing',
         \A q \in Ranks \ {r} : /\ stage'[q] = stage[q] /\ todo'[q] = todo[q]
                                /\ iter'[q] = iter[q],
         Live(r)', Lap(r)' = Lap(r) + 1,
         Done(r)' <=> good[r] \/ iter[r] = IterMax,
         Cols(todo[r])' = Whole(r)', ~Done(r)' => stage'[r] = "iterate"
  PROVE  LapsAligned'
<1>1. using_mpi' = using_mpi /\ Ranks' = Ranks
  BY ListsKept DEF Ranks
<1>2. /\ Live(r) /\ ~Done(r) /\ Lap(r) = iter[r] /\ Lap(r) \in Nat /\ Ahead(r) = <<>>
      /\ Cols(todo[r]) = <<>>
  <2>1. Live(r) /\ ~Done(r) /\ Lap(r) = iter[r] /\ After(stage[r]) = <<>>
    BY DEF Live, Done, Lap, After, Dead
  <2>2. QED
    BY <2>1, AheadKnown, LapsAreNumbers, ColsKnown
<1>3. Ahead(r)' = Whole(r)' /\ Whole(r)' \in Seq(Names)
  <2>1. After(stage[r])' = <<>>
    BY DEF After, Done
  <2>2. <<>> \in Seq(Names) /\ todo'[r] \in Seq(Names)
    BY DEF Typing
  <2>3. Cols(todo[r])' \in Seq(Names)
    BY <2>2, ColsKnown DEF Cols
  <2>4. Joined(Cols(todo[r])', <<>>) = Cols(todo[r])'
    BY <2>3, NothingJoined
  <2>5. QED
    BY <2>1, <2>3, <2>4 DEF Ahead
<1>4. ASSUME NEW q \in Ranks \ {r}
      PROVE  /\ Live(q)' = Live(q) /\ Lap(q)' = Lap(q) /\ Done(q)' = Done(q)
             /\ Ahead(q)' = Ahead(q) /\ Whole(q)' = Whole(q)
             /\ Cols(todo[q])' = Cols(todo[q]) /\ Lap(q) \in Nat /\ iter'[q] = iter[q]
  BY Unmoved, LapsAreNumbers
<1>5. Whole(r)' = IF Done(r)' THEN Cols(FinalCalls(r)) ELSE Cols(IterationCalls(r))
  <2>1. IterationCalls(r)' = IterationCalls(r) /\ FinalCalls(r)' = FinalCalls(r)
    BY ListsKept
  <2>2. QED
    BY <2>1 DEF Whole, Cols
<1>6. ASSUME ~using_mpi PROVE LapsAligned'
  <2>1. \A q \in Ranks : Live(q)' /\ Lap(q)' > 0 => Ahead(q)' = <<>> /\ Cols(todo[q])' = <<>>
    <3>1. Whole(r)' = <<>>
      BY <1>5, <1>6, LapCols
    <3>2. QED
      BY <1>3, <1>4, <1>6, <3>1, SerialLaps
  <2>2. \A q \in Ranks : Live(q)' => Whole(q)' = <<>>
    BY <1>4, <1>5, <1>6, SerialLaps, LapCols
  <2>3. \A q \in Ranks : Live(q)' /\ Lap(q)' = 0 => Ahead(q)' = <<>>
    <3>1. SUFFICES ASSUME NEW q \in Ranks, Live(q)', Lap(q)' = 0 PROVE Ahead(q)' = <<>>
      OBVIOUS
    <3>2. q # r
      BY <1>2, <3>1
    <3>3. InStep(q, r) /\ Lap(q) = 0
      BY <1>2, <1>4, <3>1, <3>2 DEF LapsAligned
    <3>4. Ahead(q) = <<>>
      BY <1>2, <3>3 DEF InStep
    <3>5. QED
      BY <1>4, <3>2, <3>4
  <2>4. \A q \in Ranks : Lap(q)' \in Nat
    BY <1>2, <1>4
  <2>5. \A p, q \in Ranks : Live(p)' /\ Live(q)' => InStep(p, q)'
    <3>1. SUFFICES ASSUME NEW p \in Ranks, NEW q \in Ranks, Live(p)', Live(q)'
                   PROVE  InStep(p, q)'
      OBVIOUS
    <3>2. Ahead(p)' = <<>> /\ Ahead(q)' = <<>> /\ Whole(q)' = <<>>
          /\ (Lap(q)' > 0 => Cols(todo[q])' = <<>>)
      BY <2>1, <2>2, <2>3, <2>4, <3>1
    <3>3. Lap(p)' < Lap(q)' => Lap(q)' > 0
      BY <2>4
    <3>4. QED
      BY <3>2, <3>3 DEF InStep
  <2>6. \A p, q \in Ranks : SameWay(p, q)'
    BY <1>1, <1>6 DEF SameWay
  <2>7. \A q \in Ranks : Live(q)' /\ Lap(q)' > 0 => Cols(todo[q])' = <<>>
    BY <2>1
  <2>8. QED
    BY <1>1, <2>5, <2>6, <2>7 DEF LapsAligned
<1>7. ASSUME using_mpi, NEW q \in Ranks \ {r}, Live(q)
      PROVE  InStep(r, q)' /\ InStep(q, r)' /\ SameWay(r, q)' /\ SameWay(q, r)'
  <2>1. InStep(r, q) /\ InStep(q, r) /\ SameWay(r, q) /\ SameWay(q, r)
    BY <1>2, <1>7 DEF LapsAligned
  <2>2. good[r] = good[q] /\ good'[r] = good[r] /\ good'[q] = good[q]
    BY <1>7 DEF VerdictsAlike
  <2>3. Lap(q) \in Nat /\ Lap(r) \in Nat /\ Lap(r)' = Lap(r) + 1 /\ Lap(q)' = Lap(q)
    BY <1>2, <1>4
  <2>4. ~(Lap(q) < Lap(r))
    <3>1. Whole(r) # <<>>
      BY <1>2, <1>7, LapCols DEF Whole
    <3>2. QED
      BY <1>2, <2>1, <3>1 DEF InStep
  <2>5. CASE Lap(q) = Lap(r)
    <3>1. ~Done(q) /\ Lap(q) = iter[q] /\ Ahead(q) = <<>>
      BY <1>2, <1>7, <2>1, <2>5 DEF SameWay, InStep, Lap
    <3>2. Lap(q)' < Lap(r)' /\ Lap(r)' = Lap(q)' + 1 /\ ~Done(q)' /\ Ahead(q)' = <<>>
      BY <1>4, <2>3, <2>5, <3>1
    <3>3. Done(r)' <=> (good'[q] \/ iter'[q] = IterMax)
      BY <1>2, <1>4, <2>2, <2>5, <3>1
    <3>4. InStep(r, q)' /\ InStep(q, r)'
      BY <2>3, <3>2 DEF InStep
    <3>5. SameWay(r, q)' /\ SameWay(q, r)'
      BY <2>3, <3>2, <3>3 DEF SameWay
    <3>6. QED
      BY <3>4, <3>5
  <2>6. CASE Lap(r) < Lap(q)
    <3>1. /\ Lap(q) = Lap(r) + 1 /\ (Done(q) <=> good[r] \/ iter[r] = IterMax)
          /\ Cols(todo[q]) = Whole(q)
      BY <1>7, <2>1, <2>6 DEF SameWay, InStep
    <3>2. Lap(q)' = Lap(r)' /\ (Done(q)' <=> Done(r)')
      <4>1. Done(q)' = Done(q)
        BY <1>4
      <4>2. Done(q)' <=> Done(r)'
        BY <3>1, <4>1
      <4>3. QED
        BY <2>3, <3>1, <4>2
    <3>3. Ahead(q) = Whole(q)
      <4>1. After(stage[q]) = <<>> /\ <<>> \in Seq(Names)
        BY <1>7, <2>3, <2>6, LapsAreNumbers
      <4>2. Joined(Cols(todo[q]), <<>>) = Cols(todo[q])
        BY ColsKnown, NothingJoined DEF Typing
      <4>3. QED
        BY <3>1, <4>1, <4>2 DEF Ahead
    <3>4. Whole(q)' = Whole(r)'
      <4>1. CASE Done(q)
        BY <1>4, <1>5, <3>2, <4>1, OutputsAlike DEF Whole
      <4>2. CASE ~Done(q)
        <5>1. stage[q] = "iterate"
          BY <1>7, <2>3, <2>6, <4>2, LapsAreNumbers
        <5>2. gamma[r] = gamma[q]
          BY <5>1 DEF StepSizesAlike, SetupStages, Dead
        <5>3. QED
          BY <1>4, <1>5, <3>2, <4>2, <5>2, LapsAlike DEF Whole
      <4>3. QED
        BY <4>1, <4>2
    <3>5. Ahead(q)' = Ahead(r)'
      BY <1>3, <1>4, <3>3, <3>4
    <3>6. InStep(r, q)' /\ InStep(q, r)'
      BY <2>3, <3>2, <3>5 DEF InStep
    <3>7. SameWay(r, q)' /\ SameWay(q, r)'
      BY <2>3, <3>2 DEF SameWay
    <3>8. QED
      BY <3>6, <3>7
  <2>7. QED
    BY <2>3, <2>4, <2>5, <2>6
<1>8. ASSUME using_mpi PROVE LapsAligned'
  <2>1. ASSUME NEW p \in Ranks, NEW q \in Ranks, Live(p)', Live(q)'
        PROVE  InStep(p, q)' /\ SameWay(p, q)'
    <3>1. CASE p = r /\ q = r
      <4>1. ~(Lap(r)' < Lap(r)')
        BY <1>2
      <4>2. QED
        BY <3>1, <4>1 DEF InStep, SameWay
    <3>2. CASE p = r /\ q # r
      BY <1>4, <1>7, <1>8, <2>1, <3>2
    <3>3. CASE p # r /\ q = r
      BY <1>4, <1>7, <1>8, <2>1, <3>3
    <3>4. CASE p # r /\ q # r
      <4>1. InStep(p, q) /\ SameWay(p, q)
        BY <1>4, <2>1, <3>4 DEF LapsAligned
      <4>2. InStep(p, q)'
        BY <1>4, <3>4, <4>1 DEF InStep
      <4>3. SameWay(p, q)'
        BY <1>1, <1>4, <3>4, <4>1 DEF SameWay
      <4>4. QED
        BY <4>2, <4>3
    <3>5. QED
      BY <3>1, <3>2, <3>3, <3>4
  <2>2. QED
    BY <1>1, <1>8, <2>1 DEF LapsAligned
<1>9. QED
  BY <1>6, <1>8

\* A function of the setup makes the collective calls that tell its stage from the next,
\* or fails before any of them.
LEMMA SetupAligned ==
  ASSUME Typing, LapsAligned, NEW r \in Ranks,
         NEW from \in SetupStages, NEW to \in SetupStages \cup {"iterate"},
         NEW calls \in Seq(Names), Enter(r, from, to, calls),
         UNCHANGED <<params, iter, good>>, \A q \in Ranks \ {r} : gamma'[q] = gamma[q],
         \/ Joined(Cols(calls), After(to)) = After(from)
         \/ calls # <<>> /\ Head(calls) \in {"throw", "abort"}
  PROVE  LapsAligned'
<1>1. /\ stage[r] = from /\ todo[r] = <<>> /\ stage'[r] = to /\ todo'[r] = calls
      /\ \A q \in Ranks \ {r} : stage'[q] = stage[q] /\ todo'[q] = todo[q]
  BY DEF Enter, Typing
<1>2. \A q \in Ranks : Lap(q) \in Nat
  BY LapsAreNumbers
<1>3. ASSUME Live(r)'
      PROVE  /\ Live(r) /\ Lap(r)' = Lap(r) /\ Done(r)' = Done(r) /\ Ahead(r)' = Ahead(r)
             /\ Lap(r) = 0
  <2>1. Live(r) /\ ~Done(r) /\ Done(r)' = FALSE /\ Done(r) = FALSE
    BY <1>1 DEF Live, Done, SetupStages, Dead
  <2>2. iter[r] = 0 /\ Lap(r) = 0 /\ Lap(r)' = 0
    BY <1>1, <2>1 DEF Lap, Typing
  <2>3. Joined(Cols(calls), After(to)) = After(from)
    BY <1>1, <1>3 DEF Live
  <2>4. After(stage[r])' = After(to)
    BY <1>1, ListsKept DEF After
  <2>5. Cols(todo[r])' = Cols(calls)
    BY <1>1 DEF Cols
  <2>6. Ahead(r)' = After(from)
    BY <2>3, <2>4, <2>5 DEF Ahead
  <2>7. Ahead(r) = After(from)
    BY <1>1, AheadKnown
  <2>8. QED
    BY <2>1, <2>2, <2>6, <2>7
<1>4. ASSUME NEW q \in Ranks, Live(q)'
      PROVE  /\ Live(q) /\ Lap(q)' = Lap(q) /\ Done(q)' = Done(q) /\ iter'[q] = iter[q]
             /\ Ahead(q)' = Ahead(q)
             /\ Lap(q) > 0 => Cols(todo[q])' = Cols(todo[q]) /\ Whole(q)' = Whole(q)
  <2>1. CASE q = r
    BY <1>3, <1>4, <2>1
  <2>2. CASE q # r
    BY <1>1, <1>4, <2>2, Unmoved
  <2>3. QED
    BY <2>1, <2>2
<1>5. QED
  BY <1>2, <1>4, LapsKept

\* A rank makes a call of its own.
LEMMA OwnAligned ==
  ASSUME Typing, LapsAligned, NEW r \in Ranks, todo[r] # <<>>, Made(r),
         Head(todo[r]) \notin Shared \cup {"throw", "abort"},
         UNCHANGED <<params, stage, iter, gamma>>, using_mpi => good' = good
  PROVE  LapsAligned'
<1>1. todo'[r] = Tail(todo[r]) /\ \A q \in Ranks \ {r} : todo'[q] = todo[q]
  BY DEF Made, Typing
<1>2. \A q \in Ranks : Lap(q) \in Nat
  BY LapsAreNumbers
<1>3. /\ Live(r) /\ Lap(r)' = Lap(r) /\ Done(r)' = Done(r) /\ Ahead(r)' = Ahead(r)
      /\ Cols(todo[r])' = Cols(todo[r]) /\ Whole(r)' = Whole(r)
  <2>1. Live(r)
    BY DEF Live, Typing
  <2>2. /\ Lap(r)' = Lap(r) /\ Done(r)' = Done(r) /\ Whole(r)' = Whole(r)
        /\ After(stage[r])' = After(stage[r])
    BY StageKept
  <2>3. Cols(todo[r])' = Cols(Tail(todo[r]))
    BY <1>1 DEF Cols
  <2>4. Cols(Tail(todo[r])) = Cols(todo[r])
    BY AheadKnown
  <2>5. Ahead(r)' = Ahead(r)
    BY <2>2, <2>3, <2>4 DEF Ahead
  <2>6. QED
    BY <2>1, <2>2, <2>3, <2>4, <2>5
<1>4. ASSUME NEW q \in Ranks, Live(q)'
      PROVE  /\ Live(q) /\ Lap(q)' = Lap(q) /\ Done(q)' = Done(q) /\ iter'[q] = iter[q]
             /\ Ahead(q)' = Ahead(q)
             /\ Lap(q) > 0 => Cols(todo[q])' = Cols(todo[q]) /\ Whole(q)' = Whole(q)
  <2>1. CASE q = r
    BY <1>3, <1>4, <2>1
  <2>2. CASE q # r
    BY <1>1, <1>4, <2>2, Unmoved
  <2>3. QED
    BY <2>1, <2>2
<1>5. QED
  BY <1>2, <1>4, LapsKept

LEMMA ReturnAligned ==
  ASSUME Typing, LapsAligned, NEW r \in Ranks, Return(r)
  PROVE  LapsAligned'
<1>1. /\ stage[r] = "finish" /\ todo[r] = <<>> /\ stage'[r] = "returned" /\ todo'[r] = <<>>
      /\ \A q \in Ranks \ {r} : stage'[q] = stage[q] /\ todo'[q] = todo[q]
      /\ UNCHANGED <<params, gamma, good, iter>>
  BY DEF Return, Enter, Typing
<1>2. \A q \in Ranks : Lap(q) \in Nat
  BY LapsAreNumbers
<1>3. /\ Live(r) /\ Lap(r)' = Lap(r) /\ Done(r)' = Done(r) /\ Ahead(r)' = Ahead(r)
      /\ Cols(todo[r])' = Cols(todo[r]) /\ Whole(r)' = Whole(r)
  <2>1. Live(r) /\ Done(r) /\ Done(r)' /\ Lap(r)' = Lap(r)
    BY <1>1 DEF Live, Done, Lap, Dead
  <2>2. FinalCalls(r)' = FinalCalls(r)
    BY <1>1, ListsKept
  <2>3. Whole(r)' = Whole(r)
    BY <2>1, <2>2 DEF Whole, Cols
  <2>4. Cols(todo[r])' = Cols(todo[r])
    BY <1>1 DEF Cols
  <2>5. After(stage[r])' = <<>> /\ After(stage[r]) = <<>>
    BY <1>1 DEF After
  <2>6. QED
    BY <2>1, <2>3, <2>4, <2>5 DEF Ahead
<1>4. ASSUME NEW q \in Ranks, Live(q)'
      PROVE  /\ Live(q) /\ Lap(q)' = Lap(q) /\ Done(q)' = Done(q) /\ iter'[q] = iter[q]
             /\ Ahead(q)' = Ahead(q)
             /\ Lap(q) > 0 => Cols(todo[q])' = Cols(todo[q]) /\ Whole(q)' = Whole(q)
  <2>1. CASE q = r
    BY <1>1, <1>3, <1>4, <2>1
  <2>2. CASE q # r
    BY <1>1, <1>4, <2>2, Unmoved
  <2>3. QED
    BY <2>1, <2>2
<1>5. QED
  BY <1>1, <1>2, <1>4, LapsKept

LEMMA EndAligned ==
  ASSUME Typing, LapsAligned, NEW r \in Ranks, Throw(r) \/ Abort(r)
  PROVE  LapsAligned'
<1>1. UNCHANGED <<params, gamma, good, iter>>
  BY DEF Throw, Abort
<1>2. \A q \in Ranks : Lap(q) \in Nat
  BY LapsAreNumbers
<1>3. ASSUME NEW q \in Ranks, Live(q)'
      PROVE  stage'[q] = stage[q] /\ todo'[q] = todo[q]
  <2>1. CASE Throw(r)
    BY <1>3, <2>1 DEF Throw, Live, Dead, Typing
  <2>2. CASE Abort(r)
    BY <1>3, <2>2 DEF Abort, Live, Dead, Typing
  <2>3. QED
    BY <2>1, <2>2
<1>4. ASSUME NEW q \in Ranks, Live(q)'
      PROVE  /\ Live(q) /\ Lap(q)' = Lap(q) /\ Done(q)' = Done(q) /\ iter'[q] = iter[q]
             /\ Ahead(q)' = Ahead(q)
             /\ Lap(q) > 0 => Cols(todo[q])' = Cols(todo[q]) /\ Whole(q)' = Whole(q)
  BY <1>1, <1>3, <1>4, Unmoved
<1>5. QED
  BY <1>1, <1>2, <1>4, LapsKept

------------------------------------------------------------------------------
(***************************************************************************)
(* The invariant                                                           *)
(***************************************************************************)

\* The step sizes stay alike when no rank's changes and none enters the loop without one.
LEMMA StepSizesStay ==
  ASSUME StepSizesAlike, UNCHANGED <<params, gamma>>, NEW r \in Ranks,
         \A q \in Ranks \ {r} : stage'[q] = stage[q] \/ stage'[q] \in Dead,
         \/ stage'[r] = stage[r] \/ stage'[r] \in Dead \cup (SetupStages \ {"estimate"})
         \/ stage[r] \notin (SetupStages \ {"estimate"}) \cup Dead
  PROVE  StepSizesAlike'
<1>1. Ranks' = Ranks
  BY DEF Ranks
<1>2. CASE params.algorithm = "fb"
  BY <1>1, <1>2 DEF StepSizesAlike, SetupStages, Dead
<1>3. CASE params.algorithm # "fb"
  BY <1>1, <1>3 DEF StepSizesAlike
<1>4. QED
  BY <1>2, <1>3

LEMMA VerdictsStay ==
  ASSUME VerdictsAlike, UNCHANGED <<params, good>>
  PROVE  VerdictsAlike'
<1>1. Ranks' = Ranks /\ using_mpi' = using_mpi
  BY ListsKept DEF Ranks
<1>2. QED
  BY <1>1 DEF VerdictsAlike

\* The functions of the setup go on with what the next stages still have to do.
LEMMA SetupSteps ==
  ASSUME NEW r
  PROVE  /\ \/ Joined(Cols(FailsOn("version")), After("input")) = After("configure")
            \/ FailsOn("version") # <<>> /\ Head(FailsOn("version")) \in {"throw", "abort"}
         /\ \/ Joined(Cols(InputCalls(r)), After("operator")) = After("input")
            \/ InputCalls(r) # <<>> /\ Head(InputCalls(r)) \in {"throw", "abort"}
         /\ Joined(Cols(OperatorCalls), After("outputs")) = After("operator")
         /\ Joined(Cols(OutputCalls(r)), After("algorithm")) = After("outputs")
         /\ Joined(Cols(AlgorithmCalls), After("estimate")) = After("algorithm")
         /\ Joined(Cols(Direct), After("iterate")) = After("estimate")
<1>1. \/ Joined(Cols(FailsOn("version")), After("input")) = After("configure")
      \/ FailsOn("version") # <<>> /\ Head(FailsOn("version")) \in {"throw", "abort"}
  <2>1. CASE FailsOn("version") = <<"throw">>
    BY <2>1
  <2>2. CASE FailsOn("version") = <<>>
    <3>1. Cols(FailsOn("version")) = <<>> /\ <<>> \in Seq(Names)
      BY <2>2, ColsKnown
    <3>2. Joined(Cols(FailsOn("version")), After("input")) = After("input")
      BY <3>1, AfterKnown, JoinedEmpty
    <3>3. QED
      BY <3>2 DEF After
  <2>3. QED
    BY <2>1, <2>2 DEF FailsOn
<1>2. \/ Joined(Cols(InputCalls(r)), After("operator")) = After("input")
      \/ InputCalls(r) # <<>> /\ Head(InputCalls(r)) \in {"throw", "abort"}
  BY InputAlike DEF After, FromInput
<1>3. Joined(Cols(OperatorCalls), After("outputs")) = After("operator")
  BY DEF After, FromOperator
<1>4. Joined(Cols(OutputCalls(r)), After("algorithm")) = After("outputs")
  BY OutputsAlike DEF After, FromOutputs
<1>5. Joined(Cols(AlgorithmCalls), After("estimate")) = After("algorithm")
  BY DEF After, FromAlgorithm
<1>6. Joined(Cols(Direct), After("iterate")) = After("estimate")
  <2>1. Joined(Cols(Direct), <<>>) = Cols(Direct)
    BY ListsKnown, ColsKnown, NothingJoined
  <2>2. QED
    BY <2>1 DEF After, FromEstimate
<1>7. QED
  BY <1>1, <1>2, <1>3, <1>4, <1>5, <1>6

\* A call that cannot be pending cannot be made.
LEMMA NotPending ==
  ASSUME Contents, NEW r \in Ranks, todo[r] # <<>>
  PROVE  Head(todo[r]) \in Permitted(r, stage[r], iter[r])
<1>1. todo[r] \in Seq(Permitted(r, stage[r], iter[r]))
  BY DEF Contents
<1>2. QED
  BY <1>1, HeadTailProperties

LEMMA AlikeKept ==
  ASSUME Typing, Contents, Alike, JudgeAlike, [Next]_vars
  PROVE  Alike'
<1> USE DEF Alike
<1>a. Typing' /\ Contents'
  BY TypingKept
<1>b. {"configure", "input", "operator", "outputs", "algorithm", "estimate"} \subseteq SetupStages
  BY DEF SetupStages
<1>1. ASSUME NEW r \in Ranks, Configure(r) PROVE Alike'
  <2>1. /\ Enter(r, "configure", "input", FailsOn("version"))
        /\ UNCHANGED <<params, iter, good>> /\ \A q \in Ranks \ {r} : gamma'[q] = gamma[q]
    BY <1>1 DEF Configure, Typing
  <2>2. FailsOn("version") \in Seq(Names)
    BY NamesKnown, ListsKnown, ShortLists DEF FailsOn
  <2>3. LapsAligned'
    BY <1>b, <2>1, <2>2, SetupSteps, SetupAligned
  <2>4. StepSizesAlike'
    BY <1>1, <2>1, StepSizesStay DEF Configure, Enter, SetupStages, Dead, Typing
  <2>5. QED
    BY <2>1, <2>3, <2>4, VerdictsStay
<1>2. ASSUME NEW r \in Ranks, GetInputData(r) PROVE Alike'
  <2>1. /\ Enter(r, "input", "operator", InputCalls(r))
        /\ UNCHANGED <<params, iter, good>> /\ \A q \in Ranks \ {r} : gamma'[q] = gamma[q]
    BY <1>2 DEF GetInputData, Typing
  <2>2. InputCalls(r) \in Seq(Names)
    BY ListsKnown
  <2>3. LapsAligned'
    BY <1>b, <2>1, <2>2, SetupSteps, SetupAligned
  <2>4. StepSizesAlike'
    BY <1>2, <2>1, StepSizesStay DEF GetInputData, Enter, SetupStages, Dead, Typing
  <2>5. QED
    BY <2>1, <2>3, <2>4, VerdictsStay
<1>3. ASSUME NEW r \in Ranks, CreateMeasurementOperator(r) PROVE Alike'
  <2>1. /\ Enter(r, "operator", "outputs", OperatorCalls)
        /\ UNCHANGED <<params, iter, good>> /\ \A q \in Ranks \ {r} : gamma'[q] = gamma[q]
    BY <1>3 DEF CreateMeasurementOperator, Typing
  <2>2. OperatorCalls \in Seq(Names)
    BY ListsKnown
  <2>3. LapsAligned'
    BY <1>b, <2>1, <2>2, SetupSteps, SetupAligned
  <2>4. StepSizesAlike'
    BY <1>3, <2>1, StepSizesStay DEF CreateMeasurementOperator, Enter, SetupStages, Dead, Typing
  <2>5. QED
    BY <2>1, <2>3, <2>4, VerdictsStay
<1>4. ASSUME NEW r \in Ranks, SaveOutputs(r) PROVE Alike'
  <2>1. /\ Enter(r, "outputs", "algorithm", OutputCalls(r))
        /\ UNCHANGED <<params, iter, good>> /\ \A q \in Ranks \ {r} : gamma'[q] = gamma[q]
    BY <1>4 DEF SaveOutputs, Typing
  <2>2. OutputCalls(r) \in Seq(Names)
    BY ListsKnown
  <2>3. LapsAligned'
    BY <1>b, <2>1, <2>2, SetupSteps, SetupAligned
  <2>4. StepSizesAlike'
    BY <1>4, <2>1, StepSizesStay DEF SaveOutputs, Enter, SetupStages, Dead, Typing
  <2>5. QED
    BY <2>1, <2>3, <2>4, VerdictsStay
<1>5. ASSUME NEW r \in Ranks, CreateAlgorithm(r) PROVE Alike'
  <2>1. /\ Enter(r, "algorithm", "estimate", AlgorithmCalls)
        /\ UNCHANGED <<params, iter, good>> /\ \A q \in Ranks \ {r} : gamma'[q] = gamma[q]
    BY <1>5 DEF CreateAlgorithm, Typing
  <2>2. AlgorithmCalls \in Seq(Names)
    BY ListsKnown
  <2>3. LapsAligned'
    BY <1>b, <2>1, <2>2, SetupSteps, SetupAligned
  <2>4. StepSizesAlike'
    <3>1. /\ stage' = [stage EXCEPT ![r] = "estimate"]
          /\ gamma' = [gamma EXCEPT ![r] = IF params.algorithm = "fb" THEN 1 ELSE @]
          /\ stage \in [Ranks -> Stages] /\ gamma \in [Ranks -> {0, 1}] /\ Ranks' = Ranks
      BY <1>5 DEF CreateAlgorithm, Enter, Typing, Ranks
    <3>2. CASE params.algorithm = "fb"
      BY <2>1, <3>1, <3>2 DEF StepSizesAlike
    <3>3. CASE params.algorithm # "fb"
      BY <2>1, <3>1, <3>3 DEF StepSizesAlike
    <3>4. QED
      BY <3>2, <3>3
  <2>5. QED
    BY <2>1, <2>3, <2>4, VerdictsStay
<1>6. ASSUME NEW r \in Ranks, EstimateResidual(r) PROVE Alike'
  <2>1. /\ Enter(r, "estimate", "iterate", Direct)
        /\ UNCHANGED <<params, iter, good>> /\ \A q \in Ranks \ {r} : gamma'[q] = gamma[q]
    BY <1>6 DEF EstimateResidual, Typing
  <2>2. Direct \in Seq(Names)
    BY ListsKnown
  <2>3. LapsAligned'
    BY <1>b, <2>1, <2>2, SetupSteps, SetupAligned
  <2>4. StepSizesAlike'
    BY <1>6, <2>1, StepSizesStay DEF EstimateResidual, Enter, SetupStages, Dead, Typing
  <2>5. QED
    BY <2>1, <2>3, <2>4, VerdictsStay
<1>7. ASSUME NEW r \in Ranks, Iterate(r) PROVE Alike'
  <2>1. /\ stage[r] = "iterate" /\ todo[r] = <<>> /\ stage'[r] = "iterate"
        /\ todo'[r] = IterationCalls(r) /\ UNCHANGED <<params, gamma, good>>
        /\ \A q \in Ranks \ {r} : /\ stage'[q] = stage[q] /\ todo'[q] = todo[q]
                                   /\ iter'[q] = iter[q]
        /\ iter'[r] = iter[r] + 1 /\ ~(good[r] \/ iter[r] = IterMax)
    BY <1>7, LapsAreNumbers DEF Iterate, Enter, Typing
  <2>2. ~Done(r) /\ ~Done(r)' /\ Lap(r)' = Lap(r) + 1
    BY <2>1 DEF Done, Lap
  <2>3. Cols(todo[r])' = Whole(r)'
    BY <2>1, <2>2, ListsKept DEF Whole, Cols
  <2>4. Live(r)'
    <3>1. todo'[r] # <<>> => Head(todo'[r]) \in Permitted(r, stage'[r], iter'[r])
      BY <1>a, <2>1, PermittedKept, HeadTailProperties
    <3>2. QED
      BY <2>1, <3>1 DEF Live, Permitted, Dead
  <2>5. LapsAligned'
    BY <1>a, <2>1, <2>2, <2>3, <2>4, NextLap
  <2>6. StepSizesAlike'
    BY <2>1, StepSizesStay
  <2>7. QED
    BY <2>1, <2>5, <2>6, VerdictsStay
<1>8. ASSUME NEW r \in Ranks, LeaveLoop(r) PROVE Alike'
  <2>1. /\ stage[r] = "iterate" /\ todo[r] = <<>> /\ stage'[r] = "finish"
        /\ todo'[r] = FinalCalls(r) /\ UNCHANGED <<params, gamma, good, iter>>
        /\ \A q \in Ranks \ {r} : /\ stage'[q] = stage[q] /\ todo'[q] = todo[q]
                                   /\ iter'[q] = iter[q]
        /\ good[r] \/ iter[r] = IterMax
    BY <1>8 DEF LeaveLoop, Enter, Typing
  <2>2. ~Done(r) /\ Done(r)' /\ Lap(r)' = Lap(r) + 1
    BY <2>1 DEF Done, Lap
  <2>3. Cols(todo[r])' = Whole(r)'
    BY <2>1, <2>2, ListsKept DEF Whole, Cols
  <2>4. Live(r)'
    <3>1. todo'[r] # <<>> => Head(todo'[r]) \in Permitted(r, stage'[r], iter'[r])
      BY <1>a, <2>1, PermittedKept, HeadTailProperties
    <3>2. QED
      BY <2>1, <3>1 DEF Live, Permitted, Dead
  <2>5. LapsAligned'
    BY <1>a, <2>1, <2>2, <2>3, <2>4, NextLap
  <2>6. StepSizesAlike'
    BY <2>1, StepSizesStay DEF SetupStages, Dead
  <2>7. QED
    BY <2>1, <2>5, <2>6, VerdictsStay
<1>9. ASSUME NEW r \in Ranks, Return(r) PROVE Alike'
  <2>1. UNCHANGED <<params, gamma, good>> /\ LapsAligned'
    BY <1>9, ReturnAligned DEF Return
  <2>2. StepSizesAlike'
    BY <1>9, StepSizesStay DEF Return, Enter, SetupStages, Dead, Typing
  <2>3. QED
    BY <2>1, <2>2, VerdictsStay
<1>10. ASSUME NEW r \in Ranks, WriteFile(r) PROVE Alike'
  <2>1. Head(todo[r]) \notin Shared \cup {"throw", "abort"}
    BY <1>10, NamesKnown DEF WriteFile
  <2>2. LapsAligned'
    BY <1>10, <2>1, OwnAligned DEF WriteFile
  <2>3. StepSizesAlike'
    BY <1>10, StepSizesStay DEF WriteFile
  <2>4. QED
    BY <1>10, <2>2, <2>3, VerdictsStay DEF WriteFile
<1>11. ASSUME NEW r \in Ranks, DecideAlone(r) PROVE Alike'
  <2>1. todo[r] # <<>> /\ Head(todo[r]) = "decide_alone"
    BY <1>11 DEF DecideAlone, Calls
  <2>2. ~using_mpi
    BY <2>1, NotPending DEF Permitted
  <2>3. Head(todo[r]) \notin Shared \cup {"throw", "abort"}
    BY <2>1, NamesKnown
  <2>4. LapsAligned'
    BY <1>11, <2>1, <2>2, <2>3, OwnAligned DEF DecideAlone
  <2>5. StepSizesAlike'
    BY <1>11, StepSizesStay DEF DecideAlone
  <2>6. ~using_mpi'
    BY <1>11, <2>2, ListsKept DEF DecideAlone
  <2>7. VerdictsAlike'
    BY <2>6 DEF VerdictsAlike
  <2>8. QED
    BY <2>4, <2>5, <2>7
<1>12. ASSUME NEW r \in Ranks, Throw(r) \/ Abort(r) PROVE Alike'
  <2>1. UNCHANGED <<params, gamma, good>> /\ LapsAligned'
    BY <1>12, EndAligned DEF Throw, Abort
  <2>2. \A q \in Ranks : stage'[q] = stage[q] \/ stage'[q] \in Dead
    BY <1>12 DEF Throw, Abort, Typing, Dead
  <2>3. StepSizesAlike'
    BY <2>1, <2>2, StepSizesStay
  <2>4. QED
    BY <2>1, <2>3, VerdictsStay
<1>13. ASSUME Collective PROVE Alike'
  <2>1. Root \in Ranks
    BY SizeAssumption DEF Root, Ranks
  <2>2. Head(todo[Root]) \in Shared
    BY <1>13, <2>1, AheadKnown DEF Collective, Names
  <2>3. LapsAligned'
    BY <1>13, <2>2, JointAligned DEF Collective
  <2>4. StepSizesAlike'
    BY <1>13, <2>1, StepSizesStay DEF Collective
  <2>5. QED
    BY <1>13, <2>3, <2>4, VerdictsStay DEF Collective
<1>14. ASSUME MaxStepSize PROVE Alike'
  <2>1. "max_step_size" \in Shared /\ Root \in Ranks /\ Ranks' = Ranks
    BY SizeAssumption DEF Shared, Root, Ranks
  <2>2. LapsAligned'
    BY <1>14, <2>1, JointAligned DEF MaxStepSize
  <2>3. params.algorithm # "fb"
    BY <1>14, <2>1, NotPending DEF MaxStepSize, Together, Calls, Permitted
  <2>4. StepSizesAlike'
    BY <1>14, <2>1, <2>3 DEF MaxStepSize, StepSizesAlike
  <2>5. QED
    BY <1>14, <2>2, <2>4, VerdictsStay DEF MaxStepSize
<1>15. ASSUME MaxAlpha PROVE Alike'
  <2>1. "max_alpha" \in Shared /\ Root \in Ranks /\ Ranks' = Ranks
    BY SizeAssumption DEF Shared, Root, Ranks
  <2>2. LapsAligned' /\ \A r, q \in Ranks : iter[r] = iter[q]
    BY <1>15, <2>1, JointAligned DEF MaxAlpha
  <2>3. \A r \in Ranks : iter[r] # 0 /\ iter[r] \in Nat
    <3>1. \A r \in Ranks : iter[r] \in Nat
      BY LapsAreNumbers
    <3>2. \A r \in Ranks : iter[r] # 0
      BY <1>15, NotPending DEF MaxAlpha, Together, Calls, Permitted
    <3>3. QED
      BY <3>1, <3>2
  <2>4. PICK own \in [Ranks -> {0, 1}], apart \in BOOLEAN :
          gamma' = [r \in Ranks |->
            IF apart /\ iter[r] - 1 < Updates THEN Largest(own) ELSE gamma[r]]
    BY <1>15 DEF MaxAlpha
  <2>5. params' = params /\ stage' = stage
    BY <1>15 DEF MaxAlpha
  <2>6. ASSUME params.algorithm = "fb" PROVE StepSizesAlike'
    <3>1. \A r \in Ranks : gamma'[r] = gamma[r]
      <4>1. \A r \in Ranks : ~(iter[r] - 1 < Updates)
        BY <2>3, <2>6 DEF Updates
      <4>2. QED
        BY <2>4, <4>1
    <3>2. QED
      BY <2>1, <2>5, <2>6, <3>1 DEF StepSizesAlike
  <2>7. ASSUME params.algorithm # "fb" PROVE StepSizesAlike'
    <3>1. \A r, q \in Ranks : gamma[r] = gamma[q]
      BY <2>7 DEF StepSizesAlike
    <3>2. \A r, q \in Ranks : gamma'[r] = gamma'[q]
      BY <2>2, <2>4, <3>1
    <3>3. QED
      BY <2>1, <2>5, <2>7, <3>2 DEF StepSizesAlike
  <2>8. QED
    BY <1>15, <2>2, <2>6, <2>7, VerdictsStay DEF MaxAlpha
<1>16. ASSUME ResidualGlobal PROVE Alike'
  <2>1. "l2_norm" \in Shared /\ Root \in Ranks /\ Ranks' = Ranks
    BY SizeAssumption DEF Shared, Root, Ranks
  <2>2. LapsAligned'
    BY <1>16, <2>1, JointAligned DEF ResidualGlobal
  <2>3. StepSizesAlike'
    BY <1>16, <2>1, StepSizesStay DEF ResidualGlobal
  <2>4. ~(Local \/ params.algorithm = "fb")
    BY <1>16, <2>1, NotPending DEF ResidualGlobal, Together, Calls, Permitted
  <2>5. SameNoise
    BY <2>4 DEF JudgeAlike
  <2>6. PICK norm \in Norms : good' = [r \in Ranks |-> norm < sigma[r]]
    BY <1>16 DEF ResidualGlobal
  <2>7. \A r, q \in Ranks : good'[r] = good'[q]
    BY <2>5, <2>6 DEF SameNoise
  <2>8. QED
    BY <2>1, <2>2, <2>3, <2>7 DEF VerdictsAlike
<1>17. ASSUME ResidualLocal PROVE Alike'
  <2>1. "land_residual" \in Shared /\ Root \in Ranks /\ Ranks' = Ranks
    BY SizeAssumption DEF Shared, Root, Ranks
  <2>2. LapsAligned'
    BY <1>17, <2>1, JointAligned DEF ResidualLocal
  <2>3. StepSizesAlike'
    BY <1>17, <2>1, StepSizesStay DEF ResidualLocal
  <2>4. \A r, q \in Ranks : good'[r] = good'[q]
    BY <1>17 DEF ResidualLocal
  <2>5. QED
    BY <2>1, <2>2, <2>3, <2>4 DEF VerdictsAlike
<1>18. ASSUME Objective PROVE Alike'
  <2>1. "objective" \in Shared /\ Root \in Ranks /\ Ranks' = Ranks
    BY SizeAssumption DEF Shared, Root, Ranks
  <2>2. LapsAligned'
    BY <1>18, <2>1, JointAligned DEF Objective
  <2>3. StepSizesAlike'
    BY <1>18, <2>1, StepSizesStay DEF Objective
  <2>4. using_mpi' = using_mpi
    BY <1>18, ListsKept DEF Objective
  <2>5. using_mpi => \A r, q \in Ranks : good'[r] = good'[q]
    BY <1>18 DEF Objective, VerdictsAlike
  <2>6. QED
    BY <2>1, <2>2, <2>3, <2>4, <2>5 DEF VerdictsAlike
<1>19. ASSUME UNCHANGED vars PROVE Alike'
  <2>1. UNCHANGED <<params, stage, todo, gamma, good, iter>> /\ Root \in Ranks
    BY <1>19, SizeAssumption DEF vars, Root, Ranks
  <2>2. LapsAligned'
    BY <2>1, Unmoved, LapsKept, LapsAreNumbers
  <2>3. QED
    BY <2>1, <2>2, StepSizesStay, VerdictsStay
<1>20. QED
  BY <1>1, <1>2, <1>3, <1>4, <1>5, <1>6, <1>7, <1>8, <1>9, <1>10, <1>11, <1>12,
     <1>13, <1>14, <1>15, <1>16, <1>17, <1>18, <1>19
  DEF Next, Joint, Main

\* Two ranks that wait for collective calls wait for the same one, and no rank waits for
\* one that has returned.
LEMMA AlikeCallsMatch ==
  ASSUME Typing, Alike
  PROVE  \A r, q \in Ranks :
           /\ Waits(r) /\ Waits(q) => Head(todo[r]) = Head(todo[q])
           /\ Waits(r) => stage[q] # "returned"
<1> USE DEF Alike
<1> DEFINE First(r) == Head(todo[r])
           Rest(r) == Joined(Cols(Tail(todo[r])), After(stage[r]))
<1>1. ASSUME NEW r \in Ranks, Waits(r)
      PROVE  /\ Live(r) /\ Ahead(r) # <<>> /\ Cols(todo[r]) # <<>>
             /\ First(r) \in Names /\ Rest(r) \in Seq(Names)
             /\ Ahead(r) = Joined(<<First(r)>>, Rest(r))
  BY <1>1, AheadKnown DEF Waits, Names
<1> HIDE DEF First, Rest
<1>2. ASSUME NEW r \in Ranks, NEW q \in Ranks, Waits(r), Waits(q)
      PROVE  First(r) = First(q)
  <2>1. InStep(r, q) /\ InStep(q, r) /\ Lap(r) \in Nat /\ Lap(q) \in Nat
    BY <1>1, <1>2, LapsAreNumbers DEF LapsAligned
  <2>2. Ahead(r) = Ahead(q)
    <3>1. Ahead(r) # <<>> /\ Ahead(q) # <<>>
      BY <1>1, <1>2
    <3>2. QED
      BY <2>1, <3>1 DEF InStep
  <2>3. /\ First(r) \in Names /\ Rest(r) \in Seq(Names)
        /\ First(q) \in Names /\ Rest(q) \in Seq(Names)
        /\ Joined(<<First(r)>>, Rest(r)) = Joined(<<First(q)>>, Rest(q))
    BY <1>1, <1>2, <2>2
  <2>4. QED
    BY <2>3, JoinedOnce
<1>3. ASSUME NEW r \in Ranks, NEW q \in Ranks, Waits(r), stage[q] = "returned"
      PROVE  FALSE
  <2>1. Live(q) /\ Done(q) /\ Lap(q) > 0 /\ Ahead(q) = <<>>
    <3>1. todo[q] = <<>> /\ Done(q) /\ Live(q)
      BY <1>3 DEF Typing, Done, Live, Dead
    <3>2. Lap(q) > 0 /\ After(stage[q]) = <<>>
      BY <3>1, LapsAreNumbers, <1>3 DEF After
    <3>3. QED
      BY <3>1, <3>2, AheadKnown
  <2>2. /\ InStep(r, q) /\ InStep(q, r) /\ SameWay(q, r)
        /\ Lap(r) \in Nat /\ Lap(q) \in Nat
    BY <1>1, <1>3, <2>1, LapsAreNumbers DEF LapsAligned
  <2>3. Lap(q) < Lap(r)
    <3>1. Ahead(r) # <<>> /\ Ahead(q) = <<>>
      BY <1>1, <1>3, <2>1
    <3>2. QED
      BY <2>2, <3>1 DEF InStep
  <2>4. ~using_mpi
    BY <2>1, <2>2, <2>3 DEF SameWay
  <2>5. Cols(todo[r]) = <<>>
    <3>1. Lap(r) > 0
      BY <2>2, <2>3
    <3>2. Live(r)
      BY <1>1, <1>3
    <3>3. QED
      BY <2>4, <3>1, <3>2 DEF LapsAligned
  <2>6. QED
    BY <1>1, <1>3, <2>5
<1>4. QED
  BY <1>2, <1>3 DEF First

\* Ranks that have left the loop did so after the same iteration.
LEMMA AlikeLeaveTogether ==
  ASSUME Typing, Contents, Alike, using_mpi
  PROVE  SameIteration
<1> USE DEF Alike
<1>1. ASSUME NEW q \in Ranks, stage[q] \in {"iterate", "finish", "returned"}
      PROVE  Live(q)
  <2>1. todo[q] # <<>> => Head(todo[q]) \notin {"throw", "abort"}
    BY <1>1, NotPending DEF Permitted
  <2>2. QED
    BY <1>1, <2>1 DEF Live, Dead
<1>2. SUFFICES ASSUME NEW r \in Ranks, NEW q \in Ranks, stage[r] \in {"finish", "returned"},
                      stage[q] \in {"iterate", "finish", "returned"}
               PROVE  iter[q] = iter[r]
  BY DEF SameIteration
<1>3. /\ SameWay(r, q) /\ SameWay(q, r) /\ Done(r)
      /\ iter[r] \in Nat /\ iter[q] \in Nat /\ Lap(r) = iter[r] + 1
      /\ Lap(q) = IF Done(q) THEN iter[q] + 1 ELSE iter[q]
  BY <1>1, <1>2, LapsAreNumbers DEF LapsAligned, Done, Lap
<1>4. CASE Lap(q) = Lap(r)
  BY <1>3, <1>4 DEF SameWay
<1>5. CASE Lap(q) < Lap(r)
  BY <1>3, <1>5 DEF SameWay
<1>6. CASE Lap(r) < Lap(q)
  BY <1>3, <1>6 DEF SameWay
<1>7. QED
  BY <1>3, <1>4, <1>5, <1>6

LEMMA AlikeInit == ASSUME Init PROVE Alike
<1> USE DEF Alike
<1>1. Typing /\ \A r \in Ranks : stage[r] = "configure" /\ todo[r] = <<>> /\ iter[r] = 0
  BY TypingInit DEF Init
<1>2. \A r \in Ranks : Lap(r) = 0 /\ ~Done(r) /\ Ahead(r) = After("configure")
  BY <1>1, AheadKnown DEF Lap, Done
<1>3. StepSizesAlike /\ VerdictsAlike
  BY DEF Init, StepSizesAlike, VerdictsAlike, SetupStages
<1>4. \A r, q \in Ranks : InStep(r, q) /\ SameWay(r, q)
  BY <1>2 DEF InStep, SameWay
<1>5. LapsAligned
  BY <1>2, <1>4 DEF LapsAligned
<1>6. QED
  BY <1>3, <1>5

\* The noise levels and the configuration do not change, so that ranks that judge alike
\* do so for the whole run.
LEMMA JudgeKept ==
  ASSUME [Next]_vars
  PROVE  params' = params /\ sigma' = sigma /\ JudgeAlike' = JudgeAlike
<1>1. params' = params /\ sigma' = sigma
  BY DEF Next, Joint, Main, vars, Configure, GetInputData, CreateMeasurementOperator,
         SaveOutputs, CreateAlgorithm, EstimateResidual, Iterate, LeaveLoop, Return,
         WriteFile, Throw, Abort, DecideAlone, Collective, MaxStepSize, MaxAlpha,
         ResidualGlobal, ResidualLocal, Objective
<1>2. QED
  BY <1>1 DEF JudgeAlike, SameNoise, Local, Ranks

\* The invariant: types, permitted calls, and, among ranks that judge the residual alike,
\* the same step sizes and verdicts and the same calls ahead.
THEOREM RunInvAlways == Spec => []RunInv
<1>1. Init => RunInv
  BY TypingInit, AlikeInit DEF RunInv, Alike
<1>2. RunInv /\ [Next]_vars => RunInv'
  BY TypingKept, AlikeKept, JudgeKept DEF RunInv, Alike
<1>3. QED
  BY <1>1, <1>2, PTL DEF Spec

\* Ranks that judge alike never wait in different collective calls, nor one for a rank that
\* has returned, whatever the configuration and the number of ranks.
THEOREM CallsAlwaysMatch == Spec => []CallsMatch
<1>1. RunInv => CallsMatch
  BY AlikeCallsMatch DEF RunInv, Alike, CallsMatch
<1>2. QED
  BY <1>1, RunInvAlways, PTL

\* With MPI ranks that judge alike leave the loop of the algorithm after the same iteration.
THEOREM RanksLeaveTogether == Spec => []LeaveTogether
<1>1. RunInv => LeaveTogether
  BY AlikeLeaveTogether DEF RunInv, Alike, LeaveTogether
<1>2. QED
  BY <1>1, RunInvAlways, PTL

------------------------------------------------------------------------------
(***************************************************************************)
(* The files                                                               *)
(***************************************************************************)

Once(b) == IF b THEN 1 ELSE 0

LEMMA WritesJoined ==
  ASSUME NEW f, NEW s \in Seq(Names), NEW t \in Seq(Names)
  PROVE  /\ Writes(s, f) \in Nat /\ Joined(s, t) \in Seq(Names)
         /\ Writes(Joined(s, t), f) = Writes(s, f) + Writes(t, f)
<1>1. /\ Kept(s, {f}) \in Seq(Names) /\ Kept(t, {f}) \in Seq(Names)
      /\ Joined(s, t) \in Seq(Names)
      /\ Kept(Joined(s, t), {f}) = Joined(Kept(s, {f}), Kept(t, {f}))
  BY KeptType, KeptJoined
<1>2. Len(Joined(Kept(s, {f}), Kept(t, {f}))) = Len(Kept(s, {f})) + Len(Kept(t, {f}))
  BY <1>1, JoinedEmpty
<1>3. QED
  BY <1>1, <1>2 DEF Writes

LEMMA WritesOne ==
  ASSUME NEW f, NEW x \in Names
  PROVE  <<x>> \in Seq(Names) /\ Writes(<<x>>, f) = Once(x = f)
<1>1. Kept(<<x>>, {f}) = IF x \in {f} THEN <<x>> ELSE <<>>
  BY KeptOne
<1>2. <<x>> \in Seq(Names) /\ Len(<<x>>) = 1 /\ Len(<<>>) = 0
  BY ShortLists
<1>3. CASE x = f
  BY <1>1, <1>2, <1>3 DEF Writes, Once
<1>4. CASE x # f
  BY <1>1, <1>2, <1>4 DEF Writes, Once
<1>5. QED
  BY <1>3, <1>4

LEMMA WritesTwo ==
  ASSUME NEW f, NEW x \in Names, NEW y \in Names
  PROVE  <<x, y>> \in Seq(Names) /\ Writes(<<x, y>>, f) = Once(x = f) + Once(y = f)
<1> DEFINE a == <<x>>
           b == <<y>>
<1>1. <<x, y>> = Joined(a, b)
  BY JoinedShort
<1>2. /\ a \in Seq(Names) /\ Writes(a, f) = Once(x = f)
      /\ b \in Seq(Names) /\ Writes(b, f) = Once(y = f)
  BY WritesOne
<1> HIDE DEF a, b
<1>3. QED
  BY <1>1, <1>2, WritesJoined

LEMMA WritesThree ==
  ASSUME NEW f, NEW x \in Names, NEW y \in Names, NEW z \in Names
  PROVE  /\ <<x, y, z>> \in Seq(Names)
         /\ Writes(<<x, y, z>>, f) = Once(x = f) + Once(y = f) + Once(z = f)
<1> DEFINE a == <<x, y>>
           b == <<z>>
<1>1. <<x, y, z>> = Joined(a, b)
  BY JoinedShort
<1>2. /\ a \in Seq(Names) /\ Writes(a, f) = Once(x = f) + Once(y = f)
      /\ b \in Seq(Names) /\ Writes(b, f) = Once(z = f)
  BY WritesOne, WritesTwo
<1> HIDE DEF a, b
<1>3. QED
  BY <1>1, <1>2, WritesJoined

\* A list without files writes none.
LEMMA WritesNone ==
  ASSUME NEW f \in Files, NEW s \in Seq(Names \ Files)
  PROVE  s \in Seq(Names) /\ Writes(s, f) = 0
<1>1. (Names \ Files) \cap {f} = {}
  OBVIOUS
<1>2. Kept(s, {f}) = <<>>
  BY <1>1, KeptNone
<1>3. QED
  BY <1>2, SeqMonotonic DEF Writes

\* The files the root writes in the functions of main, with MPI.
LEMMA FilesWritten ==
  ASSUME using_mpi, NEW f \in Files
  PROVE  /\ Writes(FailsOn("version"), f) = 0 /\ Writes(InputCalls(Root), f) = 0
         /\ Writes(OperatorCalls, f) = 0 /\ Writes(AlgorithmCalls, f) = 0
         /\ Writes(Direct, f) = 0
         /\ Writes(OutputCalls(Root), f)
              = IF f \in {"sol_update", "res_update", "purified", "residuals"} THEN 0 ELSE 1
         /\ Writes(IterationCalls(Root), f) = IF f \in {"sol_update", "res_update"} THEN 1 ELSE 0
         /\ Writes(FinalCalls(Root), f) = IF f \in {"purified", "residuals"} THEN 1 ELSE 0
<1> DEFINE B == Names \ Files
<1>1. /\ SetupCalls \cup StepCalls \subseteq B /\ GridCalls \cup LapCalls \subseteq B
      /\ {"max_step_size", "l2_norm"} \subseteq B
  BY NamesKnown
<1>2. /\ FailsOn("version") \in Seq(B) /\ InputCalls(Root) \in Seq(B) /\ OperatorCalls \in Seq(B)
      /\ AlgorithmCalls \in Seq(B) /\ Direct \in Seq(B) /\ Adjoint \in Seq(B)
      /\ FailsOn("output") \in Seq(B)
  BY <1>1, OperatorLists, SetupLists, AlgorithmLists
<1>3. /\ OnlyMpi(<<"sum_size">>) \in Seq(B) /\ OnlyMpi(<<"max_alpha">>) \in Seq(B)
      /\ <<"broadcast_measurements", "broadcast_wavelets">> \in Seq(B) /\ <<>> \in Seq(B)
  <2>1. {"sum_size", "max_alpha", "broadcast_measurements", "broadcast_wavelets"} \subseteq B
    BY <1>1 DEF SetupCalls, LapCalls
  <2>2. QED
    BY <2>1, ShortLists DEF OnlyMpi
<1>4. ConvergenceCalls \in Seq(B)
  <2>1. Size # Root
    BY SizeAssumption DEF Root
  <2>2. QED
    BY <1>1, <2>1, LapLists
<1> HIDE DEF B
<1>5. ASSUME NEW s \in Seq(B) PROVE s \in Seq(Names) /\ Writes(s, f) = 0
  BY WritesNone DEF B
<1>6. Files \subseteq Names
  BY NamesKnown
<1>7. \A calls : RootWrites(Root, calls) = calls
  BY DEF RootWrites
<1>8. Writes(OutputCalls(Root), f)
        = IF f \in {"sol_update", "res_update", "purified", "residuals"} THEN 0 ELSE 1
  <2> DEFINE n == OnlyMpi(<<"sum_size">>)
             o == FailsOn("output")
             w == <<"config", "eigenvector_real", "eigenvector_imag">>
             x == <<"psf">>
             y == <<"dirty">>
             j1 == Joined(o, w)
             j2 == Joined(j1, n)
             j3 == Joined(j2, Adjoint)
             j4 == Joined(j3, n)
             j5 == Joined(j4, x)
             j6 == Joined(j5, Adjoint)
  <2>1. OutputCalls(Root) = Joined(j6, y)
    BY DEF OutputCalls, RootWrites, Joined
  <2>2. /\ w \in Seq(Names) /\ x \in Seq(Names) /\ y \in Seq(Names)
        /\ Writes(w, f) = Once(f = "config") + Once(f = "eigenvector_real")
                          + Once(f = "eigenvector_imag")
        /\ Writes(x, f) = Once(f = "psf") /\ Writes(y, f) = Once(f = "dirty")
    BY <1>6, WritesOne, WritesThree DEF Files
  <2>3. /\ n \in Seq(Names) /\ Writes(n, f) = 0 /\ o \in Seq(Names) /\ Writes(o, f) = 0
        /\ Adjoint \in Seq(Names) /\ Writes(Adjoint, f) = 0
    BY <1>2, <1>3, <1>5
  <2> HIDE DEF n, o, w, x, y
  <2>4. j1 \in Seq(Names) /\ Writes(j1, f) = Writes(o, f) + Writes(w, f)
    BY <2>2, <2>3, WritesJoined
  <2>5. j2 \in Seq(Names) /\ Writes(j2, f) = Writes(j1, f) + Writes(n, f)
    BY <2>3, <2>4, WritesJoined
  <2>6. j3 \in Seq(Names) /\ Writes(j3, f) = Writes(j2, f) + Writes(Adjoint, f)
    BY <2>3, <2>5, WritesJoined
  <2>7. j4 \in Seq(Names) /\ Writes(j4, f) = Writes(j3, f) + Writes(n, f)
    BY <2>3, <2>6, WritesJoined
  <2>8. j5 \in Seq(Names) /\ Writes(j5, f) = Writes(j4, f) + Writes(x, f)
    BY <2>2, <2>7, WritesJoined
  <2>9. j6 \in Seq(Names) /\ Writes(j6, f) = Writes(j5, f) + Writes(Adjoint, f)
    BY <2>3, <2>8, WritesJoined
  <2>10. Writes(OutputCalls(Root), f) = Writes(j6, f) + Writes(y, f)
    BY <2>1, <2>2, <2>9, WritesJoined
  <2> HIDE DEF j1, j2, j3, j4, j5, j6
  <2>11. Writes(OutputCalls(Root), f)
           = Once(f = "config") + Once(f = "eigenvector_real") + Once(f = "eigenvector_imag")
             + Once(f = "psf") + Once(f = "dirty")
    <3>1. /\ Once(f = "config") \in Nat /\ Once(f = "eigenvector_real") \in Nat
          /\ Once(f = "eigenvector_imag") \in Nat /\ Once(f = "psf") \in Nat
          /\ Once(f = "dirty") \in Nat
      BY DEF Once
    <3> DEFINE c == Once(f = "config")
               er == Once(f = "eigenvector_real")
               ei == Once(f = "eigenvector_imag")
               p == Once(f = "psf")
               d == Once(f = "dirty")
    <3>2. /\ c \in Nat /\ er \in Nat /\ ei \in Nat /\ p \in Nat /\ d \in Nat
          /\ Writes(w, f) = c + er + ei /\ Writes(x, f) = p /\ Writes(y, f) = d
      BY <2>2, <3>1
    <3> HIDE DEF c, er, ei, p, d
    <3>3. Writes(j3, f) = c + er + ei
      BY ONLY <2>3, <2>4, <2>5, <2>6, <3>2
    <3>4. Writes(OutputCalls(Root), f) = c + er + ei + p + d
      BY ONLY <2>3, <2>7, <2>8, <2>9, <2>10, <3>2, <3>3
    <3>5. QED
      BY <3>4 DEF c, er, ei, p, d
  <2>12. QED
    BY <2>11 DEF Once, Files
<1>9. Writes(IterationCalls(Root), f) = IF f \in {"sol_update", "res_update"} THEN 1 ELSE 0
  <2> DEFINE u == IF params.dist = "mpi_random_updates"
                  THEN <<"broadcast_measurements", "broadcast_wavelets">> ELSE <<>>
             m == IF gamma[Root] > 0 THEN OnlyMpi(<<"max_alpha">>) ELSE <<>>
             w == <<"sol_update", "res_update">>
             i1 == Joined(Direct, Adjoint)
             i2 == Joined(i1, u)
             i3 == Joined(m, Adjoint)
             i4 == Joined(i3, w)
             i5 == Joined(i2, i4)
  <2>1. IterationCalls(Root) = Joined(i5, ConvergenceCalls)
    BY <1>7 DEF IterationCalls, UpdaterCalls, Joined
  <2>2. w \in Seq(Names) /\ Writes(w, f) = Once(f = "sol_update") + Once(f = "res_update")
    BY <1>6, WritesTwo DEF Files
  <2>3. /\ u \in Seq(Names) /\ Writes(u, f) = 0 /\ m \in Seq(Names) /\ Writes(m, f) = 0
        /\ Adjoint \in Seq(Names) /\ Writes(Adjoint, f) = 0
        /\ Direct \in Seq(Names) /\ Writes(Direct, f) = 0
        /\ ConvergenceCalls \in Seq(Names) /\ Writes(ConvergenceCalls, f) = 0
    BY <1>2, <1>3, <1>4, <1>5
  <2> HIDE DEF u, m, w
  <2>4. i1 \in Seq(Names) /\ Writes(i1, f) = Writes(Direct, f) + Writes(Adjoint, f)
    BY <2>3, WritesJoined
  <2>5. i2 \in Seq(Names) /\ Writes(i2, f) = Writes(i1, f) + Writes(u, f)
    BY <2>3, <2>4, WritesJoined
  <2>6. i3 \in Seq(Names) /\ Writes(i3, f) = Writes(m, f) + Writes(Adjoint, f)
    BY <2>3, WritesJoined
  <2>7. i4 \in Seq(Names) /\ Writes(i4, f) = Writes(i3, f) + Writes(w, f)
    BY <2>2, <2>6, WritesJoined
  <2>8. i5 \in Seq(Names) /\ Writes(i5, f) = Writes(i2, f) + Writes(i4, f)
    BY <2>5, <2>7, WritesJoined
  <2>9. Writes(IterationCalls(Root), f) = Writes(i5, f) + Writes(ConvergenceCalls, f)
    BY <2>1, <2>3, <2>8, WritesJoined
  <2> HIDE DEF i1, i2, i3, i4, i5
  <2>10. Writes(IterationCalls(Root), f) = Once(f = "sol_update") + Once(f = "res_update")
    <3>1. Once(f = "sol_update") \in Nat /\ Once(f = "res_update") \in Nat
      BY DEF Once
    <3>2. QED
      BY <2>2, <2>3, <2>4, <2>5, <2>6, <2>7, <2>8, <2>9, <3>1
  <2>11. QED
    BY <2>10 DEF Once, Files
<1>10. Writes(FinalCalls(Root), f) = IF f \in {"purified", "residuals"} THEN 1 ELSE 0
  <2> DEFINE w == <<"purified", "residuals">>
  <2>1. FinalCalls(Root) = Joined(Adjoint, w)
    BY <1>7 DEF FinalCalls, Joined
  <2>2. w \in Seq(Names) /\ Writes(w, f) = Once(f = "purified") + Once(f = "residuals")
    BY <1>6, WritesTwo DEF Files
  <2>3. Adjoint \in Seq(Names) /\ Writes(Adjoint, f) = 0
    BY <1>2, <1>5
  <2> HIDE DEF w
  <2>4. Writes(FinalCalls(Root), f) = 0 + Writes(w, f)
    BY <2>1, <2>2, <2>3, WritesJoined
  <2>5. QED
    BY <2>2, <2>4 DEF Once, Files
<1>11. QED
  BY <1>2, <1>5, <1>8, <1>9, <1>10

LEMMA TimesKnown ==
  ASSUME Typing, NEW r \in Ranks
  PROVE  \A f : /\ Times(r, f) = Occurrences(written[r], f) /\ Times(r, f) \in Nat
                /\ Writes(todo[r], f) \in Nat /\ Writes(<<>>, f) = 0
<1>1. written[r] \in Seq(Files) /\ todo[r] \in Seq(Names)
  BY DEF Typing
<1>2. ASSUME NEW f PROVE Writes(todo[r], f) \in Nat /\ Writes(<<>>, f) = 0
  <2>1. Kept(<<>>, {f}) = <<>> /\ Len(<<>>) = 0
    BY KeptEmpty
  <2>2. Kept(todo[r], {f}) \in Seq(Names)
    BY <1>1, KeptType
  <2>3. Len(Kept(todo[r], {f})) \in Nat
    BY <2>2, LenProperties
  <2>4. QED
    BY <2>1, <2>3 DEF Writes
<1>3. \A f : Writes(todo[r], f) \in Nat /\ Writes(<<>>, f) = 0
  BY <1>2
<1>4. \A f : Occurrences(written[r], f) \in Nat
  BY <1>1, OccurrencesFinite
<1>5. QED
  BY <1>3, <1>4 DEF Times, Occurrences

\* The root enters a function that makes the writes in which its stages differ.
LEMMA RootEnters ==
  ASSUME Typing, NEW from \in Stages, NEW to \in Stages, NEW calls, NEW f, NEW d \in Nat,
         Enter(Root, from, to, calls), UNCHANGED written, Root \in Ranks,
         Tally(f) = Due(f, iter[Root]), iter'[Root] = iter[Root] + d,
         Writes(calls, f) + Later(to, f)
           = Later(from, f) + (IF f \in {"sol_update", "res_update"} THEN d ELSE 0),
         Writes(calls, f) \in Nat
  PROVE  Tally(f)' = Due(f, iter[Root])'
<1>1. /\ stage[Root] = from /\ todo[Root] = <<>> /\ stage'[Root] = to /\ todo'[Root] = calls
  BY DEF Enter, Typing
<1>2. Times(Root, f)' = Times(Root, f) /\ Times(Root, f) \in Nat /\ Writes(<<>>, f) = 0
  BY TimesKnown DEF Times, Root
<1>3. Later(from, f) \in Nat /\ Later(to, f) \in Nat /\ iter[Root] \in Nat
  BY LapsAreNumbers DEF Later
<1>4. Tally(f) = Times(Root, f) + 0 + Later(from, f)
  BY <1>1, <1>2 DEF Tally
<1>5. Tally(f)' = Times(Root, f) + Writes(calls, f) + Later(to, f)
  BY <1>1, <1>2 DEF Tally, Root, Writes, Later
<1>6. QED
  BY <1>2, <1>3, <1>4, <1>5 DEF Due, Root

\* The root makes a call that writes no file.
LEMMA RootCalls ==
  ASSUME Typing, NEW f \in Files, Root \in Ranks, todo[Root] # <<>>,
         Head(todo[Root]) \notin Files, todo'[Root] = Tail(todo[Root]),
         stage'[Root] = stage[Root], written'[Root] = written[Root]
  PROVE  Tally(f)' = Tally(f)
<1>1. todo[Root] \in Seq(Names) /\ Head(todo[Root]) \notin {f}
  BY DEF Typing
<1>2. Kept(todo[Root], {f}) = Kept(Tail(todo[Root]), {f})
  BY <1>1, KeptRest
<1>3. Writes(todo[Root], f)' = Writes(todo[Root], f)
  BY <1>2 DEF Writes, Root
<1>4. QED
  BY <1>3 DEF Tally, Times, Later, Root

\* The root writes a file.
LEMMA RootWritesFile ==
  ASSUME Typing, NEW f \in Files, Root \in Ranks, WriteFile(Root)
  PROVE  Tally(f)' = Tally(f)
<1> DEFINE h == Head(todo[Root])
<1>1. /\ todo[Root] \in Seq(Names) /\ todo[Root] # <<>> /\ h \in Files
      /\ todo'[Root] = Tail(todo[Root]) /\ written[Root] \in Seq(Files)
      /\ written'[Root] = Append(written[Root], h) /\ stage' = stage
  BY DEF WriteFile, Made, Typing
<1> HIDE DEF h
<1>2. Occurrences(written'[Root], f) = Occurrences(written[Root], f) + Once(h = f)
  BY <1>1, OccurrencesAppend DEF Once
<1>3. Times(Root, f)' = Times(Root, f) + Once(h = f)
  BY <1>2 DEF Times, Occurrences, Root
<1>4. Writes(todo[Root], f) = Once(h = f) + Writes(Tail(todo[Root]), f)
  <2>1. /\ Tail(todo[Root]) \in Seq(Names)
        /\ Kept(todo[Root], {f}) = IF h \in {f} THEN <<h>> \o Kept(Tail(todo[Root]), {f})
                                   ELSE Kept(Tail(todo[Root]), {f})
    <3>1. todo[Root] \in Seq(Names) /\ todo[Root] # <<>>
      BY <1>1
    <3> DEFINE own == {f}
    <3> HIDE DEF own
    <3>2. /\ Tail(todo[Root]) \in Seq(Names)
          /\ Kept(todo[Root], own) = IF Head(todo[Root]) \in own
                                     THEN <<Head(todo[Root])>> \o Kept(Tail(todo[Root]), own)
                                     ELSE Kept(Tail(todo[Root]), own)
      BY ONLY <3>1, KeptTail
    <3> QED
      BY <3>2, Zenon DEF h, own
  <2> DEFINE k == Kept(Tail(todo[Root]), {f})
  <2>2. k \in Seq(Names)
    BY <2>1, KeptType
  <2>3. <<h>> \in Seq(Names) /\ Len(<<h>>) = 1
    BY <1>1, NamesKnown, ShortLists
  <2> HIDE DEF k
  <2>4. Len(<<h>> \o k) = 1 + Len(k) /\ Len(k) \in Nat
    BY <2>2, <2>3, ConcatProperties
  <2>5. CASE h = f
    BY <2>1, <2>4, <2>5 DEF Writes, Once, k
  <2>6. CASE h # f
    BY <2>1, <2>4, <2>6 DEF Writes, Once, k
  <2>7. QED
    BY <2>5, <2>6
<1>5. Writes(todo[Root], f)' = Writes(Tail(todo[Root]), f)
  BY <1>1 DEF Writes, Root
<1>6. Later(stage[Root], f)' = Later(stage[Root], f)
  BY <1>1 DEF Later, Root
<1>7. /\ Times(Root, f) \in Nat /\ Writes(todo[Root], f) \in Nat /\ Once(h = f) \in {0, 1}
      /\ Later(stage[Root], f) \in Nat /\ Writes(Tail(todo[Root]), f) \in Nat
  <2>1. Times(Root, f) \in Nat /\ Writes(todo[Root], f) \in Nat
    BY TimesKnown
  <2>2. Tail(todo[Root]) \in Seq(Names)
    BY <1>1, HeadTailProperties
  <2>3. QED
    BY <2>1, <2>2, WritesJoined DEF Once, Later
<1> DEFINE T == Times(Root, f)
           W == Writes(Tail(todo[Root]), f)
           L == Later(stage[Root], f)
           o == Once(h = f)
<1>8. Tally(f)' = (T + o) + W + L
  BY <1>3, <1>5, <1>6 DEF Tally, Root
<1>9. Tally(f) = T + (o + W) + L
  BY <1>4 DEF Tally
<1>10. T \in Nat /\ W \in Nat /\ L \in Nat /\ o \in {0, 1}
  BY <1>7
<1> HIDE DEF T, W, L, o
<1>11. QED
  BY <1>8, <1>9, <1>10

LEMMA WriterKept ==
  ASSUME Typing, Contents, WriterInv, [Next]_vars, using_mpi
  PROVE  WriterInv'
<1>1. ASSUME \A r \in Ranks \ {Root} : written'[r] = <<>>,
             stage'[Root] \notin Dead => \A f \in Files : Tally(f)' = Due(f, iter[Root])'
      PROVE  WriterInv'
  <2>1. Ranks' = Ranks /\ Root' = Root
    BY DEF Ranks, Root
  <2>2. QED
    BY <1>1, <2>1 DEF WriterInv, Tally, Due, Times, Writes, Later
<1>2. /\ using_mpi /\ Root \in Ranks /\ \A r \in Ranks \ {Root} : written[r] = <<>>
      /\ stage[Root] \notin Dead => \A f \in Files : Tally(f) = Due(f, iter[Root])
  <2>1. Root \in Ranks
    BY SizeAssumption DEF Root, Ranks
  <2>2. QED
    BY <2>1 DEF WriterInv, Tally, Due
<1>3. ASSUME UNCHANGED written, stage'[Root] = stage[Root], todo'[Root] = todo[Root],
             iter'[Root] = iter[Root]
      PROVE  WriterInv'
  <2>1. /\ \A f : Tally(f)' = Tally(f) /\ Due(f, iter[Root])' = Due(f, iter[Root])
    BY <1>3 DEF Tally, Due, Times, Writes, Later, Root
  <2>2. QED
    BY <1>1, <1>2, <1>3, <2>1
<1>4. ASSUME UNCHANGED <<stage, written, iter>>, todo[Root] # <<>>,
             Head(todo[Root]) \notin Files, todo'[Root] = Tail(todo[Root])
      PROVE  WriterInv'
  <2>1. \A f \in Files : Tally(f)' = Tally(f) /\ Due(f, iter[Root])' = Due(f, iter[Root])
    BY <1>2, <1>4, RootCalls DEF Due, Root
  <2>2. QED
    BY <1>1, <1>2, <1>4, <2>1
<1>5. ASSUME NEW r \in Ranks, Configure(r) PROVE WriterInv'
  <2>1. CASE r = Root
    <3>1. /\ Enter(Root, "configure", "input", FailsOn("version")) /\ UNCHANGED written
          /\ iter'[Root] = iter[Root] + 0 /\ "configure" \in Stages \ Dead /\ "input" \in Stages
      BY <1>5, <2>1, LapsAreNumbers DEF Configure, Stages, Dead, Typing
    <3>2. \A f \in Files :
            /\ Writes(FailsOn("version"), f) \in Nat
            /\ Writes(FailsOn("version"), f) + Later("input", f)
                 = Later("configure", f) + (IF f \in {"sol_update", "res_update"} THEN 0 ELSE 0)
      BY <1>2, FilesWritten DEF Later, Files
    <3>3. \A f \in Files : Tally(f) = Due(f, iter[Root])
      BY <1>2, <3>1 DEF Enter
    <3>4. \A f \in Files : Tally(f)' = Due(f, iter[Root])'
      BY <1>2, <3>1, <3>2, <3>3, RootEnters
    <3>5. QED
      BY <1>1, <1>2, <3>1, <3>4
  <2>2. CASE r # Root
    BY <1>2, <1>3, <1>5, <2>2 DEF Configure, Enter, Typing
  <2>3. QED
    BY <2>1, <2>2
<1>6. ASSUME NEW r \in Ranks, GetInputData(r) PROVE WriterInv'
  <2>1. CASE r = Root
    <3>1. /\ Enter(Root, "input", "operator", InputCalls(Root)) /\ UNCHANGED written
          /\ iter'[Root] = iter[Root] + 0 /\ "input" \in Stages \ Dead /\ "operator" \in Stages
      BY <1>6, <2>1, LapsAreNumbers DEF GetInputData, Stages, Dead, Typing
    <3>2. \A f \in Files :
            /\ Writes(InputCalls(Root), f) \in Nat
            /\ Writes(InputCalls(Root), f) + Later("operator", f)
                 = Later("input", f) + (IF f \in {"sol_update", "res_update"} THEN 0 ELSE 0)
      BY <1>2, FilesWritten DEF Later, Files
    <3>3. \A f \in Files : Tally(f) = Due(f, iter[Root])
      BY <1>2, <3>1 DEF Enter
    <3>4. \A f \in Files : Tally(f)' = Due(f, iter[Root])'
      BY <1>2, <3>1, <3>2, <3>3, RootEnters
    <3>5. QED
      BY <1>1, <1>2, <3>1, <3>4
  <2>2. CASE r # Root
    BY <1>2, <1>3, <1>6, <2>2 DEF GetInputData, Enter, Typing
  <2>3. QED
    BY <2>1, <2>2
<1>7. ASSUME NEW r \in Ranks, CreateMeasurementOperator(r) PROVE WriterInv'
  <2>1. CASE r = Root
    <3>1. /\ Enter(Root, "operator", "outputs", OperatorCalls) /\ UNCHANGED written
          /\ iter'[Root] = iter[Root] + 0 /\ "operator" \in Stages \ Dead /\ "outputs" \in Stages
      BY <1>7, <2>1, LapsAreNumbers DEF CreateMeasurementOperator, Stages, Dead, Typing
    <3>2. \A f \in Files :
            /\ Writes(OperatorCalls, f) \in Nat
            /\ Writes(OperatorCalls, f) + Later("outputs", f)
                 = Later("operator", f) + (IF f \in {"sol_update", "res_update"} THEN 0 ELSE 0)
      BY <1>2, FilesWritten DEF Later, Files
    <3>3. \A f \in Files : Tally(f) = Due(f, iter[Root])
      BY <1>2, <3>1 DEF Enter
    <3>4. \A f \in Files : Tally(f)' = Due(f, iter[Root])'
      BY <1>2, <3>1, <3>2, <3>3, RootEnters
    <3>5. QED
      BY <1>1, <1>2, <3>1, <3>4
  <2>2. CASE r # Root
    BY <1>2, <1>3, <1>7, <2>2 DEF CreateMeasurementOperator, Enter, Typing
  <2>3. QED
    BY <2>1, <2>2
<1>8. ASSUME NEW r \in Ranks, SaveOutputs(r) PROVE WriterInv'
  <2>1. CASE r = Root
    <3>1. /\ Enter(Root, "outputs", "algorithm", OutputCalls(Root)) /\ UNCHANGED written
          /\ iter'[Root] = iter[Root] + 0 /\ "outputs" \in Stages \ Dead /\ "algorithm" \in Stages
      BY <1>8, <2>1, LapsAreNumbers DEF SaveOutputs, Stages, Dead, Typing
    <3>2. \A f \in Files :
            /\ Writes(OutputCalls(Root), f) \in Nat
            /\ Writes(OutputCalls(Root), f) + Later("algorithm", f)
                 = Later("outputs", f) + (IF f \in {"sol_update", "res_update"} THEN 0 ELSE 0)
      BY <1>2, FilesWritten DEF Later, Files
    <3>3. \A f \in Files : Tally(f) = Due(f, iter[Root])
      BY <1>2, <3>1 DEF Enter
    <3>4. \A f \in Files : Tally(f)' = Due(f, iter[Root])'
      BY <1>2, <3>1, <3>2, <3>3, RootEnters
    <3>5. QED
      BY <1>1, <1>2, <3>1, <3>4
  <2>2. CASE r # Root
    BY <1>2, <1>3, <1>8, <2>2 DEF SaveOutputs, Enter, Typing
  <2>3. QED
    BY <2>1, <2>2
<1>9. ASSUME NEW r \in Ranks, CreateAlgorithm(r) PROVE WriterInv'
  <2>1. CASE r = Root
    <3>1. /\ Enter(Root, "algorithm", "estimate", AlgorithmCalls) /\ UNCHANGED written
          /\ iter'[Root] = iter[Root] + 0 /\ "algorithm" \in Stages \ Dead /\ "estimate" \in Stages
      BY <1>9, <2>1, LapsAreNumbers DEF CreateAlgorithm, Stages, Dead, Typing
    <3>2. \A f \in Files :
            /\ Writes(AlgorithmCalls, f) \in Nat
            /\ Writes(AlgorithmCalls, f) + Later("estimate", f)
                 = Later("algorithm", f) + (IF f \in {"sol_update", "res_update"} THEN 0 ELSE 0)
      BY <1>2, FilesWritten DEF Later, Files
    <3>3. \A f \in Files : Tally(f) = Due(f, iter[Root])
      BY <1>2, <3>1 DEF Enter
    <3>4. \A f \in Files : Tally(f)' = Due(f, iter[Root])'
      BY <1>2, <3>1, <3>2, <3>3, RootEnters
    <3>5. QED
      BY <1>1, <1>2, <3>1, <3>4
  <2>2. CASE r # Root
    BY <1>2, <1>3, <1>9, <2>2 DEF CreateAlgorithm, Enter, Typing
  <2>3. QED
    BY <2>1, <2>2
<1>10. ASSUME NEW r \in Ranks, EstimateResidual(r) PROVE WriterInv'
  <2>1. CASE r = Root
    <3>1. /\ Enter(Root, "estimate", "iterate", Direct) /\ UNCHANGED written
          /\ iter'[Root] = iter[Root] + 0 /\ "estimate" \in Stages \ Dead /\ "iterate" \in Stages
      BY <1>10, <2>1, LapsAreNumbers DEF EstimateResidual, Stages, Dead, Typing
    <3>2. \A f \in Files :
            /\ Writes(Direct, f) \in Nat
            /\ Writes(Direct, f) + Later("iterate", f)
                 = Later("estimate", f) + (IF f \in {"sol_update", "res_update"} THEN 0 ELSE 0)
      BY <1>2, FilesWritten DEF Later, Files
    <3>3. \A f \in Files : Tally(f) = Due(f, iter[Root])
      BY <1>2, <3>1 DEF Enter
    <3>4. \A f \in Files : Tally(f)' = Due(f, iter[Root])'
      BY <1>2, <3>1, <3>2, <3>3, RootEnters
    <3>5. QED
      BY <1>1, <1>2, <3>1, <3>4
  <2>2. CASE r # Root
    BY <1>2, <1>3, <1>10, <2>2 DEF EstimateResidual, Enter, Typing
  <2>3. QED
    BY <2>1, <2>2
<1>11. ASSUME NEW r \in Ranks, Iterate(r) PROVE WriterInv'
  <2>1. CASE r = Root
    <3>1. /\ Enter(Root, "iterate", "iterate", IterationCalls(Root)) /\ UNCHANGED written
          /\ iter'[Root] = iter[Root] + 1 /\ "iterate" \in Stages \ Dead /\ "iterate" \in Stages
      BY <1>11, <2>1, LapsAreNumbers DEF Iterate, Stages, Dead, Typing
    <3>2. \A f \in Files :
            /\ Writes(IterationCalls(Root), f) \in Nat
            /\ Writes(IterationCalls(Root), f) + Later("iterate", f)
                 = Later("iterate", f) + (IF f \in {"sol_update", "res_update"} THEN 1 ELSE 0)
      BY <1>2, FilesWritten DEF Later, Files
    <3>3. \A f \in Files : Tally(f) = Due(f, iter[Root])
      BY <1>2, <3>1 DEF Enter
    <3>4. \A f \in Files : Tally(f)' = Due(f, iter[Root])'
      BY <1>2, <3>1, <3>2, <3>3, RootEnters
    <3>5. QED
      BY <1>1, <1>2, <3>1, <3>4
  <2>2. CASE r # Root
    BY <1>2, <1>3, <1>11, <2>2 DEF Iterate, Enter, Typing
  <2>3. QED
    BY <2>1, <2>2
<1>12. ASSUME NEW r \in Ranks, LeaveLoop(r) PROVE WriterInv'
  <2>1. CASE r = Root
    <3>1. /\ Enter(Root, "iterate", "finish", FinalCalls(Root)) /\ UNCHANGED written
          /\ iter'[Root] = iter[Root] + 0 /\ "iterate" \in Stages \ Dead /\ "finish" \in Stages
      BY <1>12, <2>1, LapsAreNumbers DEF LeaveLoop, Stages, Dead, Typing
    <3>2. \A f \in Files :
            /\ Writes(FinalCalls(Root), f) \in Nat
            /\ Writes(FinalCalls(Root), f) + Later("finish", f)
                 = Later("iterate", f) + (IF f \in {"sol_update", "res_update"} THEN 0 ELSE 0)
      BY <1>2, FilesWritten DEF Later, Files
    <3>3. \A f \in Files : Tally(f) = Due(f, iter[Root])
      BY <1>2, <3>1 DEF Enter
    <3>4. \A f \in Files : Tally(f)' = Due(f, iter[Root])'
      BY <1>2, <3>1, <3>2, <3>3, RootEnters
    <3>5. QED
      BY <1>1, <1>2, <3>1, <3>4
  <2>2. CASE r # Root
    BY <1>2, <1>3, <1>12, <2>2 DEF LeaveLoop, Enter, Typing
  <2>3. QED
    BY <2>1, <2>2
<1>13. ASSUME NEW r \in Ranks, Return(r) PROVE WriterInv'
  <2>1. CASE r = Root
    <3>1. /\ Enter(Root, "finish", "returned", <<>>) /\ UNCHANGED written
          /\ iter'[Root] = iter[Root] + 0 /\ "finish" \in Stages \ Dead /\ "returned" \in Stages
      BY <1>13, <2>1, LapsAreNumbers DEF Return, Stages, Dead, Typing
    <3>2. \A f \in Files :
            /\ Writes(<<>>, f) \in Nat
            /\ Writes(<<>>, f) + Later("returned", f)
                 = Later("finish", f) + (IF f \in {"sol_update", "res_update"} THEN 0 ELSE 0)
      BY <1>2, FilesWritten, TimesKnown DEF Later, Files
    <3>3. \A f \in Files : Tally(f) = Due(f, iter[Root])
      BY <1>2, <3>1 DEF Enter
    <3>4. \A f \in Files : Tally(f)' = Due(f, iter[Root])'
      BY <1>2, <3>1, <3>2, <3>3, RootEnters
    <3>5. QED
      BY <1>1, <1>2, <3>1, <3>4
  <2>2. CASE r # Root
    BY <1>2, <1>3, <1>13, <2>2 DEF Return, Enter, Typing
  <2>3. QED
    BY <2>1, <2>2
<1>14. ASSUME NEW r \in Ranks, WriteFile(r) PROVE WriterInv'
  <2>1. r = Root
    BY <1>2, <1>14, NotPending DEF WriteFile, Permitted
  <2>2. \A f \in Files : Tally(f)' = Tally(f) /\ Due(f, iter[Root])' = Due(f, iter[Root])
    BY <1>2, <1>14, <2>1, RootWritesFile DEF WriteFile, Due, Root
  <2>3. stage' = stage /\ \A q \in Ranks \ {Root} : written'[q] = written[q]
    BY <1>14, <2>1 DEF WriteFile, Typing
  <2>4. QED
    BY <1>1, <1>2, <2>2, <2>3
<1>15. ASSUME NEW r \in Ranks, DecideAlone(r) PROVE WriterInv'
  <2>1. CASE r = Root
    <3>1. "decide_alone" \notin Files
      BY DEF Files
    <3>2. QED
      BY <1>4, <1>15, <2>1, <3>1 DEF DecideAlone, Calls, Made, Typing
  <2>2. CASE r # Root
    BY <1>2, <1>3, <1>15, <2>2 DEF DecideAlone, Made, Typing
  <2>3. QED
    BY <2>1, <2>2
<1>16. ASSUME NEW r \in Ranks, Throw(r) \/ Abort(r) PROVE WriterInv'
  <2>1. \/ stage'[Root] \in Dead
        \/ stage'[Root] = stage[Root] /\ todo'[Root] = todo[Root]
    BY <1>2, <1>16 DEF Throw, Abort, Dead, Typing
  <2>2. UNCHANGED <<written, iter>>
    BY <1>16 DEF Throw, Abort
  <2>3. CASE stage'[Root] \in Dead
    BY <1>1, <1>2, <2>2, <2>3
  <2>4. CASE stage'[Root] = stage[Root] /\ todo'[Root] = todo[Root]
    BY <1>3, <2>2, <2>4
  <2>5. QED
    BY <2>1, <2>3, <2>4
<1>17. ASSUME Collective PROVE WriterInv'
  BY <1>2, <1>4, <1>17 DEF Collective, Together, Calls, AllMade, OwnCalls
<1>18. ASSUME MaxStepSize \/ MaxAlpha \/ ResidualGlobal \/ ResidualLocal \/ Objective
      PROVE  WriterInv'
  <2>1. /\ UNCHANGED <<stage, written, iter>> /\ AllMade
        /\ \E call \in {"max_step_size", "max_alpha", "l2_norm", "land_residual", "objective"} :
             Together(call)
    BY <1>18 DEF MaxStepSize, MaxAlpha, ResidualGlobal, ResidualLocal, Objective
  <2>2. {"max_step_size", "max_alpha", "l2_norm", "land_residual", "objective"} \cap Files = {}
    BY DEF Files
  <2>3. QED
    BY <1>2, <1>4, <2>1, <2>2 DEF Together, Calls, AllMade
<1>19. CASE UNCHANGED vars
  BY <1>1, <1>3, <1>19 DEF vars
<1>20. QED
  BY <1>5, <1>6, <1>7, <1>8, <1>9, <1>10, <1>11, <1>12,
     <1>13, <1>14, <1>15, <1>16, <1>17, <1>18, <1>19
  DEF Next, Joint, Main

LEMMA WriterInit == ASSUME Init PROVE WriterInv
<1>1. Root \in Ranks
  BY SizeAssumption DEF Root, Ranks
<1>2. /\ \A r \in Ranks : written[r] = <<>> /\ todo[r] = <<>>
      /\ stage[Root] = "configure" /\ iter[Root] = 0
  BY <1>1 DEF Init
<1>3. ASSUME NEW f \in Files PROVE Tally(f) = Due(f, 0)
  <2>1. Times(Root, f) = 0
    <3>1. {k \in DOMAIN written[Root] : written[Root][k] = f} = {}
      BY <1>1, <1>2
    <3>2. QED
      BY <3>1, FS_EmptySet DEF Times
  <2>2. Writes(todo[Root], f) = 0
    BY <1>1, <1>2, TypingInit, TimesKnown
  <2>3. Later("configure", f) = Due(f, 0)
    BY DEF Later, Due, Files
  <2>4. QED
    BY <1>2, <2>1, <2>2, <2>3 DEF Tally, Due
<1>4. QED
  BY <1>2, <1>3 DEF WriterInv, Tally, Due

\* With MPI only the root writes, and a root that returned has written every result once.
THEOREM RootIsTheOnlyWriter == Spec => []OneWriter
<1>1. Init => Typing /\ Contents /\ WriterInv
  BY TypingInit, WriterInit
<1>2. Typing /\ Contents /\ WriterInv /\ [Next]_vars => (Typing /\ Contents /\ WriterInv)'
  <2>1. SUFFICES ASSUME Typing, Contents, WriterInv, [Next]_vars
                 PROVE  Typing' /\ Contents' /\ WriterInv'
    OBVIOUS
  <2>2. CASE using_mpi
    BY <2>1, <2>2, TypingKept, WriterKept
  <2>3. CASE ~using_mpi
    <3>1. ~using_mpi'
      BY <2>1, <2>3, JudgeKept, ListsKept
    <3>2. QED
      BY <2>1, <3>1, TypingKept DEF WriterInv
  <2>4. QED
    BY <2>2, <2>3
<1>3. Typing /\ WriterInv => OneWriter
  <2>1. SUFFICES ASSUME Typing, WriterInv, using_mpi, NEW r \in Ranks
                 PROVE  /\ r # Root => written[r] = <<>>
                        /\ r = Root /\ stage[r] = "returned" =>
                             \A f \in Files :
                               Times(r, f) = IF f \in {"sol_update", "res_update"}
                                             THEN iter[r] ELSE 1
    BY DEF OneWriter
  <2>2. r # Root => written[r] = <<>>
    BY <2>1 DEF WriterInv
  <2>3. ASSUME r = Root, stage[r] = "returned", NEW f \in Files
        PROVE  Times(r, f) = IF f \in {"sol_update", "res_update"} THEN iter[r] ELSE 1
    <3>1. todo[r] = <<>> /\ stage[r] \notin Dead
      BY <2>1, <2>3 DEF Typing, Dead
    <3>2. Writes(todo[r], f) = 0 /\ Times(r, f) \in Nat
      BY <2>1, <3>1, TimesKnown
    <3>3. Later(stage[r], f) = 0
      BY <2>3 DEF Later
    <3>4. Times(r, f) + 0 + 0 = IF f \in {"sol_update", "res_update"} THEN iter[r] ELSE 1
      BY <2>1, <2>3, <3>1, <3>2, <3>3 DEF WriterInv, Tally, Due
    <3>5. QED
      BY <3>2, <3>4
  <2>4. QED
    BY <2>2, <2>3
<1>4. QED
  BY <1>1, <1>2, <1>3, PTL DEF Spec
==============================================================================
