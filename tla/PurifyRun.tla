------------------------------ MODULE PurifyRun ------------------------------
(***************************************************************************)
(* A run of the purify program: main and the functions of setup_utils it   *)
(* calls, on all the ranks of an MPI job.  No rank tells another what to   *)
(* do next: every rank derives the calls it makes from the configuration,  *)
(* its rank and values it holds, and the run works only if all ranks reach *)
(* the same collective calls in the same order.                            *)
(*                                                                         *)
(* A function of the program is an action that appends the calls the       *)
(* function makes to the rank's agenda; the agenda is then worked off,     *)
(* collective calls by all ranks together.  Exchanges that modules of      *)
(* their own describe (the scatter, k-means, w_support, the exchange of    *)
(* grid cells) count as one collective call here.                          *)
(***************************************************************************)
EXTENDS Integers, Sequences, FiniteSets

CONSTANTS
  Size,         \* number of ranks
  Dists,        \* values of mpiAlgorithm under study
  Algorithms,   \* subset of {"padmm", "fb", "primaldual"}
  Sources,      \* subset of {"measurements", "simulation", "coverage"}
  Widefield,    \* pairs <<mpi_all_to_all, mpi_wstacking>> under study
  Faults,       \* what may be wrong with the user's input or disk
  Sigmas,       \* values the noise level sigma may have
  Norms,        \* values a residual norm may have
  IterMax,      \* the iterations parameter
  UpdateIters   \* the update_iters parameter

ASSUME SizeAssumption == Size \in Nat \ {0}
ASSUME IterMaxAssumption == IterMax \in Nat

VARIABLES
  params,   \* the parsed configuration, the same on every rank
  stage,    \* for every rank, the function of main that comes next
  todo,     \* for every rank, the calls of the current function still to make
  sigma,    \* for every rank, the noise level its tolerances derive from
  gamma,    \* for every rank, regulariser_strength
  good,     \* for every rank, whether the last iteration converged
  iter,     \* for every rank, iterations begun
  written   \* for every rank, the files it has written, in order

vars == <<params, stage, todo, sigma, gamma, good, iter, written>>

Ranks == 0 .. Size-1
Root == 0

(***************************************************************************)
(* What a rank derives from the configuration                              *)
(***************************************************************************)

using_mpi == params.dist # "serial"

mop_algo ==
  IF params.dist \in {"serial", "mpi_random_updates"} THEN "serial"
  ELSE IF params.all_to_all THEN "mpi_distribute_all_to_all"
  ELSE "mpi_distribute_image"

AllToAll == mop_algo = "mpi_distribute_all_to_all"

\* What the factories of the algorithms accept; the others throw.
Recognised ==
  \/ params.algorithm = "padmm" /\ params.dist # "mpi_random_updates"
  \/ params.algorithm = "fb" /\ params.dist \in {"serial", "mpi_serial"}
  \/ params.algorithm = "primaldual"

OnlyMpi(calls) == IF using_mpi THEN calls ELSE <<>>
RootWrites(r, files) == IF ~using_mpi \/ r = Root THEN files ELSE <<>>
FailsOn(fault) == IF params.fault = fault THEN <<"throw">> ELSE <<>>

\* The measurement operator: construction, application and adjoint.  With the all to
\* all operator the visibilities need the image_index that only w-stacking computes:
\* image_index.at throws inside an OpenMP loop.
Construct ==
  IF ~AllToAll THEN <<>>
  ELSE IF params.wstacking THEN <<"exchange_indices">> ELSE <<"throw">>
Direct == IF AllToAll THEN <<"recv_grid">> ELSE <<>>
Adjoint ==
  IF AllToAll THEN <<"send_grid", "all_sum_image">>
  ELSE IF mop_algo = "mpi_distribute_image" THEN <<"all_sum_image">> ELSE <<>>

(***************************************************************************)
(* The calls of the functions of main, in order                            *)
(***************************************************************************)


\* read_measurements: the root reads and scatters.  An unreadable file makes the root
\* abort the communicator; without MPI every rank reads for itself and throws.
ReadFiles(r) ==
  IF params.fault # "file" THEN OnlyMpi(<<"scatter">>)
  ELSE IF ~using_mpi THEN <<"throw">>
  ELSE IF r = Root THEN <<"abort">> ELSE <<"scatter">>

WStacking ==
  IF ~params.wstacking THEN <<>>
  ELSE IF AllToAll THEN <<"kmeans", "w_support", "all_to_all">>
  ELSE <<"kmeans", "all_to_all">>

InputCalls(r) ==
  FailsOn("eigenvector") \o
  (IF params.source = "measurements"
   THEN ReadFiles(r) \o OnlyMpi(<<"sum_weights", "sum_size">>) \o WStacking
   ELSE FailsOn("skymodel")
        \o (IF params.source = "simulation" THEN ReadFiles(r) ELSE <<>>)
        \o WStacking \o Construct \o Direct)
  \o OnlyMpi(<<"max_u", "max_v">>)

\* createMeasurementOperator: the operator and one round of the power method for its
\* norm, from the root's eigenvector.
OperatorCalls ==
  Construct \o OnlyMpi(<<"broadcast_eigenvector">>) \o Direct \o Adjoint
  \o (IF params.dist = "mpi_random_updates" THEN <<"sum_power_method">> ELSE <<>>)

\* Faulty variants: the dirty image is computed on the rank that writes it only; the
\* PSF is written by every rank.
OutputCallsRootOnly(r) ==
  RootWrites(r, FailsOn("output") \o <<"config", "eigenvector_real", "eigenvector_imag">>)
  \o OnlyMpi(<<"sum_size">>) \o Adjoint \o OnlyMpi(<<"sum_size">>)
  \o RootWrites(r, <<"psf">> \o Adjoint \o <<"dirty">>)
OutputCallsUnguarded(r) ==
  RootWrites(r, FailsOn("output") \o <<"config", "eigenvector_real", "eigenvector_imag">>)
  \o OnlyMpi(<<"sum_size">>) \o Adjoint \o OnlyMpi(<<"sum_size">>) \o <<"psf">>
  \o Adjoint \o RootWrites(r, <<"dirty">>)

\* initOutDirectoryWithConfig, saveMeasurementEigenVector, the beam units, savePSF and
\* saveDirtyImage: every rank takes part in the adjoints, the root writes.
OutputCalls(r) ==
  RootWrites(r, FailsOn("output") \o <<"config", "eigenvector_real", "eigenvector_imag">>)
  \o OnlyMpi(<<"sum_size">>)
  \o Adjoint \o OnlyMpi(<<"sum_size">>) \o RootWrites(r, <<"psf">>)
  \o Adjoint \o RootWrites(r, <<"dirty">>)

\* padmm_factory, fb_factory and primaldual_factory: the l2 radius epsilon and, but for
\* forward backward, the step size from the adjoint; then the preconditioner.
EpsilonCalls ==
  IF ~using_mpi \/ params.algorithm = "fb" THEN <<>>
  ELSE IF params.dist = "mpi_serial" THEN <<"sum_size", "sum_size">>
  ELSE <<"sum_size", "sum_root_size">>
       \o (IF params.dist = "mpi_random_updates" THEN <<"sum_sara", "sum_sara">> ELSE <<>>)
AlgorithmCalls ==
  IF ~Recognised THEN <<"throw">>
  ELSE EpsilonCalls
       \o (IF params.algorithm = "fb" THEN <<>>
           ELSE Adjoint \o OnlyMpi(<<"max_step_size">>))
       \o (IF params.algorithm = "primaldual" /\ params.precondition
           THEN OnlyMpi(<<"sum_density", "max_weight">>) ELSE <<>>)

\* The updater passed to is_converged: the new step size if the present one is
\* positive, the residual image, and the two images the root saves.
UpdaterCalls(r) ==
  (IF gamma[r] > 0 THEN OnlyMpi(<<"max_alpha">>) ELSE <<>>)
  \o Adjoint \o RootWrites(r, <<"sol_update", "res_update">>)

Local == params.dist \in {"mpi_distributed", "mpi_random_updates"}

\* The residual and the objective criterion of l2_convergence_factory and
\* l1_convergence_factory; forward backward has the objective only.
ConvergenceCalls ==
  IF ~using_mpi THEN <<"decide_alone">>
  ELSE (IF params.algorithm = "fb" THEN <<>>
        ELSE IF Local THEN <<"land_residual">> ELSE <<"l2_norm">>)
       \o <<"objective">>

\* One iteration of sopt: the operator, its adjoint and the random updates, then
\* is_converged, residual_convergence and objective_convergence, all three always.
IterationCalls(r) ==
  Direct \o Adjoint
  \o (IF params.dist = "mpi_random_updates"
      THEN <<"broadcast_measurements", "broadcast_wavelets">> ELSE <<>>)
  \o UpdaterCalls(r) \o ConvergenceCalls

FinalCalls(r) == Adjoint \o RootWrites(r, <<"purified", "residuals">>)

Files == {"config", "eigenvector_real", "eigenvector_imag", "psf", "dirty",
          "sol_update", "res_update", "purified", "residuals"}
Deciding == {"max_step_size", "max_alpha", "land_residual", "l2_norm", "objective"}
OwnCalls == Files \cup {"throw", "abort", "decide_alone"}

(***************************************************************************)
(* The functions of main                                                   *)
(***************************************************************************)

Init ==
  /\ params \in
       [dist : Dists, algorithm : Algorithms, source : Sources, fault : Faults,
        all_to_all : {wf[1] : wf \in Widefield}, wstacking : {wf[2] : wf \in Widefield},
        precondition : BOOLEAN]
  /\ <<params.all_to_all, params.wstacking>> \in Widefield
  /\ params.algorithm # "primaldual" => ~params.precondition
  /\ stage = [r \in Ranks |-> "configure"]
  /\ todo = [r \in Ranks |-> <<>>]
  /\ sigma \in [Ranks -> Sigmas]
  /\ params.source = "measurements" => \A r, q \in Ranks : sigma[r] = sigma[q]
  /\ gamma = [r \in Ranks |-> 0]
  /\ good = [r \in Ranks |-> FALSE]
  /\ iter = [r \in Ranks |-> 0]
  /\ written = [r \in Ranks |-> <<>>]

\* Rank r has made all calls of one function and enters the next.
Enter(r, from, to, calls) ==
  /\ stage[r] = from
  /\ todo[r] = <<>>
  /\ stage' = [stage EXCEPT ![r] = to]
  /\ todo' = [todo EXCEPT ![r] = calls]

\* main checks the version of the configuration file and selects the operators.
Configure(r) ==
  /\ Enter(r, "configure", "input", FailsOn("version"))
  /\ UNCHANGED <<params, sigma, gamma, good, iter, written>>

GetInputData(r) ==
  /\ Enter(r, "input", "operator", InputCalls(r))
  /\ UNCHANGED <<params, sigma, gamma, good, iter, written>>

CreateMeasurementOperator(r) ==
  /\ Enter(r, "operator", "outputs", OperatorCalls)
  /\ UNCHANGED <<params, sigma, gamma, good, iter, written>>

SaveOutputs(r) ==
  /\ Enter(r, "outputs", "algorithm", OutputCalls(r))
  /\ UNCHANGED <<params, sigma, gamma, good, iter, written>>

\* Forward backward takes its regulariser strength from the configuration.
CreateAlgorithm(r) ==
  /\ Enter(r, "algorithm", "estimate", AlgorithmCalls)
  /\ gamma' = [gamma EXCEPT ![r] = IF params.algorithm = "fb" THEN 1 ELSE @]
  /\ UNCHANGED <<params, sigma, good, iter, written>>

\* The residual of the initial estimate.
EstimateResidual(r) ==
  /\ Enter(r, "estimate", "iterate", Direct)
  /\ UNCHANGED <<params, sigma, gamma, good, iter, written>>

\* One more iteration of the algorithm, unless the last one converged.
Iterate(r) ==
  /\ ~good[r] /\ iter[r] < IterMax
  /\ Enter(r, "iterate", "iterate", IterationCalls(r))
  /\ iter' = [iter EXCEPT ![r] = @ + 1]
  /\ UNCHANGED <<params, sigma, gamma, good, written>>

\* The algorithm returns: the residual image is formed, the results are saved.
LeaveLoop(r) ==
  /\ good[r] \/ iter[r] = IterMax
  /\ Enter(r, "iterate", "finish", FinalCalls(r))
  /\ UNCHANGED <<params, sigma, gamma, good, iter, written>>

Return(r) ==
  /\ Enter(r, "finish", "returned", <<>>)
  /\ UNCHANGED <<params, sigma, gamma, good, iter, written>>

(***************************************************************************)
(* Working off the calls                                                   *)
(***************************************************************************)

Calls(r, call) == todo[r] # <<>> /\ Head(todo[r]) = call
Made(r) == todo' = [todo EXCEPT ![r] = Tail(@)]
AllMade == todo' = [r \in Ranks |-> Tail(todo[r])]
Together(call) == \A r \in Ranks : Calls(r, call)

WriteFile(r) ==
  /\ todo[r] # <<>> /\ Head(todo[r]) \in Files
  /\ written' = [written EXCEPT ![r] = Append(@, Head(todo[r]))]
  /\ Made(r)
  /\ UNCHANGED <<params, stage, sigma, gamma, good, iter>>

\* An exception nobody catches: the process of the rank ends.
Throw(r) ==
  /\ Calls(r, "throw")
  /\ stage' = [stage EXCEPT ![r] = "threw"]
  /\ todo' = [todo EXCEPT ![r] = <<>>]
  /\ UNCHANGED <<params, sigma, gamma, good, iter, written>>

\* comm.abort ends the processes of all ranks.
Abort(r) ==
  /\ Calls(r, "abort")
  /\ stage' = [q \in Ranks |-> IF stage[q] = "threw" THEN "threw" ELSE "aborted"]
  /\ todo' = [q \in Ranks |-> <<>>]
  /\ UNCHANGED <<params, sigma, gamma, good, iter, written>>

\* Without MPI a rank judges its own convergence.
DecideAlone(r) ==
  /\ Calls(r, "decide_alone")
  /\ \E b \in BOOLEAN : good' = [good EXCEPT ![r] = b]
  /\ Made(r)
  /\ UNCHANGED <<params, stage, sigma, gamma, iter, written>>

\* A collective call whose result no later call depends on.
Collective ==
  /\ todo[Root] # <<>> /\ Head(todo[Root]) \notin Deciding \cup OwnCalls
  /\ Together(Head(todo[Root]))
  /\ AllMade
  /\ UNCHANGED <<params, stage, sigma, gamma, good, iter, written>>

Largest(f) == IF \E r \in Ranks : f[r] > 0 THEN 1 ELSE 0
Updates == IF params.algorithm = "fb" THEN 0 ELSE UpdateIters

\* Faulty variant: every rank keeps the step size of its own coefficients.
MaxStepSizeOwn ==
  /\ Together("max_step_size")
  /\ gamma' \in [Ranks -> {0, 1}]
  /\ AllMade
  /\ UNCHANGED <<params, stage, sigma, good, iter, written>>

\* The largest step size of all ranks; a rank without wavelets contributes 0.  Only
\* its sign matters here: 0 or positive.
MaxStepSize ==
  /\ Together("max_step_size")
  /\ \E own \in [Ranks -> {0, 1}] : gamma' = [r \in Ranks |-> Largest(own)]
  /\ AllMade
  /\ UNCHANGED <<params, stage, sigma, good, iter, written>>

\* The updater's new step size replaces the old one in the first iterations only, and
\* only where the two, which all ranks share, are further apart than update_tolerance.
MaxAlpha ==
  /\ Together("max_alpha")
  /\ \E own \in [Ranks -> {0, 1}], apart \in BOOLEAN :
       gamma' = [r \in Ranks |->
         IF apart /\ iter[r] - 1 < Updates THEN Largest(own) ELSE gamma[r]]
  /\ AllMade
  /\ UNCHANGED <<params, stage, sigma, good, iter, written>>

\* Global criterion: every rank compares the norm of the whole residual with its own
\* tolerance, which is sigma times the same factor on all ranks.
ResidualGlobal ==
  /\ Together("l2_norm")
  /\ \E norm \in Norms : good' = [r \in Ranks |-> norm < sigma[r]]
  /\ AllMade
  /\ UNCHANGED <<params, stage, sigma, gamma, iter, written>>

\* Faulty variant: each rank trusts its own comparison.
ResidualLocalNoReduce ==
  /\ Together("land_residual")
  /\ \E norm \in [Ranks -> Norms] : good' = [r \in Ranks |-> norm[r] < sigma[r]]
  /\ AllMade
  /\ UNCHANGED <<params, stage, sigma, gamma, iter, written>>

\* Local criterion: every rank compares its own residual, all of them must agree.
ResidualLocal ==
  /\ Together("land_residual")
  /\ \E norm \in [Ranks -> Norms] :
       good' = [r \in Ranks |-> \A q \in Ranks : norm[q] < sigma[q]]
  /\ AllMade
  /\ UNCHANGED <<params, stage, sigma, gamma, iter, written>>

\* The relative variation of the objective: from the global norm or by logical and, the
\* same on every rank either way.
Objective ==
  /\ Together("objective")
  /\ \E b \in BOOLEAN :
       good' = [r \in Ranks |-> b /\ (params.algorithm = "fb" \/ good[r])]
  /\ AllMade
  /\ UNCHANGED <<params, stage, sigma, gamma, iter, written>>

Main(r) ==
  \/ Configure(r) \/ GetInputData(r) \/ CreateMeasurementOperator(r)
  \/ SaveOutputs(r) \/ CreateAlgorithm(r) \/ EstimateResidual(r)
  \/ Iterate(r) \/ LeaveLoop(r) \/ Return(r)
  \/ WriteFile(r) \/ Throw(r) \/ Abort(r) \/ DecideAlone(r)

Joint ==
  \/ Collective \/ MaxStepSize \/ MaxAlpha
  \/ ResidualGlobal \/ ResidualLocal \/ Objective

Next == Joint \/ \E r \in Ranks : Main(r)

Spec == Init /\ [][Next]_vars /\ WF_vars(Joint) /\ \A r \in Ranks : WF_vars(Main(r))

------------------------------------------------------------------------------

Stages == {"configure", "input", "operator", "outputs", "algorithm", "estimate",
           "iterate", "finish", "returned", "threw", "aborted"}

TypeOK ==
  /\ stage \in [Ranks -> Stages]
  /\ DOMAIN todo = Ranks /\ \A r \in Ranks : Len(todo[r]) <= 16
  /\ sigma \in [Ranks -> Sigmas]
  /\ gamma \in [Ranks -> {0, 1}]
  /\ good \in [Ranks -> BOOLEAN]
  /\ iter \in [Ranks -> 0 .. IterMax]
  /\ \A r \in Ranks : \A k \in DOMAIN written[r] : written[r][k] \in Files

Waits(r) == todo[r] # <<>> /\ Head(todo[r]) \notin OwnCalls

\* The ranks judge the residual alike: by a combined decision, by the objective alone
\* or with the same tolerance.  Only the global criterion in a simulation, where every
\* rank derives its tolerance from its own noise, is outside.
SameNoise == \A r, q \in Ranks : sigma[r] = sigma[q]
JudgeAlike == Local \/ params.algorithm = "fb" \/ SameNoise

\* No two ranks wait in different collective calls, and none waits for a rank that has
\* returned: whatever the configuration, the ranks agree on the calls although each
\* derives them by itself.
CallsMatch ==
  JudgeAlike =>
    \A r, q \in Ranks :
      /\ Waits(r) /\ Waits(q) => Head(todo[r]) = Head(todo[q])
      /\ Waits(r) => stage[q] # "returned"

\* No rank iterates on after another has left the loop, and those that have left did so
\* after the same iteration.
SameIteration ==
  \A r, q \in Ranks :
    stage[r] \in {"finish", "returned"} /\ stage[q] \in {"iterate", "finish", "returned"}
      => iter[q] = iter[r]

\* With the distributed algorithms the ranks leave the loop together, whether the
\* decision is combined or each compares the same norm with the same tolerance.
LeaveTogether == using_mpi /\ JudgeAlike => SameIteration

\* The ranks of a distributed algorithm share one criterion, also in a simulation.
LeaveTogetherAlways == using_mpi => SameIteration

\* With a distributed algorithm only the root writes files, and when the run is over it
\* has written each of the results once and the update images once per iteration.
Times(r, f) == Cardinality({k \in DOMAIN written[r] : written[r][k] = f})
OneWriter ==
  using_mpi =>
    \A r \in Ranks :
      /\ r # Root => written[r] = <<>>
      /\ r = Root /\ stage[r] = "returned" =>
           \A f \in Files :
             Times(r, f) = IF f \in {"sol_update", "res_update"} THEN iter[r] ELSE 1


\* A run with a usable configuration ends on every rank: no call waits for ever.
EveryRankReturns ==
  params.fault = "none" /\ Recognised /\ (AllToAll => params.wstacking) /\ JudgeAlike
    ~> \A r \in Ranks : stage[r] = "returned"
==============================================================================
