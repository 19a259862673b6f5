--------------------------- MODULE MeasurementSets ---------------------------
(***************************************************************************)
(* CASA measurement sets (casacore.cc, casacore.h).  A set has a main      *)
(* table of rows, each observed in all channels, and sub-tables; the code  *)
(* asks casacore for one column at a time, restricted by TaQL to the rows  *)
(* in which the channel is not flagged.                                    *)
(*                                                                         *)
(* File: opens, windows (number of channels of every spectral window),     *)
(* frequency[channel], rows.  Row: u, v, w, source (pointing of its field),*)
(* flagged (set of channels), data[pol][channel], sigma[pol].  A pointing  *)
(* is a number, 0 the origin of the sky.  The model's visibility is twice  *)
(* the code's, and weight and sigma are exponents of 2.                    *)
(***************************************************************************)
EXTENDS Visibilities

\* The channels of the first spectral window; a table without rows has none.
size(ms) == IF ms.rows = <<>> THEN 0 ELSE ms.windows[1]
Rectangular(ms) == ms.rows = <<>> \/ Cardinality(Range(ms.windows)) = 1

\* External: Eigen's LinSpaced of integers, n of them from 0 to n.
LinSpaced(n) == IF n = 1 THEN <<1>> ELSE [i \in 1 .. n |-> (i - 1) * (n \div (n - 1))]

AllChannels(ms) == IF size(ms) = 1 THEN <<0>> ELSE LinSpaced(size(ms))

\* ChannelWrapper::filter: WHERE NOT any(FLAG[channel,])
FilteredRows(ms, channel) == Kept(ms.rows, {r \in Range(ms.rows) : channel \notin r.flagged})

\* TaQL refuses an index past the array of flags.
TaqlError(ms, channels) ==
  ms.rows # <<>> /\ \E i \in DOMAIN channels : channels[i] >= size(ms)

\* MeasurementSet::direction with the filter of a channel: the origin when the
\* channel has no row.
Sources(ms, channel) == {r.source : r \in Range(FilteredRows(ms, channel))}
SeveralSources(ms, channel) == Cardinality(Sources(ms, channel)) > 1
direction(ms, channel) ==
  IF Sources(ms, channel) = {} THEN 0 ELSE CHOOSE s \in Sources(ms, channel) : TRUE

\* The switch over the polarisation: the Stokes parameters are halved; LR is
\* given the sigma of RL.  (P, Q + iU, is not modelled.)
Halved == {"I", "Q", "U", "V"}
SigmaOf(row, pol) == row.sigma[IF pol = "LR" THEN "RL" ELSE pol]

\* lambda_u, lambda_v, lambda_w: metres in units of the wavelength of the channel.
lambda(ms, channel, raw) == raw * ms.frequency[channel]

ChannelRow(ms, pol, channel, row) ==
  LET scale == IF pol \in Halved THEN 1 ELSE 2
      vis == row.data[pol][channel]
  IN [u |-> lambda(ms, channel, row.u), v |-> -lambda(ms, channel, row.v),
      w |-> lambda(ms, channel, row.w),
      vis |-> [re |-> scale * vis.re, im |-> scale * vis.im],
      weights |-> IF pol \in Halved THEN -(SigmaOf(row, pol) + 1) ELSE -SigmaOf(row, pol)]

ChannelRows(ms, pol, channel) ==
  LET rows == FilteredRows(ms, channel)
  IN [i \in DOMAIN rows |-> ChannelRow(ms, pol, channel, rows[i])]

\* Every channel that has rows must point where the first one of the list does.
OtherPointing(ms, channels) ==
  \E i \in DOMAIN channels :
    /\ FilteredRows(ms, channels[i]) # <<>>
    /\ direction(ms, channels[i]) # direction(ms, channels[1])

\* What stops the read, in the order of the code: casacore's own errors are no
\* runtime_error; the first channel of an empty list is looked up all the same.
ReadChecks(ms, channels) ==
  << <<ms.opens, "uncaught">>,
     <<Rectangular(ms), "threw">>,
     <<~TaqlError(ms, channels), "uncaught">>,
     <<channels # <<>>, "crashed">>,
     <<\A i \in DOMAIN channels : ~SeveralSources(ms, channels[i]), "threw">>,
     <<~OtherPointing(ms, channels), "threw">> >>

read_measurementset(ms, pol, channels_input) ==
  LET channels == IF channels_input = <<>> THEN AllChannels(ms) ELSE channels_input
      checks == ReadChecks(ms, channels)
  IN IF Unmet(checks) # {} THEN {FirstFailure(checks)}
     ELSE {Vis(FlattenSeq([i \in DOMAIN channels |-> ChannelRows(ms, pol, channels[i])]),
               direction(ms, channels[1]), "lambda")}

read_next_measurementset(ms, uv1, pol) ==
  JoinedResults(JoinPointed, uv1, read_measurementset(ms, pol, <<>>))

\* A main table and the frequencies of the channels of the first window.
WellFormedMs(ms) ==
  /\ ms.rows \in Seq(Range(ms.rows))
  /\ ms.windows[1] \in Nat /\ DOMAIN ms.frequency = 0 .. ms.windows[1] - 1
=============================================================================
