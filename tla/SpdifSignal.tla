------------------------------ MODULE SpdifSignal ------------------------------
(***************************************************************************)
(* The S/PDIF line: the blocks SpdifOutput puts on it, coded as SpdifEncode*)
(* describes.  Whether the stream in use is PCM decides both whether the   *)
(* mirror plays along and what the receiver must be told.                  *)
(***************************************************************************)
EXTENDS SpdifOutput, SpdifEncode

\* While the channel streams a block, the silent one included.  With both outputs built
\* in, the mirror is active for PCM streams and no others.
Carries(pcm, non_pcm) ==
  dma["spdif"] = "busy" => IF mirror_active THEN pcm ELSE ~BothOutputs \/ non_pcm

PcmSamplesArrive == \A stream \in PcmStreams : SamplesArrive(stream)
NonPcmSamplesArrive == \A stream \in NonPcmStreams : SamplesArrive(stream)
PcmFormatArrives == \A stream \in PcmStreams : FormatArrives(stream)
NonPcmFormatArrives == \A stream \in NonPcmStreams : FormatArrives(stream)
PcmSubframesAreFound == \A stream \in PcmStreams : SubframesAreFound(stream)
NonPcmSubframesAreFound == \A stream \in NonPcmStreams : SubframesAreFound(stream)

-------------------------------------------------------------------------------
(* Properties *)

\* A receiver on the line gets the samples of every depth back, left-justified in 24
\* bits, with V marking Non-PCM data, U clear and even parity: what the code assembles
\* by shifts, truncating masks and table look-ups is "IEC 60958 slots 4..27:
\* audio/data, then V, U=0, C, P" (spdif_encode.c:46).
ReceiverGetsSamples == Carries(PcmSamplesArrive, NonPcmSamplesArrive)

\* The C bits of a block, one per frame, tell the receiver what the stream is: consumer
\* use, PCM or not, copying permitted, rate and word length, on both channels alike.
\* A receiver mutes or decodes by it: "identifies IEC 61937 compressed data (never
\* interpret it as PCM)" (spdif_encode.c:34).
ReceiverKnowsFormat == Carries(PcmFormatArrives, NonPcmFormatArrives)

\* The receiver finds block, frames and channels by preambles that no data can imitate,
\* and every subframe leaves the line at the level it found, so that all preambles have
\* one polarity whatever was played.
ReceiverFindsSubframes == Carries(PcmSubframesAreFound, NonPcmSubframesAreFound)
===============================================================================
