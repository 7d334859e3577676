\* Every source's completions; and the DSP booted with two mails, playing two
\* buffers on the line the audio DMA shares.
SPECIFICATION FairSpec
CONSTANTS
  Loads <- MCLoads
  Quiet = 2
INVARIANTS IntInv FramesPaced
PROPERTIES CompletionsHandled FramesCatchUp
