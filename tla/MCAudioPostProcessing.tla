----------------------- MODULE MCAudioPostProcessing -----------------------
EXTENDS AudioPostProcessing

Fade(f, s, c) == [fade |-> f, silence |-> s, cancelled |-> c]
MCChains ==
  {<<>>, <<Fade(0, 1, 0)>>, <<Fade(3, 2, 1)>>,
   <<Fade(2, 1, 0), Fade(3, 1, 1)>>, <<Fade(1, 0, 0), Fade(2, 0, 1)>>}
MCChunks == {<<>>, <<5>>, <<-3, 4>>, <<7, -7, 1>>}

=============================================================================
