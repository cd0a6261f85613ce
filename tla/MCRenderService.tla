--------------------------- MODULE MCRenderService ---------------------------
\* RenderService for TLC: one job and two previews; the quoted form of the
\* source that does not compile does.
EXTENDS RenderService

CONSTANTS job, preview, other, good, bad, unsafe

MCFallback == [k \in Keys |-> IF k = bad THEN good ELSE k]
=============================================================================
