------------------------- MODULE MCCancellationRequest -------------------------
EXTENDS CancellationRequest
=============================================================================
