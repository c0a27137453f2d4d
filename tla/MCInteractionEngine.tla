-------------------------- MODULE MCInteractionEngine --------------------------
EXTENDS InteractionEngine
=============================================================================
