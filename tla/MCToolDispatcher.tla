--------------------------- MODULE MCToolDispatcher ---------------------------
EXTENDS ToolDispatcher
=============================================================================
