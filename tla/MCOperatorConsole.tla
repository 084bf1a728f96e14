-------------------------- MODULE MCOperatorConsole --------------------------
EXTENDS OperatorConsole
==============================================================================
