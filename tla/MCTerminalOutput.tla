---------------------------- MODULE MCTerminalOutput ----------------------------
EXTENDS TerminalOutput
=============================================================================
