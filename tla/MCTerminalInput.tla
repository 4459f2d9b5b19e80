---------------------------- MODULE MCTerminalInput ----------------------------
EXTENDS TerminalInput
=============================================================================
