------------------------------- MODULE MCPlugin -------------------------------
EXTENDS PluginRuntime
CONSTANTS a, b
TwoDefs == {{a, b}, {b}}
=============================================================================
