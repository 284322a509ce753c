-------------------------------- MODULE Null ---------------------------------
CONSTANT NULL   \* the null pointer: no task, no link, no record
==============================================================================
