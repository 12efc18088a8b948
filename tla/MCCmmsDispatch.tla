--------------------------- MODULE MCCmmsDispatch ---------------------------
\* Two pool workers race each other and the fallback worker; the threshold of 2
\* can be reached by one worker or by both, a retry limit of 2 by one entry.
EXTENDS CmmsDispatch
=============================================================================
