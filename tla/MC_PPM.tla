------------------------------- MODULE MC_PPM -------------------------------
EXTENDS PPMScheduler
=============================================================================
