------------------------------ MODULE MC_EventTask ------------------------------
EXTENDS EventTaskProperties
===============================================================================
