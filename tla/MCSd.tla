-------------------------------- MODULE MCSd --------------------------------
EXTENDS SdProps
=============================================================================
