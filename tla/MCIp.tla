-------------------------------- MODULE MCIp --------------------------------
EXTENDS Ip
\* The machine's own address, and one of another network.
TwoDests == {<<192, 168, 0, 2>>, <<10, 0, 0, 1>>}
=============================================================================
