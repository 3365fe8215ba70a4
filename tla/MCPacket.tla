------------------------------ MODULE MCPacket ------------------------------
EXTENDS PacketProps
=============================================================================
