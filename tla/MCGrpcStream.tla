--------------------------- MODULE MCGrpcStream ---------------------------
EXTENDS GrpcStream
=============================================================================
