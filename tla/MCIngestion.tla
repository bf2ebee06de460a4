----------------------------- MODULE MCIngestion ------------------------------
(* A file of three lines, the last of them bad, in one chunk or in two,    *)
(* and one of four with a bad line before the good ones and one behind.    *)
EXTENDS IngestionPipeline

CONSTANTS red, blue

OneChunk  == <<[from |-> 1, to |-> 4]>>
TwoShort  == <<[from |-> 1, to |-> 3], [from |-> 3, to |-> 4]>>
ThreeLines == <<red, blue, Bad>>

OneLong   == <<[from |-> 1, to |-> 5]>>
BadAround == <<Bad, red, blue, Bad>>
===============================================================================
