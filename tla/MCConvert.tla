----------------------------- MODULE MCConvert -----------------------------
\* Pictures of up to three squares of four pixels each way, and bytes at and
\* around the ends of the ranges.
EXTENDS Convert

MCSizes == [width : {2, 4, 6}, height : {2, 4, 6}]
=============================================================================
