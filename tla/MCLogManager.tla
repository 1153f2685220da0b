---------------------------- MODULE MCLogManager ----------------------------
EXTENDS LogManager

\* Misplaced bytes decode as a zero LSN or as some other LSN, with a length
\* that leads to the next 64 bytes or beyond the end of the file.
AnyBytes == [lsn : {0, 9}, len : {0, 1000}]
=============================================================================
