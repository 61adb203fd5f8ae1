--------------------------- MODULE MCWebDAVTransfer ---------------------------
\* Values for TLC: three versions, the second as long as the first and the
\* third shorter.
EXTENDS WebDAVTransfer

MCSize == <<3, 3, 2>>
=============================================================================
