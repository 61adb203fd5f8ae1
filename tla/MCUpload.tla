------------------------------- MODULE MCUpload -------------------------------
\* One server and two photos: a connection that drops between the two.
EXTENDS Upload
=============================================================================
