----------------------------- MODULE MCWebDAVJob -----------------------------
\* Values for TLC: a and b have the same basename in two directories and
\* different lengths, c has no getcontentlength.
EXTENDS WebDAVJob, TLC

CONSTANTS a, b, c

MCHrefs  == {a, b, c}
MCName   == (a :> "img") @@ (b :> "img") @@ (c :> "clip")
MCLength == (a :> 1) @@ (b :> 2) @@ (c :> 1)
MCSized  == {a, b}
=============================================================================
