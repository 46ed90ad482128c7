---------------------------- MODULE MCCppTracker ----------------------------
(* Small instances of CppTracker; the cfg files give the bounds.           *)
EXTENDS CppTracker

\* Two connections may send as much as the bounds allow; with a third, which
\* is what makes descriptors come back within a batch, one line is sent.
MCBound == nconn = MaxConn => nsend <= 1
=============================================================================
