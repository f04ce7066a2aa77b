---------------------------- MODULE MCHttpConnection ----------------------------
(* Small instances of HttpConnection for TLC.                              *)
EXTENDS HttpConnection

\* A request that keeps the connection, one that does not, one without a path,
\* an empty line, and two parts of a request, one with a lone LF.
MCTexts ==
  {<<"GET", "/", CR, LF, "Connection:", "keep-alive", CR, LF, CR, LF>>,
   <<"POST", "/", CR, LF, CR, LF>>,
   <<"GET", CR, LF, CR, LF>>,
   <<CR, LF>>,
   <<"GET", "/", LF>>,
   <<"Connection:", "keep-alive", CR, LF, CR, LF>>}
================================================================================
