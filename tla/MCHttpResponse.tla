----------------------------- MODULE MCHttpResponse -----------------------------
(* Small instances of HttpResponse for TLC.                                *)
EXTENDS HttpResponse

\* Every route, on both sides of its limits.
MCRequests ==
  [route : {"method", "unknown"}, arg : {0}]
    \cup [route : {"index"}, arg : {-1, 0, 2, 3}]
    \cup [route : {"image"}, arg : {0, 5, 6, 12}]
    \cup [route : {"static"}, arg : {"logo", "dir", "else"}]

MCFiles ==
  {[logo |-> 2, dir |-> Directory, else |-> Absent],
   [logo |-> Absent, dir |-> Directory, else |-> 1]}

\* The configured build, and the one that reads what that one maps and sends.
MCBuilds ==
  {[USING_MMAP_INSTEAD_READ |-> b, USING_SENDFILE |-> b] : b \in BOOLEAN}
================================================================================
