----------------------------- MODULE MCHttpPull -----------------------------
(* An instance of HttpPull with two pull requests at a time: a current one *)
(* and one that is ending, or that the client has given up.                *)
EXTENDS HttpPull

CONSTANTS h1, h2
=============================================================================
