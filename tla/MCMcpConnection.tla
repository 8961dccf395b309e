--------------------------- MODULE MCMcpConnection ---------------------------
(* A small instance of McpConnection for TLC.                              *)
EXTENDS McpConnection
=============================================================================
