-------------------------- MODULE MCHttpConnection --------------------------
EXTENDS HttpConnection
=============================================================================
