---------------------------- MODULE MCFsClient ----------------------------
(* Two processes that read files, and the file server.                     *)
EXTENDS FsClient

MCProcs == Clients \cup Servers
MCMsgs  == Clients \X (1 .. MaxRequests)
MCPorts == {PORT_FILES, PORT_KERNEL}
=============================================================================
