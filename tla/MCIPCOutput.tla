---------------------------- MODULE MCIPCOutput ----------------------------
(* Small instances of IPCOutput: an application, a context it may fork, and   *)
(* the event context.                                                        *)
EXTENDS IPCOutput

CONSTANTS m, f, e
=============================================================================
