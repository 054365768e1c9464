--------------------------- MODULE MCWinIocpReuse ---------------------------
(* The instances of MCWinIocp, with the history of WinIocpReuse.            *)
EXTENDS MCWinIocp, WinIocpReuse
=============================================================================
