--------------------------- MODULE MCPcapWatcher ---------------------------
(* The chunk watcher for TLC: two watcher threads and two chunks, of which  *)
(* one is kept on disk, and one remembered in the file.                     *)
EXTENDS PcapWatcher
=============================================================================
