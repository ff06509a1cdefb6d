------------------------ MODULE MCByteCacheThreads --------------------------
(* Two threads and two hashes, of which the cache holds only one at a time.  *)
EXTENDS ByteCacheThreads

MCHash == {"h1", "h2"}

MCSize == [h \in MCHash |-> 1]

=============================================================================
