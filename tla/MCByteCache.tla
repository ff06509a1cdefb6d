---------------------------- MODULE MCByteCache -----------------------------
(* Constants for TLC: a byte string is its length; the longest exceeds the budget. *)
EXTENDS ByteCache

MCRaw == 1 .. 5

MCHash == {"h1", "h2", "h3"}

\* Any bytes under any hash: _fetch caches what the store returned, unchecked.
MCAnyPuts == MCHash \X MCRaw

MCSize == [raw \in MCRaw |-> raw]

=============================================================================
