----------------------------- MODULE FileParams -----------------------------
(* The parameters of module File. *)
EXTENDS Naturals

CONSTANTS
  Opens,     \* futures of open(), create() and mkdir(), and the Files they give
  Socks,     \* byte streams over sockets
  Rws,       \* futures of read() and write()
  Fds,       \* descriptor numbers
  Lens,      \* buffer lengths
  LenMod,    \* 2^32: what a length passed to the kernel is cut to
  MaxSize    \* bound: size of the file, and bytes a stream carries

\* No descriptor number or bound is special; "none" is the value that stands for
\* the absence of a file.
ASSUME FileAssumption ==
  /\ Opens \cap Socks = {} /\ Opens \cap Rws = {}
  /\ "none" \notin Opens \cup Socks
  /\ Fds \subseteq Nat /\ Lens \subseteq Nat
  /\ LenMod \in Nat \ {0} /\ MaxSize \in Nat

=============================================================================
