---------------------------- MODULE MCHandshake ----------------------------
(* Values of Handshake's constants for TLC.                                *)
EXTENDS AcceptKey

Required == {"host", "key", "version", "connection", "upgrade"}
Usual(f) == IF f = "version" THEN 2 ELSE 24
Good ==
  [size |-> 2, get |-> TRUE, echo |-> TRUE, length |-> [f \in Required |-> Usual(f)],
   wrong |-> {}]

Without(f) == [Good EXCEPT !.length = [g \in Required \ {f} |-> Usual(g)]]
With(f, n) == [Good EXCEPT !.length = [g \in Required \cup {f} |-> IF g = f THEN n ELSE Usual(g)]]

\* A good request, one long enough to fill the buffer, and every single defect;
\* keys that end the SHA-1 message on either side of every boundary of a block.
OneDefect ==
  {Good, [Good EXCEPT !.size = 3], [Good EXCEPT !.get = FALSE],
   [Good EXCEPT !.echo = FALSE], [Good EXCEPT !.wrong = {"upgrade"}]}
    \cup {Without(f) : f \in Required}
    \cup {With(f, n) : f \in Fields \ {"version"}, n \in {0, 24, 256, 280}}
    \cup {With("key", n) : n \in {1, 19, 20, 27, 28, 83, 84, 92, 219}}
OneGood == {Good}
=============================================================================
