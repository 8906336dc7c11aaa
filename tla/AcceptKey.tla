----------------------------- MODULE AcceptKey -----------------------------
(***************************************************************************)
(* The key of the answer 101: wsGetHandshakeAnswer appends the protocol's  *)
(* secret to the client's key and answers with the Base64 form of the      *)
(* SHA-1 digest.  Handshake sends the answer; a browser that computes      *)
(* another key closes the connection.                                      *)
(***************************************************************************)
EXTENDS Handshake, BlockHash, Base64

\* "258EAFA5-E914-47DA-95CA-C5AB0DC85B11"
Secret ==
  <<50, 53, 56, 69, 65, 70, 65, 53, 45, 69, 57, 49, 52, 45, 52, 55, 68, 65,
    45, 57, 53, 67, 65, 45, 67, 53, 65, 66, 48, 68, 67, 56, 53, 66, 49, 49>>

ResponseKey(clientKey) == Base64enc(Sha1(clientKey \o Secret))
-----------------------------------------------------------------------------
\* A key of each length; that of 24 characters is the one of RFC 6455, 1.3,
\* which gives the key that has to answer it: "s3pPLMBiTxaQ9kYGzzhZRbK+xOo=".
Sample ==
  <<100, 71, 104, 108, 73, 72, 78, 104, 98, 88, 66, 115, 90, 83, 66, 117, 98, 50,
    53, 106, 90, 81, 61, 61>>
Accepted ==
  <<115, 51, 112, 80, 76, 77, 66, 105, 84, 120, 97, 81, 57, 107, 89, 71, 122, 122,
    104, 90, 82, 98, 75, 43, 120, 79, 111, 61>>
ClientKey(length) == IF length = 24 THEN Sample ELSE [i \in 1..length |-> Sample[1 + (i % 24)]]

\* The digest is the standard's and its text decodes to it, wherever the message
\* ends in the last block and however many bytes Base64 is left with.
AcceptKeyRight ==
  pc = "answer" /\ key # 0 =>
    LET msg    == ClientKey(key) \o Secret
        digest == Sha1(msg)
    IN  /\ digest = Digest(msg)
        /\ \A n \in 18..20 : Decoded(Base64enc(SubSeq(digest, 1, n))) = SubSeq(digest, 1, n)

\* The protocol's example is answered with the key that it says.
ExampleAnswered == pc = "answer" /\ key = 24 => ResponseKey(Sample) = Accepted
=============================================================================
