------------------------------- MODULE MCObjects -------------------------------
(* Octets of four values, lists of up to three elements and a buffer of five octets:
   every size has its boundaries, and five octets are the size of no number. *)
EXTENDS Objects

\* The numbers next to a boundary of a size
MCNumbers ==
  {0, 1, -1, Span(8) - 1} \cup UNION {{Top(n), Top(n) + 1, -Top(n) - 1} : n \in Sizes}
\* Nothing, texts that fill the last group of base64 or not, and one that is too long
MCTextLengths == {0, 1, 2, 3, 4, Room + 1}
=============================================================================
