----------------------------- MODULE MCMessages -----------------------------
(* Instances of Messages for TLC. *)
EXTENDS MessageValues

A == Element(<<97>>, FALSE)
B == Element(<<98>>, FALSE)
I(n) == Element(<<48 + n>>, TRUE)

\* With a Radix of 2, 16 is the first index that does not fit: match looks for
\* element 16, set and erase take element 0.  -15 is 241 to match, and 1 to them.
Cut   == Element(<<49, 54>>, TRUE)
Below == Element(<<Minus, 49, 53>>, TRUE)

MCPaths ==
  {<<A>>, <<A, B>>, <<A, I(0)>>, <<A, I(1), B>>, <<A, Cut>>, <<B, Below, I(0)>>}

\* {}, and {"a": [true, {"b": 1}], "b": 1.5, "c": [...]} with the other types.
MCHeaps ==
  {<<Struct(NoStruct)>>,
   <<Struct(A.name :> 2 @@ B.name :> 5 @@ <<99>> :> 7),
     Array(<<3, 4>>), Boolean(TRUE), Struct(B.name :> 6), Float(<<3, -1>>), Integer(1),
     Array(<<8, 9, 10, 11>>), Integer64(2), String(<<120>>), Base64(<<120>>), Binary(<<0>>)>>}

\* SetThenMatch and its like look for the paths themselves.
ASSUME MCMessagesAssumption == Readable
=============================================================================
