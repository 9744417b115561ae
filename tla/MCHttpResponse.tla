--------------------------- MODULE MCHttpResponse ---------------------------
(* An instance of HttpResponse for TLC: two bodies in one piece, each with *)
(* a field whose name ends like one for the framing, the first followed by *)
(* something else, the second one that reads as a line end and a number;   *)
(* an empty body; a chunk that reads as a number; two chunks.              *)
EXTENDS HttpResponse, TLC

Server == << <<"Server">>, <<"name">> >>
StoredLength == << <<"x-", "Content-Length">>, <<"2">> >>
StoredEncoding == << <<"x-", "Transfer-Encoding">>, <<"chunked">> >>

deadbeef == <<"d", "e", "a", "d", "b", "e", "e", "f">>

InOnePiece(before, size, after, data, extra) ==
  [before |-> before, after |-> after, chunked |-> FALSE,
   data |-> <<data>>, sizes |-> <<size>>, extra |-> extra]

InChunks(sizes, data) ==
  [before |-> <<>>, after |-> <<>>, chunked |-> TRUE,
   data |-> data, sizes |-> sizes, extra |-> <<>>]

MCResponses ==
  { InOnePiece(<<>>, <<"3">>, <<StoredLength>>, <<"a", "b", "c">>, <<"H">>),
    InOnePiece(<<StoredEncoding>>, <<"1", "0">>, <<Server>>, <<CR, LF>> \o deadbeef, <<"H", "T">>),
    InOnePiece(<<Server>>, <<"0">>, <<>>, <<>>, <<"H", "T">>),
    InChunks(<< <<"8">> >>, <<deadbeef>>),
    InChunks(<< <<"3">>, <<"2">> >>, << <<"a", "b", "c">>, <<"x", "y">> >>) }
=============================================================================
