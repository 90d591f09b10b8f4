-------------------------- MODULE MCRequestParser --------------------------
(* Requests for RequestParser: up to two header lines of each kind, bodies *)
(* with a length and in chunks, upgrades.                                  *)
EXTENDS RequestParser

Line(name, value, flags, length) ==
    [name |-> name, raw |-> <<SP>> \o value \o <<CR, LF>>, value |-> value,
     flags |-> flags, length |-> length]

Named(name, value) == Line(name, value, {}, -1)

Plain ==
    { Named(<<"a">>, <<"x">>),
      Named(<<"a">>, <<"y", "x">>),
      Named(<<"c", "o", "n">>, Close),               \* begins like a known name
      Named(<<"c", "o", "n", "t", "s">>, <<"x">>),   \* longer than a known name
      [Named(<<"a">>, <<>>) EXCEPT !.raw = <<CR, LF>>],
      [Named(<<"a">>, <<"x">>) EXCEPT !.raw = <<"x", LF>>],
      [Named(<<"a">>, <<"x", SP, "y">>) EXCEPT !.raw = <<"x", CR, LF, SP, "y", CR, LF>>] }

Framing ==
    { Line(ContentLength, <<"0">>, {"content_length"}, 0),
      Line(ContentLength, <<"2">>, {"content_length"}, 2),
      Line(ContentLength, <<"1", "2">>, {"content_length"}, 12),
      Line(ContentLength, <<"2", "1">>, {"content_length"}, -2),
      Line(ContentLength, <<"2", "5">>, {"content_length"}, -2),
      Line(ContentLength, <<"x">>, {"content_length"}, -2),
      Line(TransferEncoding, Chunked, {"chunked"}, -1),
      Line(TransferEncoding, <<"c", "h", "x">>, {}, -1) }

Options ==
    { Line(Connection, Close, {"close"}, -1),
      Line(Connection, <<"x", ",", SP>> \o Close \o <<SP>>, {"close"}, -1),
      Line(Connection, Close \o <<"x">>, {}, -1),
      Line(Connection, KeepAlive \o <<",">> \o Upgrade, {"keep_alive", "connection_upgrade"}, -1),
      Line(Upgrade, <<"w">>, {"upgrade"}, -1) }

Chunk(digits, size) == [digits |-> digits, size |-> size]

(* Nothing; two chunks, one with leading zero and parameter; with trailer. *)
ChunkChoices ==
    { << <<>>, <<>> >>,
      << <<Chunk(<<"1">>, 1), Chunk(<<"0", "2", ";", "x">>, 2)>>, <<>> >>,
      << <<Chunk(<<"2">>, 2)>>, <<Named(<<"a">>, <<"y">>)>> >> }

LineLists ==
    {<<>>} \union {<<l>> : l \in Plain \union Framing \union Options}
           \union {<<l, k>> : l \in Plain \union Framing, k \in Plain \union Framing \union Options}
           \union {<<l, k>> : l \in Options, k \in Options}

Request(version, lines, c, rest) ==
    [version |-> version, url |-> <<"/", "a">>, lines |-> lines,
     chunks |-> c[1], trailer |-> c[2], rest |-> rest]

MCRequests ==
    { r \in { Request(v, l, c, rest) :
                v \in {"1.0", "1.1"}, l \in LineLists, c \in ChunkChoices, rest \in {<<>>, <<"w", CR>>} } :
        /\ "chunked" \notin Flags(r) => r.chunks = <<>>
        /\ "upgrade" \in Flags(r) <=> r.rest # <<>>
        /\ "upgrade" \in Flags(r) => "connection_upgrade" \in Flags(r)
        /\ r.version = "1.0" => Len(r.lines) < 2 }

MCFollowUps == {r \in MCRequests : Len(r.lines) < 2}
=============================================================================
