------------------------ MODULE MCFixtureConversion ------------------------
(* FixtureConversion for TLC: the recordings it starts from.                *)
EXTENDS FixtureConversion

MCRenames == [n \in {"event_log.dat"} |-> "eventlog.dat"]

AMember(n, d) == [name |-> n, data |-> d]
Meta == AMember("meta.dat", "a")
Native == <<Meta, AMember("cp0.mem", "a")>>
OldNamed == <<Meta, AMember("event_log.dat", "a")>>
BothNames(d) == <<Meta, AMember("event_log.dat", "a"), AMember("eventlog.dat", d)>>
EventsOnly == <<Meta, AMember("events.dat", "a")>>
Split(kinds) == <<Meta, AMember("steps.dat", "a"), AMember("events.dat", kinds)>>

Of(v, s, list, interned, tables, ms) ==
    [version |-> v, schema |-> s, list |-> list, interned |-> interned,
     tables |-> tables, members |-> ms]

AFile(z, c) == [whole |-> TRUE, compressed |-> z, container |-> c]

\* A container of version 4, and one of version 5 with a meta.dat of version 3 and
\* of version 6.
V4(list, ms) == AFile(FALSE, Of(4, 3, list, <<>>, {}, ms))
V5(z, list, ms) == AFile(z, Of(5, 3, list, <<>>, {}, ms))
V6(z, tables, ms) == AFile(z, Of(5, 6, <<>>, <<"p">>, tables, ms))

\* Native recordings that convert all the way, without and with paths and under
\* an old name; with a path twice; with both an old name and its new one, of the
\* same bytes and of others; with events but no steps; with no room for the
\* tables; compressed; of version 6 with some of the tables or with new events.
MCOriginals ==
    {V4(<<>>, Native), V4(<<"p", "q">>, OldNamed), V4(<<"p", "q", "p">>, Native),
     V4(<<>>, BothNames("a")), V4(<<>>, BothNames("b")),
     V5(FALSE, <<>>, BothNames("a")), V5(FALSE, <<>>, EventsOnly),
     V5(FALSE, <<"p">>, Split("a")),
     V5(FALSE, <<"p">>, Native \o OldNamed), V5(TRUE, <<"p">>, OldNamed),
     V6(FALSE, Tables, Split("a")), V6(FALSE, Tables, Split("new kinds")),
     V6(FALSE, {"paths.dat"}, Native), V6(TRUE, Tables, Native)}
=============================================================================
