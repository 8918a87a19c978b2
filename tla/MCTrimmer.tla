---------------------------- MODULE MCTrimmer ----------------------------
(* Parameters and upstream message sequences for Trimmer. *)
EXTENDS Trimmer

Msg(type, cc, cs, ns) == [type |-> type, cc |-> cc, cs |-> cs, ns |-> ns, nsOk |-> TRUE]
IntP(v) == [Absent EXCEPT !.kind = "int", !.v = v]
Str(form, day, sod, sec, ns) ==
    [Absent EXCEPT !.kind = "str", !.form = form, !.day = day, !.sod = sod,
                   !.s = sec, !.ns = ns]
Other == [Absent EXCEPT !.kind = "other"]

\* One stream whose packet beginning carries a snapshot before its first event.
StreamWithPacket ==
    <<Msg("stream_begin", TRUE, "known", 0), Msg("packet_begin", TRUE, "known", 5),
      Msg("event", TRUE, "known", 8), Msg("packet_end", TRUE, "known", 9),
      Msg("stream_end", TRUE, "known", 0)>>

\* An event without a clock class, then one a second and a half before the origin.
BeforeOrigin == <<Msg("event", FALSE, "known", 0), Msg("event", TRUE, "known", -3)>>

\* An event just before the origin.
JustBeforeOrigin == <<Msg("event", TRUE, "known", -1)>>

UnknownSnapshot == <<Msg("event", TRUE, "unknown", 0), Msg("event", TRUE, "known", 1)>>
Inactivity == <<Msg("inactivity", FALSE, "known", 9), Msg("event", TRUE, "known", 1)>>
NoConversion == <<[Msg("event", TRUE, "known", 0) EXCEPT !.nsOk = FALSE]>>

PassParams ==
    {[gmt |-> TRUE, begin |-> Absent, end |-> Absent],
     [gmt |-> FALSE, begin |-> Str("time", 0, 1, 0, 1), end |-> Str("time", 0, 3, 0, 0)],
     [gmt |-> TRUE, begin |-> Str("s", 0, 0, 1, 0), end |-> Str("date", 1, 0, 0, 0)],
     [gmt |-> FALSE, begin |-> IntP(-1), end |-> Absent],
     [gmt |-> TRUE, begin |-> Str("invalid", 0, 0, 0, 0), end |-> Absent],
     [gmt |-> TRUE, begin |-> Other, end |-> Absent]}
PassUpstreams == {StreamWithPacket, BeforeOrigin, UnknownSnapshot, Inactivity, NoConversion}

\* Instances of the bounds check: all four cases together (TLC reports the
\* integer wrap, in an initial state), and each case on its own.
AbsentEnd == {[gmt |-> TRUE, begin |-> Str("s", 0, 0, 3, 0), end |-> Absent]}
TimesOfDay == {[gmt |-> TRUE, begin |-> Str("time", 0, 1, 0, 1), end |-> Str("time", 0, 3, 0, 0)]}
WrappingInteger == {[gmt |-> TRUE, begin |-> IntP(9), end |-> IntP(10)]}
PacketFirst == {StreamWithPacket}
BeforeOriginOnly == {JustBeforeOrigin}
BoundsParams == AbsentEnd \cup TimesOfDay \cup WrappingInteger
BoundsUpstreams == {StreamWithPacket, JustBeforeOrigin}
====
