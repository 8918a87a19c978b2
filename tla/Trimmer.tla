------------------------------ MODULE Trimmer ------------------------------
(* The message iterator of the utils.trimmer filter                        *)
(* (plugins/utils/trimmer/trimmer.c).  The component turns its "begin" and *)
(* "end" parameters into bounds: an absolute time in ns from the origin,   *)
(* or a time of day whose date comes later from the first upstream message *)
(* that carries a default clock snapshot.  The iterator's next method pulls *)
(* upstream messages until it finds that message, then seeks and trims.    *)
(*                                                                         *)
(* Time is scaled: NsPerS stands for NS_PER_S and SecPerDay for the 86400 *)
(* seconds of a day; local time is TzOffset seconds ahead of UTC (a zone   *)
(* without daylight saving time).  A calendar date is a day number from    *)
(* the origin, so bt_timegm and mktime are day * SecPerDay + second of day *)
(* (minus TzOffset for local time), and gmtime and localtime are the       *)
(* inverse.  A %u conversion keeps its value modulo UIntMod (2^32).         *)
EXTENDS Integers, Sequences

CONSTANTS
    NsPerS,        \* NS_PER_S
    SecPerDay,     \* seconds in a day
    TzOffset,      \* local time minus UTC, in seconds
    UIntMod,       \* 2^(bits of unsigned int), for sscanf's %u
    Params,        \* component parameter maps: [gmt, begin, end]
    Upstreams,     \* message sequences the upstream iterator can yield
    UpstreamBatch, \* most messages one upstream next returns
    MaxAgain       \* AGAIN answers the upstream may give

ASSUME /\ NsPerS \in Nat \ {0} /\ SecPerDay \in Nat \ {0}
       /\ TzOffset \in Int /\ UIntMod \in Nat \ {0}
       /\ UpstreamBatch \in Nat \ {0} /\ MaxAgain \in Nat

-----------------------------------------------------------------------------
(* Bounds and parameters *)

(* struct trimmer_bound: ns_from_origin, is_ns_from_origin_set, and the    *)
(* time of day (hour, minute, second as sod; ns as tns).                   *)
NoBound == [set |-> FALSE, ns |-> 0, sod |-> 0, tns |-> 0]

(* A parameter value: absent, an integer, a string in one of the formats   *)
(* set_bound_from_str recognises (its fields being the %u conversions), or *)
(* a value of another type.                                                 *)
Absent == [kind |-> "none", v |-> 0, form |-> "", day |-> 0, sod |-> 0, s |-> 0, ns |-> 0]

CDiv(a, b) == IF a >= 0 THEN a \div b ELSE -((-a) \div b)   \* C's / on int64
Abs(a) == IF a >= 0 THEN a ELSE -a

(* set_date_and_time: bt_timegm or mktime of the date and time; a negative *)
(* result is an error, otherwise the bound is set in ns from the origin.   *)
set_date_and_time(b, day, sod, ns, gmt) ==
    LET result == day * SecPerDay + sod - (IF gmt THEN 0 ELSE TzOffset)
    IN IF result < 0 THEN [ok |-> FALSE, b |-> b]
       ELSE [ok |-> TRUE, b |-> [b EXCEPT !.ns = result * NsPerS + ns, !.set = TRUE]]

(* set_bound_from_str: the first format that matches decides.  A date      *)
(* (with or without a time) is converted at once; a time of day only       *)
(* records the time; [-]s[.ns] sets ns from the origin.                    *)
set_bound_from_str(p, b, gmt) ==
    CASE p.form = "date" -> set_date_and_time(b, p.day, p.sod, p.ns, gmt)
      [] p.form = "time" -> [ok |-> TRUE, b |-> [b EXCEPT !.sod = p.sod, !.tns = p.ns]]
      [] p.form = "neg_s" -> [ok |-> TRUE, b |-> [b EXCEPT !.ns = -(p.s * NsPerS) - p.ns,
                                                         !.set = TRUE]]
      [] p.form = "s" -> [ok |-> TRUE, b |-> [b EXCEPT !.ns = p.s * NsPerS + p.ns,
                                                     !.set = TRUE]]
      [] OTHER -> [ok |-> FALSE, b |-> b]

(* An integer parameter is printed with PRId64 and parsed again: "-%u" or  *)
(* "%u" matches, and the digits go through an unsigned int.                 *)
IntegerAsString(v) ==
    [Absent EXCEPT !.kind = "str", !.form = IF v < 0 THEN "neg_s" ELSE "s",
                   !.s = Abs(v) % UIntMod]

(* set_bound_from_param: integers and strings; any other type is an error. *)
set_bound_from_param(p, b, gmt) ==
    CASE p.kind = "int" -> set_bound_from_str(IntegerAsString(p.v), b, gmt)
      [] p.kind = "str" -> set_bound_from_str(p, b, gmt)
      [] OTHER -> [ok |-> FALSE, b |-> b]

(* init_trimmer_comp_from_params: "gmt", then "begin", then "end"; a bad   *)
(* parameter fails; so does a begin after the end when both are set.       *)
init_trimmer_comp_from_params(params) ==
    LET gmt == params.gmt
        rb == IF params.begin.kind = "none" THEN [ok |-> TRUE, b |-> NoBound]
              ELSE set_bound_from_param(params.begin, NoBound, gmt)
        re == IF params.end.kind = "none" THEN [ok |-> TRUE, b |-> NoBound]
              ELSE set_bound_from_param(params.end, NoBound, gmt)
        ordered == ~(rb.b.set /\ re.b.set /\ rb.b.ns > re.b.ns)
    IN [ok |-> rb.ok /\ re.ok /\ ordered, begin |-> rb.b, end |-> re.b, gmt |-> gmt]

-----------------------------------------------------------------------------
(* Messages *)

(* An upstream message: its type, whether its stream class has a default *)
(* clock class (cc), the state of its default clock snapshot (cs), and    *)
(* its time in ns from the origin, or nsOk = FALSE when                   *)
(* bt_clock_snapshot_get_ns_from_origin fails.                             *)
ClassBorrowedTypes == {"packet_begin", "packet_end", "discarded_events",
                       "discarded_packets", "sa_begin", "sa_end"}

(* get_msg_ns_from_origin.  For an event the default clock class is        *)
(* looked up and a message without one is skipped; for the other types    *)
(* that have a stream class the class is borrowed but not stored, so       *)
(* clock_class stays NULL and the message is skipped.  An inactivity       *)
(* message has its own snapshot.  An unknown snapshot or a failed          *)
(* conversion is an error.                                                  *)
get_msg_ns_from_origin(m) ==
    LET snapshot ==
          CASE m.type = "event" -> IF m.cc THEN m.cs ELSE "skip"
            [] m.type \in ClassBorrowedTypes -> "skip"
            [] m.type = "inactivity" -> m.cs
            [] OTHER -> "skip"
    IN CASE snapshot = "skip" -> [r |-> "skip", ns |-> 0]
         [] snapshot # "known" -> [r |-> "error", ns |-> 0]
         [] ~m.nsOk -> [r |-> "error", ns |-> 0]
         [] OTHER -> [r |-> "ok", ns |-> m.ns]

(* set_trimmer_iterator_bound: the date of ns_from_origin (its seconds    *)
(* truncated towards zero, in UTC or local time) with the bound's time of *)
(* day.                                                                    *)
set_trimmer_iterator_bound(b, ns, gmt) ==
    LET time_s == CDiv(ns, NsPerS)
        day == (time_s + (IF gmt THEN 0 ELSE TzOffset)) \div SecPerDay
    IN set_date_and_time(b, day, b.sod, b.tns, gmt)

-----------------------------------------------------------------------------
(* The iterator *)

VARIABLES
    compParams,  \* the component's parameters
    state,       \* trimmer_it->state
    begin, end,  \* trimmer_it->begin, trimmer_it->end
    isGmt,       \* trimmer_comp->is_gmt
    upstream,    \* what the upstream iterator yields
    pos,         \* upstream messages returned so far
    againLeft,   \* AGAIN answers the upstream may still give
    refs,        \* upstream message -> references the trimmer holds
    pc,          \* "idle", or "bounds" inside set_trimmer_iterator_bounds
    last,        \* status of the last trimmer_msg_iter_next call
    refIdx       \* the message whose time dated the bounds (0: none yet)

vars == <<compParams, state, begin, end, isGmt, upstream, pos, againLeft, refs,
          pc, last, refIdx>>

(* trimmer_init with valid parameters, then trimmer_msg_iter_init: the   *)
(* state is INITIAL_SEEK when both bounds are absolute, and otherwise the *)
(* zeroed SET_BOUNDS_NS_FROM_ORIGIN.                                        *)
Init ==
    /\ compParams \in {p \in Params : init_trimmer_comp_from_params(p).ok}
    /\ LET c == init_trimmer_comp_from_params(compParams) IN
         /\ state = IF c.begin.set /\ c.end.set THEN "INITIAL_SEEK"
                    ELSE "SET_BOUNDS_NS_FROM_ORIGIN"
         /\ begin = c.begin /\ end = c.end /\ isGmt = c.gmt
    /\ upstream \in Upstreams /\ pos = 0 /\ againLeft = MaxAgain
    /\ refs = [k \in 1 .. Len(upstream) |-> 0]
    /\ pc = "idle" /\ last = "none" /\ refIdx = 0

Return(st) == pc' = "idle" /\ last' = st

(* trimmer_msg_iter_next, called again after OK or AGAIN.  Nothing        *)
(* assigns trimmer_it->state, so it keeps its initial value and the TRIM  *)
(* and ENDED cases are never taken.  From SET_BOUNDS_NS_FROM_ORIGIN the   *)
(* call runs set_trimmer_iterator_bounds (and then falls through); from   *)
(* INITIAL_SEEK, seek_initially and trim return OK without touching       *)
(* anything (trim does not set *count).                                    *)
trimmer_msg_iter_next ==
    /\ pc = "idle" /\ last \in {"none", "OK", "AGAIN"}
    /\ \/ state = "SET_BOUNDS_NS_FROM_ORIGIN" /\ pc' = "bounds" /\ UNCHANGED last
       \/ state = "INITIAL_SEEK" /\ Return("OK")
    /\ UNCHANGED <<compParams, state, begin, end, isGmt, upstream, pos,
                   againLeft, refs, refIdx>>

(* Mutant: the entries are put but not reset to NULL. *)
put_messages_no_reset(held, r) ==
    [arr |-> held, refs |-> [k \in DOMAIN r |-> IF k \in held THEN r[k] - 1 ELSE r[k]]]

(* put_messages: put the reference of each non-NULL entry and reset it.   *)
(* The array is given as the set of upstream positions it still holds.    *)
put_messages(held, r) ==
    [arr |-> {}, refs |-> [k \in DOMAIN r |-> IF k \in held THEN r[k] - 1 ELSE r[k]]]

(* Mutant: only an upstream error leaves the loop; END loops again. *)
upstream_not_ok_loops(st) ==
    IF st = "END" THEN UNCHANGED <<pc, last>> ELSE Return(st)

(* A status other than OK from the upstream ends the loop and is returned. *)
upstream_not_ok(st) ==
    Return(st)

FirstOf(S) == CHOOSE k \in S : \A j \in S : k <= j

(* One iteration of the while (true) loop of set_trimmer_iterator_bounds: *)
(* the upstream answers; a status other than OK is returned as is.  On OK *)
(* the trimmer holds a reference to each message of the batch, and the    *)
(* for loop looks for the first one that is not skipped.  An error puts  *)
(* the batch and fails; a found time puts the batch and sets each bound  *)
(* not set yet from it, in the order begin, end (a failure puts the batch *)
(* again and fails); no time at all puts the batch and loops.             *)
set_trimmer_iterator_bounds ==
    /\ pc = "bounds"
    /\ \/ /\ againLeft > 0 /\ againLeft' = againLeft - 1
          /\ upstream_not_ok("AGAIN")
          /\ UNCHANGED <<begin, end, pos, refs, refIdx>>
       \/ /\ pos = Len(upstream) /\ upstream_not_ok("END")
          /\ UNCHANGED <<begin, end, pos, againLeft, refs, refIdx>>
       \/ \E n \in 1 .. UpstreamBatch :
            LET batch == pos + 1 .. pos + n
                got == [k \in DOMAIN refs |-> IF k \in batch THEN refs[k] + 1 ELSE refs[k]]
                res == [k \in batch |-> get_msg_ns_from_origin(upstream[k])]
                stops == {k \in batch : res[k].r # "skip"}
                i == FirstOf(stops)
                put1 == put_messages(batch, got)
                rb == IF begin.set THEN [ok |-> TRUE, b |-> begin]
                      ELSE set_trimmer_iterator_bound(begin, res[i].ns, isGmt)
                re == IF ~rb.ok \/ end.set THEN [ok |-> TRUE, b |-> end]
                      ELSE set_trimmer_iterator_bound(end, res[i].ns, isGmt)
                found == rb.ok /\ re.ok
            IN /\ pos + n <= Len(upstream) /\ pos' = pos + n
               /\ CASE stops = {} ->
                         refs' = put1.refs /\ UNCHANGED <<pc, last, begin, end, refIdx>>
                    [] res[i].r = "error" ->
                         refs' = put1.refs /\ Return("ERROR")
                         /\ UNCHANGED <<begin, end, refIdx>>
                    [] OTHER ->
                         /\ refs' = IF found THEN put1.refs
                                    ELSE put_messages(put1.arr, put1.refs).refs
                         /\ begin' = rb.b /\ end' = re.b
                         /\ refIdx' = IF refIdx = 0 THEN i ELSE refIdx
                         /\ Return(IF found THEN "OK" ELSE "ERROR")
               /\ UNCHANGED againLeft
    /\ UNCHANGED <<compParams, state, isGmt, upstream>>

(* The caller stops after END or an error. *)
Stopped == pc = "idle" /\ last \in {"END", "ERROR"} /\ UNCHANGED vars

Next == trimmer_msg_iter_next \/ set_trimmer_iterator_bounds \/ Stopped

(* The graph calls the iterator again until END or an error, and a call  *)
(* runs until it returns.                                                 *)
Spec == Init /\ [][Next]_vars
        /\ WF_vars(trimmer_msg_iter_next) /\ WF_vars(set_trimmer_iterator_bounds)

-----------------------------------------------------------------------------
(* Properties *)

(* Every upstream message the trimmer receives is put exactly once: on   *)
(* the loop path, the error paths of get_msg_ns_from_origin and of the   *)
(* bounds (which puts the batch a second time), and the found path, no   *)
(* reference is left held and none is put twice.                          *)
MessagesReleased == \A k \in DOMAIN refs : refs[k] = 0

(* Every call of trimmer_msg_iter_next returns: the loop of              *)
(* set_trimmer_iterator_bounds ends on a time, an error or an upstream   *)
(* status other than OK.                                                  *)
CallReturns == pc = "bounds" ~> pc = "idle"

Timed(m) == /\ m.type \in {"event", "inactivity"} \cup ClassBorrowedTypes
            /\ m.type # "inactivity" => m.cc
            /\ m.cs = "known"

(* The bound a parameter stands for.  The first upstream message that    *)
(* carries a default clock snapshot dates the times of day, on its       *)
(* calendar day in the chosen time zone; an integer is that many seconds; *)
(* an absent bound leaves the range open on its side; the other strings   *)
(* mean what set_bound_from_str makes of them.                            *)
FirstTimed == FirstOf({k \in 1 .. Len(upstream) : Timed(upstream[k])})
Off == IF isGmt THEN 0 ELSE TzOffset
IntendedBound(p) ==
    CASE p.kind = "none" -> [open |-> TRUE, ns |-> 0]
      [] p.kind = "int" -> [open |-> FALSE, ns |-> p.v * NsPerS]
      [] p.form = "time" ->
           LET day == (upstream[FirstTimed].ns \div NsPerS + Off) \div SecPerDay
           IN [open |-> FALSE, ns |-> (day * SecPerDay + p.sod - Off) * NsPerS + p.ns]
      [] OTHER -> [open |-> FALSE, ns |-> set_bound_from_str(p, NoBound, isGmt).b.ns]

(* Every bound the trimmer has set is the bound its parameter stands for: *)
(* set_bound_from_param for integers, get_msg_ns_from_origin for the     *)
(* message that dates the bounds, set_trimmer_iterator_bound for its day, *)
(* and nothing for an absent bound.                                      *)
BoundsAsIntended ==
    /\ begin.set => ~IntendedBound(compParams.begin).open
                    /\ begin.ns = IntendedBound(compParams.begin).ns
    /\ end.set => ~IntendedBound(compParams.end).open
                  /\ end.ns = IntendedBound(compParams.end).ns
====
