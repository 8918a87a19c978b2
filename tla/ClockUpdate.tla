---------------------------- MODULE ClockUpdate ----------------------------
(***************************************************************************)
(* One clock class of the CTF notification iterator, sampled by the        *)
(* clock-mapped integer fields of a stream (timestamp_begin and            *)
(* timestamp_end of the packet context, the event header timestamp), each  *)
(* of its own width.  update_clock (notif-iter.c) creates the clock state *)
(* at 0 on first use and applies update_clock_state to every sample.       *)
(***************************************************************************)
EXTENDS Integers, ClockState

CONSTANT Widths   \* bit widths of the clock-mapped fields

ASSUME Widths \subseteq 1 .. ClockBits /\ ClockBits \in Widths

VARIABLES
    now,      \* the traced clock's true value
    state,    \* the iterator's clock state, -1 before the first update
    synced    \* a sample as wide as the register has been decoded

vars == <<now, state, synced>>

Init ==
    /\ now \in 0 .. 2^ClockBits - 1
    /\ state = -1
    /\ synced = FALSE

(* A field of width w is decoded (btr_unsigned_int_cb, or the deferred    *)
(* timestamp_end at the end of a packet): it carries the low w bits of    *)
(* the true clock, which moved on by fewer than 2^w ticks since the last  *)
(* sample (the sampling density CTF producers guarantee), and stays below *)
(* the register's range.                                                  *)
update_clock ==
    \E w \in Widths : \E d \in 0 .. 2^w - 1 :
        /\ now + d < 2^ClockBits
        /\ now' = now + d
        /\ state' = update_clock_state(IF state = -1 THEN 0 ELSE state,
                                       (now + d) % 2^w, w)
        /\ synced' = (synced \/ w = ClockBits)

Spec == Init /\ [][update_clock]_vars

(* Spec 4.4.3: once a full-width value has been seen, the clock state is *)
(* exactly the traced clock after every sample, however the narrow       *)
(* samples wrap (one wrap per sample at most).                            *)
ClockTracksTime == synced => state = now
====
