----------------------------- MODULE ClockState -----------------------------
(***************************************************************************)
(* The clock update algebra of update_clock_state in                       *)
(* src/plugins/ctf/common/notif-iter/notif-iter.c, on a clock register of  *)
(* ClockBits bits (64 in the code: uint64_t arithmetic wraps modulo        *)
(* 2^ClockBits).                                                           *)
(***************************************************************************)
EXTENDS Integers

CONSTANT ClockBits

ASSUME ClockBits \in Nat \ {0}

(* Mutant: the new value replaces the low bits without detecting a wrap. *)
update_clock_state_no_wrap(cur, v, w) ==
    IF w = ClockBits THEN v
    ELSE cur - (cur % 2^w) + v

(* update_clock_state(state, value of a w-bit field).  A field as wide as *)
(* the register overwrites the state; a narrower one replaces the low w   *)
(* bits, adding 2^w first when the new low bits are below the current     *)
(* ones (a wrap, assumed to have happened once).                          *)
update_clock_state(cur, v, w) ==
    IF w = ClockBits THEN v
    ELSE LET mask == 2^w - 1
             wrapped == IF v < cur % 2^w
                        THEN (cur + mask + 1) % 2^ClockBits
                        ELSE cur
         IN wrapped - (wrapped % 2^w) + v
====
