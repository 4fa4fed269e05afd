----------------------------- MODULE MCConsole ------------------------------
(***************************************************************************)
(* Instance of Console for TLC: a screen of two rows of three characters,  *)
(* words of 9 bits, and texts that end in the middle and at the end of a   *)
(* row.  The numbers are the least int, powers of the base, 0 and an       *)
(* unsigned -1.  The handler prints the number of its interrupt.           *)
(***************************************************************************)
EXTENDS Console

Text(i) == [fmt |-> "char", arg |-> i]
Conv(f, i) == [fmt |-> f, arg |-> i]
MCItems == {Text(NL), Conv("d", -256), Conv("d", 0), Conv("x", 16), Conv("c", -1),
            Conv("o", 64), Conv("s", <<"A", "B", BS, NL>>)}
MCIrqItems == <<Conv("d", 33), Text(NL)>>
=============================================================================
