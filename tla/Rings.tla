-------------------------------- MODULE Rings --------------------------------
(***************************************************************************)
(* The two rings of crates/ring-buffer, and what their unsafe accesses     *)
(* rest on.                                                                *)
(***************************************************************************)
EXTENDS SpscRing, SpmcRing

\* No slot is written while a consumer may still read it, and the SPSC ring
\* moves each item out of its slot exactly once: the SAFETY comments of
\* try_push and try_pop in spsc.rs and spmc.rs.
RingsSafe == TypeOK /\ NoSlotRace /\ SlotsOwned /\ NoSlotOverwritten
=============================================================================
