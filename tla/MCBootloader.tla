---------------------------- MODULE MCBootloader ----------------------------
(* Guests for TLC.                                                          *)
EXTENDS Bootloader

CONSTANTS k1, k2

\* Every guest that has not been fixed yet: with either tool or none, with or
\* without GRUB; one of its kernels may have been built with virtio.
FreshGuests == {g \in GuestType : /\ ~g.listed
                                  /\ g.virtio \in {{}, {k1}}
                                  /\ g.grub # "current"
                                  /\ ~g.backup}
=============================================================================
