---------------------------- MODULE MCSealOutbox ----------------------------
(* Small instances of SealOutbox. *)
EXTENDS SealOutbox, TLC

CONSTANTS w1, p1, p2

OneWizard == {w1}
TwoPushers == {p1, p2}
OnePusher == {p1}

(* A wizard and a command line need not have the same environment. *)
AnyConfiguration == SUBSET Backends
AllConfigured == {Backends}

SymmetricPushers == Permutations(TwoPushers)

=============================================================================
