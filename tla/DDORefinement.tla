---------------------------- MODULE DDORefinement ---------------------------
(***************************************************************************)
(* The diamond implements AllocationLifecycle: an agreement is what an     *)
(* allocation and its rail say together, in the storage everybody sees     *)
(* between transactions.                                                   *)
(***************************************************************************)
EXTENDS DDOProperties

\* The agreement of allocation a in the storage st, pays.
Agreement(st, pays, a) ==
    LET info == st.allocationInfos[a]
        p == pays[st.paymentsContract]
        rail == p.rails[info.railId]
    IN  IF info.client = ZERO
        THEN [client |-> ZERO, provider |-> 0, token |-> ZERO, price |-> 0,
              activated |-> FALSE, sector |-> 0, open |-> FALSE, settledTo |-> 0,
              end |-> 0, paid |-> 0]
        ELSE [client |-> info.client, provider |-> info.provider,
              token |-> info.paymentToken, price |-> pricePerEpoch(info),
              activated |-> info.activated, sector |-> info.sectorNumber,
              open |-> rail.from # ZERO, settledTo |-> rail.settledUpTo,
              end |-> rail.endEpoch, paid |-> p.paid[info.railId]]

Agreements(st, pays) == [a \in AllocationIds |-> Agreement(st, pays, a)]

Lifecycle == INSTANCE AllocationLifecycle WITH
    Ids <- AllocationIds, Notice <- EPOCHS_PER_MONTH, Nobody <- ZERO,
    agreements <- Agreements(committed.s, committed.pay),
    blacklisted <- committed.s.blacklistedSectors, now <- epoch

\* Allocations live as AllocationLifecycle says, whatever calls fail half-way:
\* each is made once, with its batch; activated once, by its provider, and not
\* after the client has ended it; ended with a month's notice; paid for each
\* epoch up to its end once, and for none of a blacklisted sector; and over
\* when it is settled to its end, for good.
LifecycleSpec == Lifecycle!Spec
=============================================================================
