------------------------ MODULE AllocationLifecycle -------------------------
(***************************************************************************)
(* What the diamond promises about allocations, seen from outside: each is *)
(* an agreement between a client and a provider that is made, takes effect *)
(* once its sector is sealed, may be ended by the client with notice, and  *)
(* is paid for the epochs in between.  There are no lists, rails, accounts *)
(* or running calls here, and a transaction happens as a whole.            *)
(***************************************************************************)
EXTENDS Integers

CONSTANTS
    Ids,        \* numbers of agreements
    Notice,     \* epochs that are still paid when the client ends an agreement
    Nobody      \* the client of an agreement that is not made

VARIABLES
    agreements,     \* by number
    blacklisted,    \* pairs of a provider and a sector that are not paid for
    now

lifecycle == <<agreements, blacklisted, now>>

\* end is 0 until the client ends the agreement; when it is over (open is
\* FALSE) only what was paid is left.
None == [client |-> Nobody, provider |-> 0, token |-> Nobody, price |-> 0,
         activated |-> FALSE, sector |-> 0, open |-> FALSE, settledTo |-> 0,
         end |-> 0, paid |-> 0]

Changed == {a \in Ids : agreements'[a] # agreements[a]}

----------------------------------------------------------------------------
(* What becomes of one agreement.                                          *)

Made(old, new) ==
    /\ old = None
    /\ new.client # Nobody
    /\ ~new.activated /\ new.open
    /\ new.end = 0 /\ new.paid = 0 /\ new.settledTo = now

\* Only a pending agreement that has not been ended takes effect; its payments
\* begin now.
Activated(old, new) ==
    /\ old.open /\ ~old.activated /\ old.end = 0
    /\ new = [old EXCEPT !.activated = TRUE, !.sector = new.sector,
                         !.settledTo = IF old.price = 0 THEN @ ELSE now]

Ended(old, new) ==
    /\ old.open /\ old.end = 0
    /\ new = [old EXCEPT !.end = now + IF old.activated THEN Notice ELSE 0]

Earning(agreement) ==
    /\ agreement.activated
    /\ <<agreement.provider, agreement.sector>> \notin blacklisted

Due(agreement, to) ==
    IF Earning(agreement) THEN agreement.price * (to - agreement.settledTo) ELSE 0

\* Epochs are settled once, none before it has passed and none after the end;
\* what has been settled to its end is over.
Settled(old, new) ==
    /\ old.open
    /\ \E to \in old.settledTo .. now :
          LET paid == old.paid + Due(old, to)
          IN  IF old.end # 0 /\ to = old.end
              THEN new = [old EXCEPT !.open = FALSE, !.settledTo = 0, !.end = 0,
                                     !.paid = paid]
              ELSE /\ old.end # 0 => to < old.end
                   /\ new = [old EXCEPT !.settledTo = to, !.paid = paid]

----------------------------------------------------------------------------
Transaction == UNCHANGED <<blacklisted, now>>

\* A client makes a batch of agreements.
Make ==
    /\ \A a \in Changed : Made(agreements[a], agreements'[a])
    /\ \A a, b \in Changed : agreements'[a].client = agreements'[b].client
    /\ Transaction

\* A provider has sealed sectors.
Activate ==
    /\ \A a \in Changed : Activated(agreements[a], agreements'[a])
    /\ \A a, b \in Changed : agreements[a].provider = agreements[b].provider
    /\ Transaction

End ==
    /\ \A a \in Changed : Ended(agreements[a], agreements'[a])
    /\ \A a, b \in Changed : a = b
    /\ Transaction

Settle ==
    /\ \A a \in Changed : Settled(agreements[a], agreements'[a])
    /\ Transaction

Blacklist == UNCHANGED <<agreements, now>>

Pass == now' = now + 1 /\ UNCHANGED <<agreements, blacklisted>>

Init == agreements = [a \in Ids |-> None] /\ blacklisted = {} /\ now = 0

Next == Make \/ Activate \/ End \/ Settle \/ Blacklist \/ Pass

Spec == Init /\ [][Next]_lifecycle
=============================================================================
