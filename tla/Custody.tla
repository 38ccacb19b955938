------------------------------ MODULE Custody ------------------------------
(***************************************************************************)
(* What coordination promises the operator of an external resource: at most *)
(* one holder at a time, writes only by the holder, and no new holder while *)
(* a write of the old one is unsettled, unless a reviewer overrides.  The   *)
(* one exception is a holder that comes to be cut off from a write it has   *)
(* announced: that write may go out whoever holds the resource by then.     *)
(* How the service finds out (evidence, source proof, tokens, deadlines) is *)
(* OperationCoordination's business.                                        *)
(***************************************************************************)

CONSTANTS
    Tokens,     \* one per attempt to hold a resource
    Resources,  \* what is held
    Nobody      \* not a token

VARIABLES
    holder,     \* who holds each resource
    unsettled,  \* tokens with a write whose fate is open
    overridden, \* tokens a reviewer has taken the resource from
    stray       \* tokens cut off from a write they announced

custodyVars == <<holder, unsettled, overridden, stray>>

CustodyInit ==
    /\ holder = [r \in Resources |-> Nobody]
    /\ unsettled = {}
    /\ overridden = {}
    /\ stray = {}

Acquire(r, t) ==
    /\ holder[r] = Nobody
    /\ t \notin unsettled \cup overridden \cup stray
    /\ holder' = [holder EXCEPT ![r] = t]
    /\ UNCHANGED <<unsettled, overridden, stray>>

Write(r, t) ==
    /\ holder[r] = t
    /\ unsettled' = unsettled \cup {t}
    /\ UNCHANGED <<holder, overridden, stray>>

\* Only a holder is cut off, once and for all: a token is held once.
CutOff(r) ==
    /\ holder[r] \notin {Nobody} \cup unsettled
    /\ stray' = stray \cup {holder[r]}
    /\ UNCHANGED <<holder, unsettled, overridden>>

StrayWrite(t) ==
    /\ t \in stray
    /\ unsettled' = unsettled \cup {t}
    /\ UNCHANGED <<holder, overridden, stray>>

Settled(t) ==
    /\ unsettled' = unsettled \ {t}
    /\ UNCHANGED <<holder, overridden, stray>>

Release(r) ==
    /\ holder[r] \notin unsettled \ stray
    /\ holder' = [holder EXCEPT ![r] = Nobody]
    /\ UNCHANGED <<unsettled, overridden, stray>>

Override(r) ==
    /\ holder[r] # Nobody
    /\ overridden' = overridden \cup {holder[r]}
    /\ holder' = [holder EXCEPT ![r] = Nobody]
    /\ UNCHANGED <<unsettled, stray>>

CustodyNext ==
    \/ \E r \in Resources, t \in Tokens : Acquire(r, t) \/ Write(r, t)
    \/ \E t \in Tokens : Settled(t) \/ StrayWrite(t)
    \/ \E r \in Resources : Release(r) \/ Override(r) \/ CutOff(r)

CustodySpec == CustodyInit /\ [][CustodyNext]_custodyVars
=============================================================================
