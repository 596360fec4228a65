----------------------------- MODULE OneTimeCode -----------------------------
(***************************************************************************)
(* What the enrollment registry promises: a code is handed out once, to    *)
(* one holder, and buys that holder one grant, or is voided without one    *)
(* when the redemption fails after the use is taken, and is dead from then *)
(* on.  How the registry decides that a redemption is legitimate is left   *)
(* to Enrollment.                                                          *)
(***************************************************************************)
CONSTANTS
    Codes, Holders, Nobody,
    Tickets   \* what tells one grant from another

VARIABLES status, holder, granted
codeVars == <<status, holder, granted>>

CodeInit ==
    /\ status  = [c \in Codes |-> "fresh"]
    /\ holder  = [c \in Codes |-> Nobody]
    /\ granted = {}

HandOut(c, h) ==
    /\ status[c] = "fresh"
    /\ status' = [status EXCEPT ![c] = "issued"]
    /\ holder' = [holder EXCEPT ![c] = h]
    /\ UNCHANGED granted

Grant(c, ticket) ==
    /\ status[c] = "issued"
    /\ status'  = [status EXCEPT ![c] = "redeemed"]
    /\ granted' = granted \cup {<<c, holder[c], ticket>>}
    /\ UNCHANGED holder

Void(c) ==
    /\ status[c] = "issued"
    /\ status' = [status EXCEPT ![c] = "void"]
    /\ UNCHANGED <<holder, granted>>

CodeNext ==
    \E c \in Codes : \/ \E h \in Holders : HandOut(c, h)
                     \/ Void(c)
                     \/ \E ticket \in Tickets : Grant(c, ticket)

CodeSpec == CodeInit /\ [][CodeNext]_codeVars
=============================================================================
