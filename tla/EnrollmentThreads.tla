-------------------------- MODULE EnrollmentThreads --------------------------
(***************************************************************************)
(* The registry with redeem() called by several threads.                   *)
(*                                                                         *)
(* redeem() takes no lock: it reads the clock, looks the binding up,       *)
(* checks what it found, writes the binding back and only then builds the  *)
(* credential.  Between these the other threads run.  The checks and the   *)
(* lookup are one step: they use only the call's own arguments and the     *)
(* frozen binding that was looked up.  issue() writes once, to a slot      *)
(* nobody else knows of, and stays one step.                               *)
(***************************************************************************)
EXTENDS Enrollment

CONSTANTS
    Threads,   \* who calls redeem
    NoCall     \* a thread that is not in redeem

(***************************************************************************)
(* The locals of a call.  "seen" is history: the codes that calls which    *)
(* had already returned when this one began have redeemed.                 *)
(***************************************************************************)
CallStates ==
    [pc : {"entered", "checked", "spent"}, code : Codes, claim : Claims,
     ref : Refs, ttl : SessionTTLs, current : Times,
     binding : Bindings \cup {NoBinding}, seen : SUBSET Codes]

ASSUME NoCallAssumption == NoCall \notin CallStates

VARIABLE calls   \* the locals of each thread's call of redeem

threadVars == <<vars, calls>>

At(t, pc) == calls[t] # NoCall /\ calls[t].pc = pc

ThreadsInit ==
    /\ Init
    /\ calls = [t \in Threads |-> NoCall]

\* redeem() is called and reads the clock.
Enter(t, code, claim, ref, ttl) ==
    /\ calls[t] = NoCall
    /\ calls' = [calls EXCEPT ![t] =
          [pc |-> "entered", code |-> code, claim |-> claim, ref |-> ref,
           ttl |-> ttl, current |-> clock, binding |-> NoBinding,
           seen |-> Redeemed]]
    /\ UNCHANGED vars

\* The lookup, and every check passes.
LookUp(t) ==
    /\ At(t, "entered")
    /\ LET c == calls[t]
       IN  /\ Accepts(BindingFor(c.code), c.claim, c.ref, c.current)
           /\ calls' = [calls EXCEPT ![t].pc = "checked",
                                     ![t].binding = BindingFor(c.code)]
    /\ UNCHANGED vars

\* The lookup, and some check raises EnrollmentError.
Refuse(t) ==
    /\ At(t, "entered")
    /\ LET c == calls[t]
       IN ~Accepts(BindingFor(c.code), c.claim, c.ref, c.current)
    /\ calls' = [calls EXCEPT ![t] = NoCall]
    /\ UNCHANGED vars

\* The binding that was looked up goes back with one use less.
Spend(t) ==
    /\ At(t, "checked")
    /\ LET b == calls[t].binding
       IN  bindings' = [bindings EXCEPT ![b.code_hash] = Spent(b)]
    /\ calls' = [calls EXCEPT ![t].pc = "spent"]
    /\ UNCHANGED <<clock, made, redemptions, lost>>

\* Mutant of CredentialOf: the credential is dated when it is built.
CredentialOfNow(c, sid) == NewCredential(sid, c.binding, c.ttl, clock)

\* What the call returns: dated when it was entered.
CredentialOf(c, sid) == NewCredential(sid, c.binding, c.ttl, c.current)

\* redeem() returns the credential.
Return(t, sid) ==
    /\ At(t, "spent")
    /\ LET c == calls[t]
       IN  /\ c.current + c.ttl \in Datetimes
           /\ \A r \in redemptions : r.credential.session_id # sid
           /\ redemptions' = redemptions \cup
                 {[code |-> c.code, claim |-> c.claim,
                   credential |-> CredentialOf(c, sid)]}
    /\ calls' = [calls EXCEPT ![t] = NoCall]
    /\ UNCHANGED <<clock, made, bindings, lost>>

\* Mutant of Overflow: the use is given back.
OverflowRefunds(t) ==
    /\ At(t, "spent")
    /\ calls[t].current + calls[t].ttl \notin Datetimes
    /\ calls' = [calls EXCEPT ![t] = NoCall]
    /\ lost' = lost \cup {calls[t].code}
    /\ bindings' = [bindings EXCEPT ![HashCode(calls[t].code)] = calls[t].binding]
    /\ UNCHANGED <<clock, made, redemptions>>

(***************************************************************************)
(* current + timedelta(seconds=ttl) raises OverflowError: the call ends    *)
(* with the use taken.                                                     *)
(***************************************************************************)
Overflow(t) ==
    /\ At(t, "spent")
    /\ calls[t].current + calls[t].ttl \notin Datetimes
    /\ calls' = [calls EXCEPT ![t] = NoCall]
    /\ lost' = lost \cup {calls[t].code}
    /\ UNCHANGED <<clock, made, bindings, redemptions>>

(***************************************************************************)
(* The steps of Enrollment other than redeem.                              *)
(***************************************************************************)
Office ==
    /\ \/ SetClock
       \/ \E key \in Identities, nonce \in Nonces : MakeClaim(key, nonce)
       \/ \E code \in Codes, request \in IssueRequests, claim \in PresentedClaims :
             Issue(code, claim, request)
    /\ UNCHANGED calls

ThreadStep(t) ==
    \/ \E code \in Codes, claim \in PresentedClaims, ref \in Refs,
          ttl \in SessionTTLs : Enter(t, code, claim, ref, ttl)
    \/ LookUp(t) \/ Refuse(t) \/ Spend(t) \/ Overflow(t)
    \/ \E sid \in SessionIds : Return(t, sid)

ThreadsNext == Office \/ \E t \in Threads : ThreadStep(t)

ThreadsSpec == ThreadsInit /\ [][ThreadsNext]_threadVars
-----------------------------------------------------------------------------
\* The registry, the calls and the history have their types.
ThreadsTypeOK ==
    /\ TypeOK
    /\ calls \in [Threads -> CallStates \cup {NoCall}]

(***************************************************************************)
(* Two credentials for one code need two calls that overlap: a call that   *)
(* begins after another has returned a credential for its code never gets  *)
(* past the checks (enrollment.py:147-151, 167).                           *)
(***************************************************************************)
NoGrantAfterReturn ==
    \A t \in Threads : At(t, "checked") \/ At(t, "spent") =>
       calls[t].code \notin calls[t].seen

(***************************************************************************)
(* Every use that was taken is accounted for, and only those: the code of  *)
(* a spent binding bought a credential, or is about to, or was lost to a   *)
(* session lifetime that overflows; and no such code comes back, whatever  *)
(* stale binding another thread writes (enrollment.py:146-178).            *)
(***************************************************************************)
UsesAccounted ==
    \A code \in Codes :
       (BindingFor(code) # NoBinding /\ IsSpent(BindingFor(code))) <=>
          \/ code \in Redeemed \cup lost
          \/ \E t \in Threads : At(t, "spent") /\ calls[t].code = code

\* No two calls for one code are between the lookup and the write at a time,
\* as under a lock around them.
ChecksApart ==
    \A t, u \in Threads :
       At(t, "checked") /\ At(u, "checked") /\ calls[t].code = calls[u].code => t = u

(***************************************************************************)
(* A code buys at most one credential (enrollment.py:140-142: "so the code *)
(* can never be redeemed twice").  Threads in the window together break    *)
(* this; nothing else does.                                                *)
(***************************************************************************)
AtMostOneGrant == \A r1, r2 \in redemptions : r1.code = r2.code => r1 = r2
=============================================================================
