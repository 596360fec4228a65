----------------------- MODULE EnrollmentThreadsProofs -----------------------
(***************************************************************************)
(* Proofs about EnrollmentThreads, for any number of threads and any       *)
(* registry.  The lemmas of EnrollmentProofs that speak of claims and      *)
(* bindings alone are used again; its invariant does not hold here, since  *)
(* a code may be granted twice.                                            *)
(***************************************************************************)
EXTENDS EnrollmentThreads, EnrollmentProofs

(***************************************************************************)
(* The inductive invariant.  A binding has one use or none.  The binding a *)
(* call holds on to may be stale in one way only: the use it still shows   *)
(* may have been taken by another call.  A call that has written it back   *)
(* has left it spent.  And what was spent when a call began stays spent.   *)
(***************************************************************************)
OneUseOrNone ==
    \A code \in Codes :
       BindingFor(code) # NoBinding => BindingFor(code).remaining_uses \in {0, 1}

SeenSpent(c) ==
    \A code \in c.seen : /\ BindingFor(code) # NoBinding
                         /\ BindingFor(code).remaining_uses = 0

Holds(c) ==
    /\ c.binding \in Bindings
    /\ c.binding.code_hash = HashCode(c.code)
    /\ c.binding.remaining_uses = 1
    /\ c.current < c.binding.expires_at
    /\ c.code \notin c.seen
    /\ \/ c.pc = "checked" /\ BindingFor(c.code) = c.binding
       \/ BindingFor(c.code) = Spent(c.binding)

CallInv(c) ==
    c # NoCall => SeenSpent(c) /\ (c.pc # "entered" => Holds(c))

GrantedIsSpent ==
    \A r \in redemptions :
       BindingFor(r.code) # NoBinding /\ IsSpent(BindingFor(r.code))

ThreadsIInv ==
    /\ ThreadsTypeOK
    /\ OneUseOrNone
    /\ GrantedIsSpent
    /\ SessionAuthorized
    /\ \A t \in Threads : CallInv(calls[t])

(***************************************************************************)
(* What any step does to a stored binding: nothing, or it takes its use.   *)
(***************************************************************************)
OnlySpends ==
    \A code \in Codes :
       BindingFor(code) # NoBinding =>
          \/ BindingFor(code)' = BindingFor(code)
          \/ /\ BindingFor(code).remaining_uses = 1
             /\ BindingFor(code)' = Spent(BindingFor(code))

-----------------------------------------------------------------------------
\* A presented claim is a claim.
LEMMA PresentedTyped ==
    ASSUME TypeOK, NEW claim \in PresentedClaims
    PROVE  claim \in Claims
<1>1. claim.signature \in Signatures
  BY ForeignAssumption DEF PresentedClaims, TypeOK, Claims
<1> QED
  BY <1>1 DEF PresentedClaims, Claims

\* The binding of a code, if there is one, is one and names the code's hash.
LEMMA BindingTyped ==
    ASSUME TypeOK, NEW code \in Codes, BindingFor(code) # NoBinding
    PROVE  /\ BindingFor(code) \in Bindings
           /\ BindingFor(code).code_hash = HashCode(code)
BY DEF TypeOK, BindingFor, Hashes

(***************************************************************************)
(* A call that takes no step keeps its invariant while others spend codes: *)
(* spending a spent binding again changes nothing.                         *)
(***************************************************************************)
LEMMA CallInvStable ==
    ASSUME TypeOK, OnlySpends, NEW c \in CallStates \cup {NoCall}, CallInv(c)
    PROVE  CallInv(c)'
<1> SUFFICES ASSUME c # NoCall
             PROVE  SeenSpent(c)' /\ (c.pc # "entered" => Holds(c)')
  BY DEF CallInv
<1>1. c.seen \subseteq Codes /\ c.code \in Codes
  BY DEF CallStates
<1>2. SeenSpent(c)'
  BY <1>1 DEF CallInv, SeenSpent, OnlySpends
<1>3. ASSUME c.pc # "entered"
      PROVE  Holds(c)'
  <2>1. Holds(c)
    BY <1>3 DEF CallInv
  <2>2. /\ Spent(c.binding).remaining_uses = 0
        /\ Spent(c.binding) \in Bindings
    BY <2>1, SpentFacts DEF Holds
  <2>3. BindingFor(c.code) # NoBinding
    BY <2>1, <2>2, NoBindingAssumption DEF Holds
  <2>4. \/ BindingFor(c.code)' = BindingFor(c.code)
        \/ /\ BindingFor(c.code).remaining_uses = 1
           /\ BindingFor(c.code)' = Spent(BindingFor(c.code))
    BY <1>1, <2>3 DEF OnlySpends
  <2> QED
    BY <2>1, <2>2, <2>4 DEF Holds
<1> QED
  BY <1>2, <1>3

(***************************************************************************)
(* Returned credentials stay authorized, and their codes spent.            *)
(***************************************************************************)
LEMMA GrantsStable ==
    ASSUME ThreadsIInv, OnlySpends, NEW r \in redemptions
    PROVE  /\ BindingFor(r.code)' = BindingFor(r.code)
           /\ BindingFor(r.code) # NoBinding
           /\ IsSpent(BindingFor(r.code))
           /\ GrantsWhatWasIssued(BindingFor(r.code), r.credential)
<1>1. r.code \in Codes
  BY DEF ThreadsIInv, ThreadsTypeOK, TypeOK, Redemptions
<1>2. /\ BindingFor(r.code) # NoBinding
      /\ IsSpent(BindingFor(r.code))
      /\ GrantsWhatWasIssued(BindingFor(r.code), r.credential)
  BY DEF ThreadsIInv, GrantedIsSpent, SessionAuthorized
<1>3. BindingFor(r.code).remaining_uses # 1
  BY <1>2 DEF IsSpent
<1> QED
  BY <1>1, <1>2, <1>3 DEF OnlySpends

(***************************************************************************)
(* A step that grants nothing and leaves every call as it is, or changes   *)
(* one call to another that has its invariant, preserves the rest.         *)
(***************************************************************************)
LEMMA StepIInv ==
    ASSUME ThreadsIInv, OnlySpends, TypeOK', OneUseOrNone',
           redemptions' = redemptions,
           calls' \in [Threads -> CallStates \cup {NoCall}],
           \A t \in Threads : calls'[t] = calls[t] \/ CallInv(calls[t])'
    PROVE  ThreadsIInv'
<1>1. \A r \in redemptions : /\ BindingFor(r.code)' # NoBinding
                             /\ BindingFor(r.code)' = BindingFor(r.code)
                             /\ IsSpent(BindingFor(r.code))
                             /\ GrantsWhatWasIssued(BindingFor(r.code), r.credential)
  BY GrantsStable
<1>2. GrantedIsSpent'
  BY <1>1 DEF GrantedIsSpent, IsSpent
<1>3. SessionAuthorized'
  BY <1>1 DEF SessionAuthorized, GrantsWhatWasIssued
<1>4. ASSUME NEW t \in Threads
      PROVE  CallInv(calls[t])'
  <2>1. PICK c \in CallStates \cup {NoCall} : c = calls[t]
    BY DEF ThreadsIInv, ThreadsTypeOK
  <2>2. CallInv(c)'
    BY <2>1, CallInvStable DEF ThreadsIInv, ThreadsTypeOK
  <2>3. calls'[t] = calls[t] => CallInv(calls[t])'
    BY <2>1, <2>2 DEF CallInv, SeenSpent, Holds, BindingFor
  <2> QED
    BY <2>3
<1>5. ThreadsTypeOK'
  BY DEF ThreadsTypeOK
<1> QED
  BY <1>2, <1>3, <1>4, <1>5 DEF ThreadsIInv

-----------------------------------------------------------------------------
\* No thread is in a call at first.
LEMMA ThreadsInitIInv == ThreadsInit => ThreadsIInv
<1>1. Init => TypeOK
  BY InitIInv DEF IInv
<1> QED
  BY <1>1 DEF ThreadsInit, Init, ThreadsIInv, ThreadsTypeOK, OneUseOrNone,
              GrantedIsSpent, SessionAuthorized, CallInv, BindingFor, Hashes

\* A step that leaves the registry and the grants alone.
LEMMA QuietStep ==
    ASSUME ThreadsIInv, clock' \in Times, made' \subseteq Claims,
           lost' \subseteq Codes, UNCHANGED <<bindings, redemptions>>
    PROVE  TypeOK' /\ OneUseOrNone' /\ OnlySpends
BY DEF ThreadsIInv, ThreadsTypeOK, TypeOK, OneUseOrNone, OnlySpends, BindingFor

\* issue() stores an unspent binding where there was none.
LEMMA OfficeIInv ==
    ASSUME ThreadsIInv, Office
    PROVE  ThreadsIInv' /\ OnlySpends
<1>1. TypeOK /\ calls' = calls
  BY DEF ThreadsIInv, ThreadsTypeOK, Office
<1>2. CASE SetClock
  <2>1. clock' \in Times /\ UNCHANGED <<made, bindings, redemptions, lost>>
    BY <1>2 DEF SetClock
  <2> QED
    BY <1>1, <2>1, QuietStep, StepIInv DEF ThreadsIInv, ThreadsTypeOK, TypeOK
<1>3. CASE \E key \in Identities, nonce \in Nonces : MakeClaim(key, nonce)
  <2>1. PICK key \in Identities, nonce \in Nonces : MakeClaim(key, nonce)
    BY <1>3
  <2>2. clock \in Times /\ made \subseteq Claims
    BY <1>1 DEF TypeOK
  <2>3. ClaimOf(key, nonce, clock) \in Claims
    BY <2>2, MadeClaimVerifies
  <2>4. /\ clock' \in Times /\ made' \subseteq Claims
        /\ UNCHANGED <<bindings, redemptions, lost>>
    BY <2>1, <2>2, <2>3 DEF MakeClaim
  <2> QED
    BY <1>1, <2>4, QuietStep, StepIInv DEF ThreadsIInv, ThreadsTypeOK, TypeOK
<1>4. CASE \E code \in Codes, request \in IssueRequests,
              claim \in PresentedClaims : Issue(code, claim, request)
  <2>1. PICK code \in Codes, request \in IssueRequests,
             claim \in PresentedClaims : Issue(code, claim, request)
    BY <1>4
  <2> DEFINE b == NewBinding(code, claim, request)
             h == HashCode(code)
  <2>2. /\ bindings[h] = NoBinding
        /\ bindings' = [bindings EXCEPT ![h] = b]
        /\ UNCHANGED <<clock, made, redemptions, lost>>
    BY <2>1 DEF Issue, BindingFor
  <2>3. b \in Bindings /\ h \in Hashes
    BY <1>1, <2>1, NewBindingTyped DEF Hashes
  <2>4. b.code_hash = h /\ b.remaining_uses = 1
    BY DEF NewBinding
  <2> HIDE DEF b
  <2>5. TypeOK'
    BY <1>1, <2>2, <2>3, <2>4 DEF TypeOK
  <2>6. /\ bindings'[h] = b
        /\ \A c \in Codes : c # code => bindings'[HashCode(c)] = bindings[HashCode(c)]
    BY <1>1, <2>2, <2>3, HashInjective DEF TypeOK, Hashes
  <2>7. OneUseOrNone'
    BY <2>4, <2>6 DEF ThreadsIInv, OneUseOrNone, BindingFor
  <2>8. OnlySpends
    BY <2>2, <2>6 DEF OnlySpends, BindingFor
  <2> QED
    BY <1>1, <2>2, <2>5, <2>7, <2>8, StepIInv DEF ThreadsIInv, ThreadsTypeOK
<1> QED
  BY <1>2, <1>3, <1>4 DEF Office

\* A call begins with the codes redeemed so far, all of them spent.
LEMMA EnterIInv ==
    ASSUME ThreadsIInv, NEW t \in Threads, NEW code \in Codes,
           NEW claim \in PresentedClaims, NEW ref \in Refs,
           NEW ttl \in SessionTTLs, Enter(t, code, claim, ref, ttl)
    PROVE  ThreadsIInv' /\ OnlySpends
<1> DEFINE c == [pc |-> "entered", code |-> code, claim |-> claim, ref |-> ref,
                 ttl |-> ttl, current |-> clock, binding |-> NoBinding,
                 seen |-> Redeemed]
<1>1. TypeOK /\ calls \in [Threads -> CallStates \cup {NoCall}]
  BY DEF ThreadsIInv, ThreadsTypeOK
<1>2. calls' = [calls EXCEPT ![t] = c] /\ UNCHANGED vars
  BY DEF Enter
<1>3. TypeOK' /\ OneUseOrNone' /\ OnlySpends
  BY <1>1, <1>2, QuietStep DEF vars, TypeOK
<1>4. Redeemed \subseteq Codes
  BY <1>1 DEF TypeOK, Redemptions, Redeemed
<1>5. c \in CallStates
  BY <1>1, <1>4, PresentedTyped DEF TypeOK, CallStates
<1>6. \A k \in c.seen : /\ BindingFor(k) # NoBinding
                        /\ BindingFor(k).remaining_uses = 0
  <2>1. ASSUME NEW r \in redemptions
        PROVE  /\ BindingFor(r.code) # NoBinding
               /\ BindingFor(r.code).remaining_uses = 0
    BY <1>1 DEF ThreadsIInv, GrantedIsSpent, OneUseOrNone, IsSpent, TypeOK,
                Redemptions
  <2> QED
    BY <2>1 DEF Redeemed
<1>7. c.pc = "entered"
  OBVIOUS
<1> HIDE DEF c
<1>8. calls' \in [Threads -> CallStates \cup {NoCall}] /\ calls'[t] = c
  BY <1>1, <1>2, <1>5
<1>9. CallInv(calls[t])'
  BY <1>2, <1>6, <1>7, <1>8 DEF CallInv, SeenSpent, BindingFor, vars
<1>10. \A u \in Threads : calls'[u] = calls[u] \/ CallInv(calls[u])'
  BY <1>1, <1>2, <1>9
<1> QED
  BY <1>2, <1>3, <1>8, <1>10, StepIInv DEF vars, ThreadsIInv, ThreadsTypeOK

\* A call that passes the checks holds a binding with its one use.
LEMMA LookUpIInv ==
    ASSUME ThreadsIInv, NEW t \in Threads, LookUp(t)
    PROVE  ThreadsIInv' /\ OnlySpends
<1> DEFINE c == calls[t]
           b == BindingFor(c.code)
           d == [c EXCEPT !.pc = "checked", !.binding = b]
<1>1. TypeOK /\ calls \in [Threads -> CallStates \cup {NoCall}]
  BY DEF ThreadsIInv, ThreadsTypeOK
<1>2. /\ c # NoCall /\ c \in CallStates
      /\ Accepts(b, c.claim, c.ref, c.current)
      /\ calls' = [calls EXCEPT ![t] = d]
      /\ UNCHANGED vars
  BY <1>1 DEF LookUp, At
<1>3. c.code \in Codes /\ c.current \in Times
  BY <1>2 DEF CallStates
<1>4. b # NoBinding /\ ~IsSpent(b) /\ ~Expired(b, c.current)
  BY <1>2 DEF Accepts
<1>5. b \in Bindings /\ b.code_hash = HashCode(c.code)
  BY <1>1, <1>3, <1>4, BindingTyped
<1>6. b.remaining_uses = 1
  BY <1>3, <1>4 DEF ThreadsIInv, OneUseOrNone, IsSpent
<1>7. c.current < b.expires_at
  <2> HIDE DEF b, c
  <2>1. c.current \in Int /\ b.expires_at \in Int
    BY <1>3, <1>5, TimesAssumption DEF Bindings
  <2> QED
    BY <1>4, <2>1 DEF Expired
<1>8. SeenSpent(c)
  BY <1>2 DEF ThreadsIInv, CallInv
<1>9. c.code \notin c.seen
  BY <1>6, <1>8 DEF SeenSpent
<1>10. /\ d \in CallStates
       /\ d.pc = "checked" /\ d.binding = b
       /\ d.code = c.code /\ d.current = c.current /\ d.seen = c.seen
  BY <1>2, <1>5 DEF CallStates
<1>11. TypeOK' /\ OneUseOrNone' /\ OnlySpends
  BY <1>1, <1>2, QuietStep DEF vars, TypeOK
<1>12. \A code : BindingFor(code)' = BindingFor(code)
  BY <1>2 DEF BindingFor, vars
<1> HIDE DEF d
<1>13. calls' \in [Threads -> CallStates \cup {NoCall}] /\ calls'[t] = d
  BY <1>1, <1>2, <1>10
<1>14. SeenSpent(calls[t])'
  BY <1>8, <1>10, <1>12, <1>13 DEF SeenSpent
<1>15. Holds(calls[t])'
  BY <1>5, <1>6, <1>7, <1>9, <1>10, <1>12, <1>13 DEF Holds
<1>16. \A u \in Threads : calls'[u] = calls[u] \/ CallInv(calls[u])'
  BY <1>1, <1>2, <1>14, <1>15 DEF CallInv
<1> QED
  BY <1>2, <1>11, <1>13, <1>16, StepIInv DEF vars, ThreadsIInv, ThreadsTypeOK

\* A call that is refused or overflows leaves the registry as it is.
LEMMA EndedIInv ==
    ASSUME ThreadsIInv, NEW t \in Threads, Refuse(t) \/ Overflow(t)
    PROVE  ThreadsIInv' /\ OnlySpends
<1>1. TypeOK /\ calls \in [Threads -> CallStates \cup {NoCall}]
  BY DEF ThreadsIInv, ThreadsTypeOK
<1>2. /\ calls' = [calls EXCEPT ![t] = NoCall]
      /\ UNCHANGED <<clock, made, bindings, redemptions>>
  BY DEF Refuse, Overflow, vars
<1>3. lost' \subseteq Codes
  BY <1>1 DEF Refuse, Overflow, At, CallStates, TypeOK, vars
<1>4. TypeOK' /\ OneUseOrNone' /\ OnlySpends
  BY <1>1, <1>2, <1>3, QuietStep DEF TypeOK
<1>5. \A u \in Threads : calls'[u] = calls[u] \/ CallInv(calls[u])'
  BY <1>1, <1>2 DEF CallInv
<1> QED
  BY <1>1, <1>2, <1>4, <1>5, StepIInv

\* Writing back a binding, stale or not, leaves its code spent.
LEMMA SpendIInv ==
    ASSUME ThreadsIInv, NEW t \in Threads, Spend(t)
    PROVE  ThreadsIInv' /\ OnlySpends
<1> DEFINE c == calls[t]
           b == c.binding
           h == HashCode(c.code)
           d == [c EXCEPT !.pc = "spent"]
<1>1. TypeOK /\ calls \in [Threads -> CallStates \cup {NoCall}]
  BY DEF ThreadsIInv, ThreadsTypeOK
<1>2. /\ c # NoCall /\ c \in CallStates /\ c.pc = "checked"
      /\ bindings' = [bindings EXCEPT ![b.code_hash] = Spent(b)]
      /\ calls' = [calls EXCEPT ![t] = d]
      /\ UNCHANGED <<clock, made, redemptions, lost>>
  BY <1>1 DEF Spend, At
<1>3. SeenSpent(c) /\ Holds(c)
  BY <1>2 DEF ThreadsIInv, CallInv
<1>4. /\ b \in Bindings /\ b.code_hash = h /\ b.remaining_uses = 1
      /\ c.current < b.expires_at /\ c.code \notin c.seen
      /\ BindingFor(c.code) = b \/ BindingFor(c.code) = Spent(b)
      /\ c.code \in Codes /\ h \in Hashes /\ c.seen \subseteq Codes
  BY <1>2, <1>3 DEF Holds, CallStates, Hashes
<1>5. /\ Spent(b) \in Bindings
      /\ Spent(b).remaining_uses = 0
      /\ Spent(b).code_hash = h
  BY <1>4, SpentFacts
<1>6. /\ d \in CallStates
      /\ d.pc = "spent" /\ d.binding = b
      /\ d.code = c.code /\ d.current = c.current /\ d.seen = c.seen
  BY <1>2 DEF CallStates
<1> HIDE DEF d, b, h
<1>7. TypeOK'
  BY <1>1, <1>2, <1>4, <1>5 DEF TypeOK
<1>8. /\ bindings'[h] = Spent(b)
      /\ \A k \in Codes : k # c.code => bindings'[HashCode(k)] = bindings[HashCode(k)]
  BY <1>1, <1>2, <1>4, HashInjective DEF TypeOK, Hashes, h
<1>9. \A k \in Codes : k # c.code => BindingFor(k)' = BindingFor(k)
  BY <1>8 DEF BindingFor
<1>10. \A k \in Codes : k = c.code => BindingFor(k)' = Spent(b)
  BY <1>8 DEF BindingFor, h
<1>11. OneUseOrNone'
  BY <1>5, <1>9, <1>10 DEF ThreadsIInv, OneUseOrNone
<1>12. OnlySpends
  BY <1>4, <1>9, <1>10 DEF OnlySpends
<1>13. calls' \in [Threads -> CallStates \cup {NoCall}] /\ calls'[t] = d
  BY <1>1, <1>2, <1>6
<1>14. SeenSpent(calls[t])'
  BY <1>3, <1>4, <1>6, <1>9, <1>13 DEF SeenSpent
<1>15. Holds(calls[t])'
  <2>1. bindings'[HashCode(d.code)] = Spent(d.binding)
    BY <1>6, <1>8 DEF h
  <2> QED
    BY <1>4, <1>6, <1>13, <2>1 DEF Holds, h, BindingFor
<1>16. \A u \in Threads : calls'[u] = calls[u] \/ CallInv(calls[u])'
  BY <1>1, <1>2, <1>14, <1>15 DEF CallInv
<1> QED
  BY <1>2, <1>7, <1>11, <1>12, <1>13, <1>16, StepIInv DEF ThreadsIInv, ThreadsTypeOK

\* A call that returns adds a credential for a code it has left spent.
LEMMA ReturnIInv ==
    ASSUME ThreadsIInv, NEW t \in Threads, NEW sid \in SessionIds, Return(t, sid)
    PROVE  ThreadsIInv' /\ OnlySpends
<1>1. TypeOK /\ calls \in [Threads -> CallStates \cup {NoCall}]
  BY DEF ThreadsIInv, ThreadsTypeOK
<1>2. PICK c \in CallStates :
         /\ calls[t] = c /\ c # NoCall /\ c.pc = "spent"
  BY <1>1 DEF Return, At
<1> DEFINE b    == c.binding
           cred == NewCredential(sid, b, c.ttl, c.current)
           new  == [code |-> c.code, claim |-> c.claim, credential |-> cred]
<1>3. /\ redemptions' = redemptions \cup {new}
      /\ calls' = [calls EXCEPT ![t] = NoCall]
      /\ UNCHANGED <<clock, made, bindings, lost>>
  BY <1>2 DEF Return, CredentialOf
<1>4. Holds(c)
  BY <1>2 DEF ThreadsIInv, CallInv
<1>5. /\ b \in Bindings /\ b.remaining_uses = 1
      /\ c.current < b.expires_at
      /\ BindingFor(c.code) = Spent(b)
  BY <1>2, <1>4 DEF Holds
<1>6. /\ Spent(b) \in Bindings
      /\ Spent(b).remaining_uses = 0
      /\ GrantsWhatWasIssued(Spent(b), cred)
  BY <1>5, SpentFacts DEF GrantsWhatWasIssued, NewCredential
<1>7. cred \in Credentials
  <2> HIDE DEF b
  <2>1. c.current \in Times /\ c.ttl \in SessionTTLs
    BY <1>2 DEF CallStates
  <2>2. c.current \in Int /\ c.ttl \in Int
    BY <2>1, TimesAssumption, SessionTTLAssumption
  <2> HIDE DEF cred, new
  <2>3. c.current + c.ttl \in Int
    BY <2>2
  <2> QED
    BY <1>5, <2>1, <2>3 DEF cred, NewCredential, Bindings, Credentials
<1>8. /\ new \in Redemptions
      /\ new.code = c.code /\ new.credential = cred
  BY <1>2, <1>7 DEF Redemptions, CallStates
<1>9. Spent(b) # NoBinding
  BY <1>6, NoBindingAssumption
<1> HIDE DEF cred, new
<1>10. TypeOK'
  BY <1>1, <1>3, <1>8 DEF TypeOK
<1>11. OneUseOrNone' /\ OnlySpends
  BY <1>3 DEF ThreadsIInv, OneUseOrNone, OnlySpends, BindingFor
<1>12. ASSUME NEW r \in redemptions'
       PROVE  /\ bindings[HashCode(r.code)] # NoBinding
              /\ IsSpent(bindings[HashCode(r.code)])
              /\ GrantsWhatWasIssued(bindings[HashCode(r.code)], r.credential)
  <2>1. CASE r = new
    BY <2>1, <1>5, <1>6, <1>8, <1>9 DEF BindingFor, IsSpent
  <2>2. CASE r \in redemptions
    BY <2>2 DEF ThreadsIInv, GrantedIsSpent, SessionAuthorized, BindingFor
  <2> QED
    BY <2>1, <2>2, <1>3
<1>13. GrantedIsSpent' /\ SessionAuthorized'
  BY <1>3, <1>12 DEF GrantedIsSpent, SessionAuthorized, GrantsWhatWasIssued,
                     BindingFor, IsSpent
<1>14. calls' \in [Threads -> CallStates \cup {NoCall}]
  BY <1>1, <1>3
<1>15. ASSUME NEW u \in Threads
       PROVE  CallInv(calls[u])'
  <2>1. CASE u = t
    BY <2>1, <1>1, <1>3 DEF CallInv
  <2>2. CASE u # t
    <3>1. calls'[u] = calls[u] /\ CallInv(calls[u])
      BY <2>2, <1>1, <1>3 DEF ThreadsIInv
    <3> QED
      BY <3>1, <1>3 DEF CallInv, SeenSpent, Holds, BindingFor
  <2> QED
    BY <2>1, <2>2
<1> QED
  BY <1>3, <1>10, <1>11, <1>13, <1>14, <1>15
     DEF ThreadsIInv, ThreadsTypeOK

-----------------------------------------------------------------------------
\* Each step of a thread, and each step of the rest, keeps the invariant.
LEMMA ThreadsStep ==
    ThreadsIInv /\ [ThreadsNext]_threadVars => ThreadsIInv' /\ OnlySpends
<1> SUFFICES ASSUME ThreadsIInv, [ThreadsNext]_threadVars
             PROVE  ThreadsIInv' /\ OnlySpends
  OBVIOUS
<1>1. CASE UNCHANGED threadVars
  BY <1>1 DEF threadVars, vars, ThreadsIInv, ThreadsTypeOK, TypeOK,
              OneUseOrNone, GrantedIsSpent, SessionAuthorized, CallInv,
              SeenSpent, Holds, OnlySpends, BindingFor
<1>2. CASE Office
  BY <1>2, OfficeIInv
<1>3. CASE \E t \in Threads : ThreadStep(t)
  <2>1. PICK t \in Threads : ThreadStep(t)
    BY <1>3
  <2>2. CASE \E code \in Codes, claim \in PresentedClaims, ref \in Refs,
                ttl \in SessionTTLs : Enter(t, code, claim, ref, ttl)
    BY <2>2, EnterIInv
  <2>3. CASE LookUp(t)
    BY <2>3, LookUpIInv
  <2>4. CASE Refuse(t) \/ Overflow(t)
    BY <2>4, EndedIInv
  <2>5. CASE Spend(t)
    BY <2>5, SpendIInv
  <2>6. CASE \E sid \in SessionIds : Return(t, sid)
    BY <2>6, ReturnIInv
  <2> QED
    BY <2>1, <2>2, <2>3, <2>4, <2>5, <2>6 DEF ThreadStep
<1> QED
  BY <1>1, <1>2, <1>3 DEF ThreadsNext

LEMMA ThreadsInvariance == ThreadsSpec => []ThreadsIInv
BY ThreadsInitIInv, ThreadsStep, PTL DEF ThreadsSpec

-----------------------------------------------------------------------------
(***************************************************************************)
(* The registry and the locals of every call keep their types, however     *)
(* the threads are scheduled (enrollment.py:78-178).                       *)
(***************************************************************************)
THEOREM ThreadsTypeCorrect == ThreadsSpec => []ThreadsTypeOK
<1>1. ThreadsIInv => ThreadsTypeOK
  BY DEF ThreadsIInv
<1> QED
  BY ThreadsInvariance, <1>1, PTL

(***************************************************************************)
(* A code that bought a credential is dead for every call that begins      *)
(* after that: only calls that overlap can both be granted                 *)
(* (enrollment.py:147-151, 167).                                           *)
(***************************************************************************)
THEOREM ReturnedCodesAreDead == ThreadsSpec => []NoGrantAfterReturn
<1>1. ThreadsIInv => NoGrantAfterReturn
  BY DEF ThreadsIInv, CallInv, Holds, NoGrantAfterReturn, At
<1> QED
  BY ThreadsInvariance, <1>1, PTL

(***************************************************************************)
(* The uses.  What makes a code accounted for, besides what is stored.     *)
(***************************************************************************)
Accounted(code) ==
    \/ code \in Redeemed \cup lost
    \/ \E t \in Threads : At(t, "spent") /\ calls[t].code = code

IsSpentCode(code) == BindingFor(code) # NoBinding /\ IsSpent(BindingFor(code))

\* A step that changes neither what is spent nor what accounts for it.
LEMMA AccountsStand ==
    ASSUME UsesAccounted,
           \A code \in Codes : BindingFor(code)' = BindingFor(code),
           \A code \in Codes : Accounted(code)' <=> Accounted(code)
    PROVE  UsesAccounted'
BY DEF UsesAccounted, Accounted, IsSpent

\* A call that has spent its code hands it on: to the redemptions, if it
\* returns a credential, or to the codes that were lost.
LEMMA HandedOn ==
    ASSUME ThreadsIInv, UsesAccounted, NEW t \in Threads, At(t, "spent"),
           calls' = [calls EXCEPT ![t] = NoCall], bindings' = bindings,
           (Redeemed \cup lost)' = Redeemed \cup lost \cup {calls[t].code}
    PROVE  UsesAccounted'
<1>1. calls \in [Threads -> CallStates \cup {NoCall}]
  BY DEF ThreadsIInv, ThreadsTypeOK
<1>2. \A u \in Threads : At(u, "spent")' <=> u # t /\ At(u, "spent")
  BY <1>1 DEF At
<1>3. \A u \in Threads : u # t => calls'[u] = calls[u]
  BY <1>1
<1>4. \A code \in Codes : Accounted(code)' <=> Accounted(code)
  <2> TAKE code \in Codes
  <2>1. ASSUME Accounted(code)
        PROVE  Accounted(code)'
    BY <2>1, <1>2, <1>3, Zenon DEF Accounted
  <2>2. ASSUME Accounted(code)'
        PROVE  Accounted(code)
    BY <2>2, <1>2, <1>3 DEF Accounted
  <2> QED
    BY <2>1, <2>2
<1> QED
  BY <1>4, AccountsStand DEF BindingFor

\* A step that neither spends nor ends a call that has spent.
LEMMA NothingSpent ==
    ASSUME UsesAccounted, UNCHANGED <<redemptions, lost>>,
           \A code \in Codes : BindingFor(code)' = BindingFor(code),
           \A t \in Threads : \/ calls'[t] = calls[t]
                              \/ ~At(t, "spent") /\ ~At(t, "spent")'
    PROVE  UsesAccounted'
<1>1. Redeemed' = Redeemed
  BY DEF Redeemed
<1>2. \A t \in Threads : At(t, "spent")' <=> At(t, "spent")
  BY DEF At
<1>3. \A t \in Threads : At(t, "spent") => calls'[t] = calls[t]
  OBVIOUS
<1>4. \A code \in Codes : Accounted(code)' <=> Accounted(code)
  BY <1>1, <1>2, <1>3 DEF Accounted
<1> QED
  BY <1>4, AccountsStand

\* issue() stores a binding that is not spent, and takes none away.
LEMMA OfficeAccounted ==
    ASSUME ThreadsIInv, UsesAccounted, Office
    PROVE  UsesAccounted'
<1>1. UNCHANGED <<calls, lost, redemptions>>
  BY DEF Office, SetClock, MakeClaim, Issue
<1>2. \A code \in Codes : Accounted(code)' <=> Accounted(code)
  BY <1>1 DEF Accounted, At, Redeemed
<1>3. ASSUME NEW code \in Codes
      PROVE  IsSpentCode(code)' <=> IsSpentCode(code)
  <2>1. CASE bindings' = bindings
    BY <2>1 DEF IsSpentCode, BindingFor, IsSpent
  <2>2. ASSUME NEW c \in Codes, NEW claim \in PresentedClaims,
               NEW request \in IssueRequests, Issue(c, claim, request)
        PROVE  IsSpentCode(code)' <=> IsSpentCode(code)
    <3> DEFINE b == NewBinding(c, claim, request)
    <3>1. /\ bindings[HashCode(c)] = NoBinding
          /\ bindings' = [bindings EXCEPT ![HashCode(c)] = b]
      BY <2>2 DEF Issue, BindingFor
    <3>2. ~IsSpent(b)
      BY DEF IsSpent, NewBinding
    <3> HIDE DEF b
    <3>3. CASE code = c
      <4>1. bindings'[HashCode(c)] = b
        BY <3>1 DEF ThreadsIInv, ThreadsTypeOK, TypeOK, Hashes
      <4> QED
        BY <3>1, <3>2, <3>3, <4>1 DEF IsSpentCode, BindingFor, IsSpent
    <3>4. CASE code # c
      <4>1. bindings'[HashCode(code)] = bindings[HashCode(code)]
        BY <3>1, <3>4, HashInjective DEF ThreadsIInv, ThreadsTypeOK, TypeOK, Hashes
      <4> QED
        BY <4>1 DEF IsSpentCode, BindingFor, IsSpent
    <3> QED
      BY <3>3, <3>4
  <2> QED
    BY <2>1, <2>2 DEF Office, SetClock, MakeClaim
<1> QED
  BY <1>2, <1>3 DEF UsesAccounted, Accounted, IsSpentCode, IsSpent

\* The write spends the call's own code, and no other.
LEMMA SpendAccounted ==
    ASSUME ThreadsIInv, UsesAccounted, NEW t \in Threads, Spend(t)
    PROVE  UsesAccounted'
<1>1. TypeOK /\ calls \in [Threads -> CallStates \cup {NoCall}]
  BY DEF ThreadsIInv, ThreadsTypeOK
<1>2. PICK c \in CallStates : calls[t] = c /\ c # NoCall /\ c.pc = "checked"
  BY <1>1 DEF Spend, At
<1> DEFINE d == [c EXCEPT !.pc = "spent"]
<1>3. /\ bindings' = [bindings EXCEPT ![c.binding.code_hash] = Spent(c.binding)]
      /\ calls' = [calls EXCEPT ![t] = d]
      /\ UNCHANGED <<redemptions, lost>>
  BY <1>1, <1>2 DEF Spend
<1>4. d.pc = "spent" /\ d.code = c.code /\ d # NoCall
  BY <1>2, NoCallAssumption DEF CallStates
<1>5. /\ c.binding \in Bindings /\ c.binding.code_hash = HashCode(c.code)
      /\ c.binding.remaining_uses = 1 /\ c.code \in Codes
  BY <1>2 DEF ThreadsIInv, CallInv, Holds, CallStates
<1>6. Spent(c.binding) # NoBinding /\ IsSpent(Spent(c.binding))
  BY <1>5, SpentFacts, NoBindingAssumption DEF IsSpent
<1> HIDE DEF d
<1>7. /\ calls'[t] = d
      /\ \A u \in Threads : u # t => calls'[u] = calls[u]
  BY <1>1, <1>3
<1>8. /\ bindings'[HashCode(c.code)] = Spent(c.binding)
      /\ \A k \in Codes : k # c.code => bindings'[HashCode(k)] = bindings[HashCode(k)]
  BY <1>1, <1>3, <1>5, HashInjective DEF TypeOK, Hashes
<1>9. ASSUME NEW k \in Codes, k # c.code
      PROVE  /\ IsSpentCode(k)' <=> IsSpentCode(k)
             /\ Accounted(k)' <=> Accounted(k)
  <2>1. IsSpentCode(k)' <=> IsSpentCode(k)
    BY <1>8, <1>9 DEF IsSpentCode, BindingFor, IsSpent
  <2>2. \A u \in Threads : (At(u, "spent") /\ calls[u].code = k)'
                              <=> At(u, "spent") /\ calls[u].code = k
    BY <1>2, <1>4, <1>7, <1>9 DEF At
  <2> QED
    BY <2>1, <2>2, <1>3 DEF Accounted, Redeemed
<1>10. IsSpentCode(c.code)' /\ Accounted(c.code)'
  <2>1. IsSpentCode(c.code)'
    BY <1>6, <1>8 DEF IsSpentCode, BindingFor, IsSpent
  <2> QED
    BY <2>1, <1>4, <1>7 DEF Accounted, At
<1>11. ASSUME NEW k \in Codes
       PROVE  IsSpentCode(k)' <=> Accounted(k)'
  <2>1. CASE k = c.code
    BY <2>1, <1>10
  <2>2. CASE k # c.code
    BY <2>2, <1>9 DEF UsesAccounted, Accounted, IsSpentCode
  <2> QED
    BY <2>1, <2>2
<1> QED
  BY <1>11 DEF UsesAccounted, Accounted, IsSpentCode

LEMMA AccountedStep ==
    ASSUME ThreadsIInv, UsesAccounted, [ThreadsNext]_threadVars
    PROVE  UsesAccounted'
<1>1. calls \in [Threads -> CallStates \cup {NoCall}]
  BY DEF ThreadsIInv, ThreadsTypeOK
<1>2. CASE UNCHANGED threadVars
  BY <1>2, NothingSpent DEF threadVars, vars, BindingFor
<1>3. CASE Office
  BY <1>3, OfficeAccounted
<1>4. ASSUME NEW t \in Threads, ThreadStep(t)
      PROVE  UsesAccounted'
  <2>1. CASE \E code \in Codes, claim \in PresentedClaims, ref \in Refs,
                ttl \in SessionTTLs : Enter(t, code, claim, ref, ttl)
    <3>1. /\ UNCHANGED vars
          /\ ~At(t, "spent") /\ ~At(t, "spent")'
          /\ \A u \in Threads : u # t => calls'[u] = calls[u]
      BY <1>1, <2>1 DEF Enter, At
    <3> QED
      BY <3>1, NothingSpent DEF vars, BindingFor
  <2>2. CASE LookUp(t) \/ Refuse(t)
    <3>1. calls[t] # NoCall /\ calls[t] \in CallStates /\ calls[t].pc = "entered"
      BY <1>1, <2>2 DEF LookUp, Refuse, At
    <3>2. /\ UNCHANGED vars
          /\ ~At(t, "spent") /\ ~At(t, "spent")'
          /\ \A u \in Threads : u # t => calls'[u] = calls[u]
      BY <1>1, <2>2, <3>1 DEF LookUp, Refuse, At, CallStates
    <3> QED
      BY <3>2, NothingSpent DEF vars, BindingFor
  <2>3. CASE Overflow(t)
    BY <2>3, HandedOn DEF Overflow, Redeemed, vars
  <2>4. CASE Spend(t)
    BY <2>4, SpendAccounted
  <2>5. ASSUME NEW sid \in SessionIds, Return(t, sid)
        PROVE  UsesAccounted'
    <3> DEFINE new == [code |-> calls[t].code, claim |-> calls[t].claim,
                       credential |-> CredentialOf(calls[t], sid)]
    <3>1. redemptions' = redemptions \cup {new} /\ new.code = calls[t].code
      BY <2>5 DEF Return
    <3> HIDE DEF new
    <3>2. Redeemed' = Redeemed \cup {calls[t].code}
      BY <3>1 DEF Redeemed
    <3> QED
      BY <3>2, <2>5, HandedOn DEF Return
  <2> QED
    BY <1>4, <2>1, <2>2, <2>3, <2>4, <2>5 DEF ThreadStep
<1> QED
  BY <1>2, <1>3, <1>4 DEF ThreadsNext

(***************************************************************************)
(* Every use that was taken bought a credential, is about to, or was lost  *)
(* to an overflow, and a use that was not taken has done none of these:    *)
(* no thread's late write revives a code (enrollment.py:146-178).          *)
(***************************************************************************)
THEOREM EveryUseIsAccounted == ThreadsSpec => []UsesAccounted
<1>1. ThreadsInit => UsesAccounted
  BY DEF ThreadsInit, Init, UsesAccounted, Redeemed, At, BindingFor, Hashes
<1>2. ThreadsIInv /\ UsesAccounted /\ [ThreadsNext]_threadVars => UsesAccounted'
  BY AccountedStep
<1> QED
  BY <1>1, <1>2, ThreadsInvariance, PTL DEF ThreadsSpec

(***************************************************************************)
(* Threads or not, a credential carries the authority its code was issued  *)
(* with, and is dated while the code was alive (enrollment.py:150-178).    *)
(***************************************************************************)
THEOREM ThreadSessionsAreAuthorized == ThreadsSpec => []SessionAuthorized
<1>1. ThreadsIInv => SessionAuthorized
  BY DEF ThreadsIInv
<1> QED
  BY ThreadsInvariance, <1>1, PTL

(***************************************************************************)
(* No thread drops, re-arms or rebinds a stored binding, although it       *)
(* writes back what it read before the others ran (enrollment.py:125,      *)
(* 167).                                                                   *)
(***************************************************************************)
THEOREM ThreadBindingsAreImmutable == ThreadsSpec => BindingImmutable
<1> DEFINE Keeps(h) == bindings[h] # NoBinding =>
             \/ bindings'[h] = bindings[h]
             \/ /\ ~IsSpent(bindings[h])
                /\ bindings'[h] = [bindings[h] EXCEPT !.remaining_uses = 0]
<1>1. ASSUME ThreadsIInv, [ThreadsNext]_threadVars, NEW h \in Hashes,
             bindings[h] # NoBinding, bindings'[h] # bindings[h]
      PROVE  /\ ~IsSpent(bindings[h])
             /\ bindings'[h] = [bindings[h] EXCEPT !.remaining_uses = 0]
  <2>1. PICK code \in Codes : h = HashCode(code)
    BY DEF Hashes
  <2>2. /\ bindings[h].remaining_uses = 1
        /\ bindings'[h] = Spent(bindings[h])
    BY <1>1, <2>1, ThreadsStep DEF OnlySpends, BindingFor
  <2>3. bindings[h] \in Bindings
    BY <1>1 DEF ThreadsIInv, ThreadsTypeOK, TypeOK
  <2>4. Spent(bindings[h]) = [bindings[h] EXCEPT !.remaining_uses = 0]
    BY <2>2, <2>3, SpentFacts
  <2>5. ~IsSpent(bindings[h])
    BY <2>2 DEF IsSpent
  <2> QED
    BY <2>2, <2>4, <2>5, Zenon
<1>2. ThreadsIInv /\ [ThreadsNext]_threadVars => [\A h \in Hashes : Keeps(h)]_vars
  <2> SUFFICES ASSUME ThreadsIInv, [ThreadsNext]_threadVars, NEW h \in Hashes
               PROVE  Keeps(h)
    OBVIOUS
  <2> QED
    BY <1>1, Zenon
<1> QED
  BY <1>2, ThreadsInvariance, PTL DEF ThreadsSpec, BindingImmutable

-----------------------------------------------------------------------------
(***************************************************************************)
(* Single use.  A call that is past the checks owns its code: no other     *)
(* call is past them for the same code, no credential was returned for it  *)
(* yet, and its use was not lost.                                          *)
(***************************************************************************)
PastChecks(t) == At(t, "checked") \/ At(t, "spent")

OwnersApart ==
    \A t, u \in Threads :
       PastChecks(t) /\ PastChecks(u) /\ calls[t].code = calls[u].code => t = u

OwnsUnredeemed ==
    \A t \in Threads : PastChecks(t) => calls[t].code \notin Redeemed \cup lost

SingleUseInv == AtMostOneGrant /\ Redeemed \cap lost = {} /\ OwnersApart /\ OwnsUnredeemed

\* A call past the checks for a code that can still be redeemed is about to
\* write it back.
LEMMA OwnerIsChecked ==
    ASSUME ThreadsIInv, NEW t \in Threads, PastChecks(t),
           ~IsSpent(BindingFor(calls[t].code))
    PROVE  At(t, "checked")
<1> SUFFICES ASSUME calls[t] # NoCall, calls[t].pc = "spent"
             PROVE  FALSE
  BY DEF PastChecks, At
<1>1. Holds(calls[t])
  BY DEF ThreadsIInv, CallInv
<1>2. /\ calls[t].binding \in Bindings /\ calls[t].binding.remaining_uses = 1
      /\ BindingFor(calls[t].code) = Spent(calls[t].binding)
  BY <1>1 DEF Holds
<1>3. Spent(calls[t].binding).remaining_uses = 0
  BY <1>2, SpentFacts
<1> QED
  BY <1>2, <1>3 DEF IsSpent

\* Nothing is granted or lost, and the calls past the checks are among those
\* that were, with their codes.
LEMMA NoNewOwner ==
    ASSUME SingleUseInv, UNCHANGED <<redemptions, lost>>,
           \A t \in Threads :
              PastChecks(t)' => PastChecks(t) /\ calls'[t].code = calls[t].code
    PROVE  SingleUseInv'
<1>1. AtMostOneGrant' /\ (Redeemed \cap lost)' = {}
  BY DEF SingleUseInv, AtMostOneGrant, Redeemed
<1>2. OwnersApart'
  BY DEF SingleUseInv, OwnersApart
<1>3. OwnsUnredeemed'
  BY DEF SingleUseInv, OwnsUnredeemed, Redeemed
<1> QED
  BY <1>1, <1>2, <1>3 DEF SingleUseInv

\* The lookup makes an owner: of a code that has no other, if lookups and
\* writes of one code do not interleave, and for which nothing was returned.
LEMMA LookUpSingleUse ==
    ASSUME ThreadsIInv, UsesAccounted, SingleUseInv, ChecksApart', NEW t \in Threads, LookUp(t)
    PROVE  SingleUseInv'
<1>1. calls \in [Threads -> CallStates \cup {NoCall}]
  BY DEF ThreadsIInv, ThreadsTypeOK
<1>2. PICK c \in CallStates : c = calls[t] /\ c # NoCall /\ c.pc = "entered"
  BY <1>1 DEF LookUp, At
<1> DEFINE d == [c EXCEPT !.pc = "checked", !.binding = BindingFor(c.code)]
<1>3. /\ Accepts(BindingFor(c.code), c.claim, c.ref, c.current)
      /\ calls' = [calls EXCEPT ![t] = d]
      /\ UNCHANGED <<redemptions, bindings, lost>>
  BY <1>1, <1>2 DEF LookUp, vars
<1>4. BindingFor(c.code) # NoBinding /\ ~IsSpent(BindingFor(c.code))
  BY <1>3 DEF Accepts
<1>5. BindingFor(c.code) \in Bindings
  BY <1>2, <1>4, BindingTyped DEF ThreadsIInv, ThreadsTypeOK, CallStates
<1>6. d \in CallStates /\ d.pc = "checked" /\ d.code = c.code
  BY <1>2, <1>5 DEF CallStates
<1> HIDE DEF d
<1>7. /\ calls'[t] = d
      /\ \A u \in Threads : u # t => calls'[u] = calls[u]
  BY <1>1, <1>3
<1>8. At(t, "checked")'
  BY <1>6, <1>7, NoCallAssumption DEF At
<1>9. ASSUME NEW u \in Threads, u # t, PastChecks(u)
      PROVE  calls[u].code # c.code
  <2> SUFFICES ASSUME calls[u].code = c.code
               PROVE  FALSE
    OBVIOUS
  <2>1. At(u, "checked")
    BY <1>4, <1>9, OwnerIsChecked
  <2>2. At(u, "checked")' /\ calls'[u].code = calls'[t].code
    BY <2>1, <1>6, <1>7, <1>9 DEF At
  <2> QED
    BY <2>2, <1>8, <1>9 DEF ChecksApart
<1>10. c.code \notin Redeemed \cup lost
  BY <1>2, <1>4 DEF UsesAccounted, CallStates
<1>11. \A u \in Threads : u # t => (PastChecks(u)' <=> PastChecks(u))
  BY <1>7 DEF PastChecks, At
<1>12. AtMostOneGrant' /\ (Redeemed \cap lost)' = {}
  BY <1>3 DEF SingleUseInv, AtMostOneGrant, Redeemed
<1>13. OwnersApart'
  BY <1>6, <1>7, <1>9, <1>11 DEF SingleUseInv, OwnersApart
<1>14. OwnsUnredeemed'
  BY <1>3, <1>6, <1>7, <1>10, <1>11 DEF SingleUseInv, OwnsUnredeemed, Redeemed
<1> QED
  BY <1>12, <1>13, <1>14 DEF SingleUseInv

\* A call ends by handing its code on to the redemptions or to the lost ones.
LEMMA OwnerLeaves ==
    ASSUME ThreadsIInv, SingleUseInv, NEW t \in Threads, PastChecks(t),
           calls' = [calls EXCEPT ![t] = NoCall], AtMostOneGrant',
           \/ lost' = lost /\ Redeemed' = Redeemed \cup {calls[t].code}
           \/ Redeemed' = Redeemed /\ lost' = lost \cup {calls[t].code}
    PROVE  SingleUseInv'
<1>1. calls \in [Threads -> CallStates \cup {NoCall}]
  BY DEF ThreadsIInv, ThreadsTypeOK
<1>2. calls[t].code \notin Redeemed \cup lost
  BY DEF SingleUseInv, OwnsUnredeemed
<1>3. \A u \in Threads :
         PastChecks(u)' => u # t /\ PastChecks(u) /\ calls'[u] = calls[u]
  BY <1>1 DEF PastChecks, At
<1>4. OwnersApart'
  BY <1>3 DEF SingleUseInv, OwnersApart
<1>5. \A u \in Threads : PastChecks(u)' => calls[t].code # calls[u].code
  BY <1>3 DEF SingleUseInv, OwnersApart
<1>6. OwnsUnredeemed'
  BY <1>3, <1>5 DEF SingleUseInv, OwnsUnredeemed
<1>7. Redeemed' \cap lost' = {}
  BY <1>2 DEF SingleUseInv
<1> QED
  BY <1>4, <1>6, <1>7 DEF SingleUseInv

\* The owner returns the one credential of its code, and owns it no more.
LEMMA ReturnSingleUse ==
    ASSUME ThreadsIInv, SingleUseInv, NEW t \in Threads, NEW sid \in SessionIds,
           Return(t, sid)
    PROVE  SingleUseInv'
<1>1. calls \in [Threads -> CallStates \cup {NoCall}]
  BY DEF ThreadsIInv, ThreadsTypeOK
<1> DEFINE new == [code |-> calls[t].code, claim |-> calls[t].claim,
                   credential |-> CredentialOf(calls[t], sid)]
<1>2. /\ PastChecks(t)
      /\ redemptions' = redemptions \cup {new}
      /\ calls' = [calls EXCEPT ![t] = NoCall]
      /\ lost' = lost
  BY DEF Return, PastChecks
<1>3. new.code = calls[t].code
  OBVIOUS
<1> HIDE DEF new
<1>4. Redeemed' = Redeemed \cup {calls[t].code}
  BY <1>2, <1>3 DEF Redeemed
<1>5. calls[t].code \notin Redeemed \cup lost
  BY <1>2 DEF SingleUseInv, OwnsUnredeemed
<1>6. AtMostOneGrant'
  <2>1. \A r \in redemptions : r.code # new.code
    BY <1>3, <1>5 DEF Redeemed
  <2> QED
    BY <2>1, <1>2 DEF SingleUseInv, AtMostOneGrant
<1> QED
  BY <1>2, <1>4, <1>5, <1>6, OwnerLeaves

\* The owner of a code loses its use, and owns it no more.
LEMMA OverflowSingleUse ==
    ASSUME ThreadsIInv, SingleUseInv, NEW t \in Threads, Overflow(t)
    PROVE  SingleUseInv'
<1>1. /\ PastChecks(t)
      /\ redemptions' = redemptions /\ lost' = lost \cup {calls[t].code}
      /\ calls' = [calls EXCEPT ![t] = NoCall]
  BY DEF Overflow, PastChecks
<1>2. calls[t].code \notin Redeemed \cup lost
  BY <1>1 DEF SingleUseInv, OwnsUnredeemed
<1>3. AtMostOneGrant' /\ Redeemed' = Redeemed
  BY <1>1 DEF SingleUseInv, AtMostOneGrant, Redeemed
<1> QED
  BY <1>1, <1>2, <1>3, OwnerLeaves

LEMMA SingleUseStep ==
    ASSUME ThreadsIInv, UsesAccounted, SingleUseInv, ChecksApart', [ThreadsNext]_threadVars
    PROVE  SingleUseInv'
<1>1. calls \in [Threads -> CallStates \cup {NoCall}]
  BY DEF ThreadsIInv, ThreadsTypeOK
<1>2. CASE UNCHANGED threadVars
  BY <1>2, NoNewOwner DEF threadVars, vars, PastChecks, At
<1>3. CASE Office
  <2>1. UNCHANGED <<calls, redemptions, lost>>
    BY <1>3 DEF Office, SetClock, MakeClaim, Issue
  <2> QED
    BY <2>1, NoNewOwner DEF PastChecks, At
<1>4. ASSUME NEW t \in Threads, ThreadStep(t)
      PROVE  SingleUseInv'
  <2>1. CASE \E code \in Codes, claim \in PresentedClaims, ref \in Refs,
                ttl \in SessionTTLs : Enter(t, code, claim, ref, ttl)
    <3>1. PICK code \in Codes, claim \in PresentedClaims, ref \in Refs,
               ttl \in SessionTTLs : Enter(t, code, claim, ref, ttl)
      BY <2>1
    <3>2. /\ UNCHANGED <<redemptions, lost>>
          /\ ~PastChecks(t)'
          /\ \A u \in Threads : u # t => calls'[u] = calls[u]
      BY <1>1, <3>1 DEF Enter, vars, PastChecks, At
    <3> QED
      BY <3>2, NoNewOwner DEF PastChecks, At
  <2>2. CASE LookUp(t)
    BY <2>2, LookUpSingleUse
  <2>3. CASE Refuse(t)
    <3>1. /\ UNCHANGED <<redemptions, lost>>
          /\ calls' = [calls EXCEPT ![t] = NoCall]
      BY <2>3 DEF Refuse, vars
    <3> QED
      BY <1>1, <3>1, NoNewOwner DEF PastChecks, At
  <2>4. CASE Spend(t)
    <3>1. /\ UNCHANGED <<redemptions, lost>>
          /\ calls' = [calls EXCEPT ![t].pc = "spent"]
          /\ calls[t] # NoCall /\ PastChecks(t)
      BY <2>4 DEF Spend, At, PastChecks
    <3>2. calls[t] \in CallStates
      BY <1>1, <3>1
    <3>3. /\ calls'[t].code = calls[t].code
          /\ \A u \in Threads : u # t => calls'[u] = calls[u]
      BY <1>1, <3>1, <3>2 DEF CallStates
    <3> QED
      BY <3>1, <3>3, NoNewOwner DEF PastChecks, At
  <2>5. CASE \E sid \in SessionIds : Return(t, sid)
    BY <2>5, ReturnSingleUse
  <2>6. CASE Overflow(t)
    BY <2>6, OverflowSingleUse
  <2> QED
    BY <1>4, <2>1, <2>2, <2>3, <2>4, <2>5, <2>6 DEF ThreadStep
<1> QED
  BY <1>2, <1>3, <1>4 DEF ThreadsNext

(***************************************************************************)
(* The window between the lookup and the write is all that single use      *)
(* depends on: if no two calls for one code are in it at a time, a code    *)
(* buys at most one credential, however the calls overlap otherwise        *)
(* (enrollment.py:146-167).                                                *)
(***************************************************************************)
THEOREM SingleUseNeedsChecksApart ==
    ThreadsSpec /\ []ChecksApart => []AtMostOneGrant
<1>1. ThreadsInit => SingleUseInv
  BY DEF ThreadsInit, Init, SingleUseInv, AtMostOneGrant, OwnersApart,
         OwnsUnredeemed, PastChecks, At
<1>2. ThreadsIInv /\ UsesAccounted /\ SingleUseInv /\ ChecksApart'
         /\ [ThreadsNext]_threadVars => SingleUseInv'
  BY SingleUseStep
<1>3. SingleUseInv => AtMostOneGrant
  BY DEF SingleUseInv
<1> QED
  BY <1>1, <1>2, <1>3, ThreadsInvariance, EveryUseIsAccounted, PTL DEF ThreadsSpec
-----------------------------------------------------------------------------
(***************************************************************************)
(* The one-time code again.  With threads a code is redeemed or void when  *)
(* the call returns or fails, not when its use is taken.                   *)
(***************************************************************************)
ReturnedStatus ==
    [code \in Codes |-> IF BindingFor(code) = NoBinding THEN "fresh"
                        ELSE IF code \in Redeemed THEN "redeemed"
                        ELSE IF code \in lost THEN "void"
                        ELSE "issued"]

Once == INSTANCE OneTimeCode
          WITH Holders <- DeviceIds, Nobody <- NoBinding, Tickets <- SessionIds,
               status <- ReturnedStatus, holder <- CodeHolder,
               granted <- CodeGrants

(***************************************************************************)
(* What a one-time code promises, kept by overlapping calls: it is handed  *)
(* to one device, and buys that device one grant or is voided without one  *)
(* (enrollment.py:78-178).                                                 *)
(***************************************************************************)
ThreadsImplementOneTimeCode == Once!CodeSpec

\* A step that binds no code anew and grants and loses nothing is a stutter.
LEMMA HoldersStay ==
    ASSUME OnlySpends, TypeOK, UNCHANGED <<redemptions, lost>>,
           \A code \in Codes : BindingFor(code) = NoBinding => BindingFor(code)' = NoBinding
    PROVE  UNCHANGED Once!codeVars
<1>1. Redeemed' = Redeemed /\ CodeGrants' = CodeGrants
  BY DEF Redeemed, CodeGrants
<1>2. ASSUME NEW code \in Codes, BindingFor(code) # NoBinding
      PROVE  /\ BindingFor(code)' # NoBinding
             /\ BindingFor(code)'.device_id = BindingFor(code).device_id
  <2>1. BindingFor(code) \in Bindings
    BY <1>2, BindingTyped
  <2>2. CASE BindingFor(code)' = BindingFor(code)
    BY <1>2, <2>2
  <2>3. CASE /\ BindingFor(code).remaining_uses = 1
             /\ BindingFor(code)' = Spent(BindingFor(code))
    BY <2>1, <2>3, SpentFacts, NoBindingAssumption
  <2> QED
    BY <1>2, <2>2, <2>3 DEF OnlySpends
<1>3. ReturnedStatus' = ReturnedStatus
  BY <1>1, <1>2 DEF ReturnedStatus
<1>4. CodeHolder' = CodeHolder
  BY <1>2 DEF CodeHolder
<1> QED
  BY <1>1, <1>3, <1>4 DEF Once!codeVars

\* issue() hands a code out.
LEMMA IssueHandsOut ==
    ASSUME ThreadsIInv, UsesAccounted, NEW code \in Codes, NEW claim \in PresentedClaims,
           NEW request \in IssueRequests, Issue(code, claim, request)
    PROVE  Once!CodeNext
<1> DEFINE b == NewBinding(code, claim, request)
<1>1. TypeOK
  BY DEF ThreadsIInv, ThreadsTypeOK
<1>2. /\ BindingFor(code) = NoBinding
      /\ bindings' = [bindings EXCEPT ![HashCode(code)] = b]
      /\ UNCHANGED <<redemptions, lost>>
  BY DEF Issue
<1>3. b \in Bindings
  BY <1>1, NewBindingTyped
<1>4. b # NoBinding /\ b.device_id \in DeviceIds
  BY <1>3, NoBindingAssumption DEF Bindings
<1> HIDE DEF b
<1>5. /\ BindingFor(code)' = b
      /\ \A c \in Codes \ {code} : BindingFor(c)' = BindingFor(c)
  BY <1>1, <1>2, HashInjective DEF TypeOK, BindingFor, Hashes
<1>6. /\ code \notin Redeemed \cup lost
      /\ Redeemed' = Redeemed /\ CodeGrants' = CodeGrants
  BY <1>2 DEF UsesAccounted, Redeemed, CodeGrants
<1>7. ReturnedStatus[code] = "fresh"
  BY <1>2 DEF ReturnedStatus
<1>8. ReturnedStatus' = [ReturnedStatus EXCEPT ![code] = "issued"]
  <2>1. \A c \in Codes :
           ReturnedStatus'[c] = IF c = code THEN "issued" ELSE ReturnedStatus[c]
    BY <1>2, <1>4, <1>5, <1>6 DEF ReturnedStatus
  <2> QED
    BY <2>1 DEF ReturnedStatus
<1>9. CodeHolder' = [CodeHolder EXCEPT ![code] = b.device_id]
  BY <1>4, <1>5 DEF CodeHolder
<1>10. Once!HandOut(code, b.device_id)
  BY <1>6, <1>7, <1>8, <1>9 DEF Once!HandOut
<1> QED
  BY <1>4, <1>10 DEF Once!CodeNext

\* Returning a credential is the grant of its code, to the code's holder.
LEMMA ReturnGrants ==
    ASSUME ThreadsIInv, SingleUseInv, NEW t \in Threads, NEW sid \in SessionIds,
           Return(t, sid)
    PROVE  Once!CodeNext
<1>1. TypeOK /\ calls \in [Threads -> CallStates \cup {NoCall}]
  BY DEF ThreadsIInv, ThreadsTypeOK
<1>2. PICK c \in CallStates : calls[t] = c /\ c # NoCall /\ c.pc = "spent"
  BY <1>1 DEF Return, At
<1> DEFINE new == [code |-> c.code, claim |-> c.claim,
                   credential |-> NewCredential(sid, c.binding, c.ttl, c.current)]
<1>3. redemptions' = redemptions \cup {new} /\ UNCHANGED <<bindings, lost>>
  BY <1>2 DEF Return, CredentialOf
<1>4. /\ c.code \in Codes
      /\ c.binding \in Bindings /\ c.binding.remaining_uses = 1
      /\ BindingFor(c.code) = Spent(c.binding)
  BY <1>2 DEF ThreadsIInv, CallInv, Holds, CallStates
<1>5. /\ BindingFor(c.code) # NoBinding
      /\ BindingFor(c.code).device_id = c.binding.device_id
  BY <1>4, SpentFacts, NoBindingAssumption
<1>6. /\ new.code = c.code
      /\ new.credential.device_id = c.binding.device_id
      /\ new.credential.session_id = sid
  BY DEF NewCredential
<1>7. c.code \notin Redeemed \cup lost
  BY <1>2 DEF SingleUseInv, OwnsUnredeemed, PastChecks, At
<1> HIDE DEF new
<1>8. Redeemed' = Redeemed \cup {c.code}
  BY <1>3, <1>6 DEF Redeemed
<1>9. \A k : BindingFor(k)' = BindingFor(k)
  BY <1>3 DEF BindingFor
<1>10. ReturnedStatus[c.code] = "issued" /\ CodeHolder[c.code] = c.binding.device_id
  BY <1>4, <1>5, <1>7 DEF ReturnedStatus, CodeHolder
<1>11. ReturnedStatus' = [ReturnedStatus EXCEPT ![c.code] = "redeemed"]
  BY <1>3, <1>5, <1>8, <1>9 DEF ReturnedStatus
<1>12. CodeHolder' = CodeHolder
  BY <1>9 DEF CodeHolder
<1>13. CodeGrants' = CodeGrants \cup {<<c.code, CodeHolder[c.code], sid>>}
  BY <1>3, <1>6, <1>10 DEF CodeGrants
<1>14. Once!Grant(c.code, sid)
  BY <1>10, <1>11, <1>12, <1>13 DEF Once!Grant
<1> QED
  BY <1>4, <1>14 DEF Once!CodeNext

\* An overflow voids the code of the call.
LEMMA OverflowVoids ==
    ASSUME ThreadsIInv, SingleUseInv, NEW t \in Threads, Overflow(t)
    PROVE  Once!CodeNext
<1>1. calls \in [Threads -> CallStates \cup {NoCall}]
  BY DEF ThreadsIInv, ThreadsTypeOK
<1>2. PICK c \in CallStates : calls[t] = c /\ c # NoCall /\ c.pc = "spent"
  BY <1>1 DEF Overflow, At
<1>3. UNCHANGED <<redemptions, bindings>> /\ lost' = lost \cup {c.code}
  BY <1>2 DEF Overflow
<1>4. c.code \in Codes /\ BindingFor(c.code) # NoBinding
  <2>1. /\ c.code \in Codes
        /\ c.binding \in Bindings /\ c.binding.remaining_uses = 1
        /\ BindingFor(c.code) = Spent(c.binding)
    BY <1>2 DEF ThreadsIInv, CallInv, Holds, CallStates
  <2> QED
    BY <2>1, SpentFacts, NoBindingAssumption
<1>5. c.code \notin Redeemed \cup lost
  BY <1>2 DEF SingleUseInv, OwnsUnredeemed, PastChecks, At
<1>6. \A k : BindingFor(k)' = BindingFor(k)
  BY <1>3 DEF BindingFor
<1>7. Redeemed' = Redeemed /\ CodeGrants' = CodeGrants /\ CodeHolder' = CodeHolder
  BY <1>3, <1>6 DEF Redeemed, CodeGrants, CodeHolder
<1>8. ReturnedStatus[c.code] = "issued"
  BY <1>4, <1>5 DEF ReturnedStatus
<1>9. ReturnedStatus' = [ReturnedStatus EXCEPT ![c.code] = "void"]
  BY <1>3, <1>4, <1>5, <1>6, <1>7 DEF ReturnedStatus
<1>10. Once!Void(c.code)
  BY <1>7, <1>8, <1>9 DEF Once!Void
<1> QED
  BY <1>4, <1>10 DEF Once!CodeNext

(***************************************************************************)
(* Keeping the lookups and writes of each code apart is enough for all     *)
(* that a one-time code promises, as without threads: every call may       *)
(* overlap with others everywhere else (enrollment.py:146-178).            *)
(***************************************************************************)
THEOREM ThreadsKeepTheCodePromise ==
    ThreadsSpec /\ []ChecksApart => ThreadsImplementOneTimeCode
<1>1. ThreadsInit => Once!CodeInit /\ SingleUseInv
  <2> SUFFICES ASSUME ThreadsInit
               PROVE  Once!CodeInit /\ SingleUseInv
    OBVIOUS
  <2>1. \A c \in Codes : BindingFor(c) = NoBinding
    BY DEF ThreadsInit, Init, BindingFor, Hashes
  <2>2. redemptions = {} /\ lost = {}
    BY DEF ThreadsInit, Init
  <2>3. Once!CodeInit
    BY <2>1, <2>2 DEF Once!CodeInit, ReturnedStatus, CodeHolder, CodeGrants
  <2>4. SingleUseInv
    BY DEF ThreadsInit, Init, SingleUseInv, AtMostOneGrant, OwnersApart,
           OwnsUnredeemed, PastChecks, At
  <2> QED
    BY <2>3, <2>4
<1>2. ASSUME ThreadsIInv, UsesAccounted, SingleUseInv, [ThreadsNext]_threadVars
      PROVE  [Once!CodeNext]_(Once!codeVars)
  <2>1. OnlySpends /\ TypeOK
    BY <1>2, ThreadsStep DEF ThreadsIInv, ThreadsTypeOK
  <2>2. CASE UNCHANGED <<bindings, redemptions, lost>>
    BY <2>1, <2>2, HoldersStay DEF BindingFor
  <2>3. CASE \E code \in Codes, request \in IssueRequests,
                claim \in PresentedClaims : Issue(code, claim, request)
    BY <1>2, <2>3, IssueHandsOut
  <2>4. ASSUME NEW t \in Threads, Spend(t)
        PROVE  UNCHANGED Once!codeVars
    <3>1. calls[t] # NoCall /\ calls[t] \in CallStates /\ calls[t].pc = "checked"
      BY <1>2, <2>4 DEF Spend, At, ThreadsIInv, ThreadsTypeOK
    <3>2. Holds(calls[t])
      BY <1>2, <3>1 DEF ThreadsIInv, CallInv
    <3> DEFINE code == calls[t].code
               b    == calls[t].binding
    <3>3. /\ code \in Codes
          /\ b \in Bindings /\ b.remaining_uses = 1
          /\ b.code_hash = HashCode(code)
          /\ BindingFor(code) = b \/ BindingFor(code) = Spent(b)
      BY <3>1, <3>2 DEF Holds, CallStates
    <3>4. BindingFor(code) # NoBinding
      BY <3>3, SpentFacts, NoBindingAssumption
    <3>5. bindings' = [bindings EXCEPT ![b.code_hash] = Spent(b)]
          /\ UNCHANGED <<redemptions, lost>>
      BY <2>4 DEF Spend
    <3> HIDE DEF code, b
    <3>6. \A c \in Codes : c # code => BindingFor(c)' = BindingFor(c)
      BY <2>1, <3>3, <3>5, HashInjective DEF TypeOK, BindingFor, Hashes
    <3> QED
      BY <2>1, <3>4, <3>5, <3>6, HoldersStay
  <2>5. ASSUME NEW t \in Threads, NEW sid \in SessionIds, Return(t, sid)
        PROVE  Once!CodeNext
    BY <1>2, <2>5, ReturnGrants
  <2>6. ASSUME NEW t \in Threads, ThreadStep(t)
        PROVE  [Once!CodeNext]_(Once!codeVars)
    BY <1>2, <2>2, <2>4, <2>5, <2>6, OverflowVoids
       DEF ThreadStep, Enter, LookUp, Refuse, vars
  <2>7. CASE Office
    BY <2>2, <2>3, <2>7 DEF Office, SetClock, MakeClaim
  <2>8. CASE UNCHANGED threadVars
    BY <2>2, <2>8 DEF threadVars, vars
  <2> QED
    BY <1>2, <2>6, <2>7, <2>8 DEF ThreadsNext
<1>3. ThreadsIInv /\ UsesAccounted /\ SingleUseInv /\ ChecksApart'
         /\ [ThreadsNext]_threadVars => SingleUseInv'
  BY SingleUseStep
<1> QED
  BY <1>1, <1>2, <1>3, ThreadsInvariance, EveryUseIsAccounted, PTL
     DEF ThreadsSpec, ThreadsImplementOneTimeCode, Once!CodeSpec
=============================================================================
