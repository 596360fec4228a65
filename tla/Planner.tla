------------------------------- MODULE Planner -------------------------------
(***************************************************************************)
(* The two boot planners of PlanRules, run on the same documents.          *)
(***************************************************************************)
EXTENDS PlanRules

CONSTANTS
    Inputs,   \* the documents and options the planners are run on
    Pending,  \* the planner has not run yet
    Refused   \* it ended with an error

\* An optional time.
OptionalTime == {NoTime} \cup Int

\* Inputs have the types the two parsers give them.
ASSUME InputsAssumption ==
    \A i \in Inputs :
       /\ i.fips \in BOOLEAN /\ i.readers \subseteq {"python", "rust"}
       /\ i.wall \in Int /\ i.now \in OptionalTime
       /\ i.token.issued_at \in Int /\ i.token.expires_at \in Int
       /\ i.keys \in Seq({i.keys[k] : k \in DOMAIN i.keys})
       /\ \A k \in DOMAIN i.keys : /\ i.keys[k].bits \in Int
                                  /\ i.keys[k].not_before \in OptionalTime
                                  /\ i.keys[k].not_after \in OptionalTime
\* No plan is one of the two marks.
ASSUME OutcomesAssumption ==
    \A i \in Inputs : i.manifest.body.mode \in Modes =>
                         {PyPlan(i), RsPlan(i)} \cap {Pending, Refused} = {}

VARIABLES input, python, rust
vars == <<input, python, rust>>

Init == input \in Inputs /\ python = Pending /\ rust = Pending

\* cli.main
RunPython ==
    /\ python = Pending
    /\ python' = IF PyPlans(input) THEN PyPlan(input) ELSE Refused
    /\ UNCHANGED <<input, rust>>

\* main, Commands::Plan
RunRust ==
    /\ rust = Pending
    /\ rust' = IF RsPlans(input) THEN RsPlan(input) ELSE Refused
    /\ UNCHANGED <<input, python>>

Next == RunPython \/ RunRust

Spec == Init /\ [][Next]_vars
-----------------------------------------------------------------------------
PlanFields == {"action", "release", "base", "artifacts", "mode", "authorized_by",
               "operations", "proofs", "fallback", "execute", "selected_entry"}
IsPlan(outcome) == outcome \notin {Pending, Refused}

\* The outcomes are outcomes, and every plan is one for its input's token.
TypeOK ==
    /\ input \in Inputs
    /\ \A outcome \in {python, rust} :
          IsPlan(outcome) => /\ DOMAIN outcome = PlanFields
                             /\ outcome.authorized_by = input.token.id
                             /\ outcome.mode \in Modes

(***************************************************************************)
(* Where the two planners are known to part: a line that only one of them  *)
(* has, or a library that reads or writes differently.                     *)
(***************************************************************************)
SignerKeys(i) == {k \in DOMAIN i.keys : i.keys[k].ref = i.manifest.body.signer}
KnownDifference(i) ==
    LET body == i.manifest.body
    IN  \/ i.readers # {"python", "rust"}             \* types, times, PEM files
        \/ body.text # "plain"                        \* canonical payload
        \/ i.manifest.signature.hex = "spaced"        \* white space in the hex
        \/ \E k \in DOMAIN i.keys :                    \* --now and key lifecycle
              PyKeyValid(i.keys[k], i.wall) # PyKeyValid(i.keys[k], Instant(i))
        \/ \E k \in DOMAIN i.keys \ SignerKeys(i) :    \* keys of other signers
              ~PyKeyValid(i.keys[k], i.wall)
        \/ \E k, n \in SignerKeys(i) : k # n           \* first or last key
        \/ \E k \in SignerKeys(i) :                    \* key length, reason
              \/ i.keys[k].bits < 2048 \/ i.keys[k].bits > 4096
              \/ i.keys[k].reason = "blank"
        \/ ~i.fips /\ body.profile # Profile           \* profile without the flag
        \/ body.artifacts \in {"blank", "untyped"}      \* white space refs, str(v)
        \/ body.menu # NoMenu /\ ~MenuValid(body.menu, body)
        \/ i.token.issued_at >= i.token.expires_at
        \/ i.token.subject_id = "blank"

(***************************************************************************)
(* The Rust planner is the Python reference (RUST_STANCE_AND_MATURITY.md:  *)
(* 71-73) on every input outside the known differences: it accepts the     *)
(* same, and its plan has the same content but for the menu entry.         *)
(***************************************************************************)
PlannersAgree ==
    python # Pending /\ rust # Pending /\ ~KnownDifference(input) =>
       /\ IsPlan(python) <=> IsPlan(rust)
       /\ IsPlan(python) =>
             \A field \in PlanFields \ {"selected_entry"} : rust[field] = python[field]

(***************************************************************************)
(* Neither planner plans for a manifest whose signature was not made, over *)
(* this very body, with a key the operator lists under the signer's name   *)
(* (verify.py:95-113, cli.py:28-45, main.rs:319-357).                      *)
(***************************************************************************)
PlanIsSigned ==
    IsPlan(python) \/ IsPlan(rust) =>
       /\ input.manifest.signature.payload.body = input.manifest.body
       /\ \E k \in SignerKeys(input) :
             input.manifest.signature.key = input.keys[k].material

(***************************************************************************)
(* The entry Python's plan selects is one entry of the signed menu, and it *)
(* boots the release and mode of the manifest (protocol.py:123-158).       *)
(***************************************************************************)
SelectedEntryBound ==
    IsPlan(python) /\ input.manifest.body.menu # NoMenu =>
       LET entries == input.manifest.body.menu.entries
           chosen  == {n \in DOMAIN entries : entries[n].id = python.selected_entry}
       IN  /\ chosen # {}
           /\ \A n \in chosen : EntryMatches(entries[n], input.manifest.body)
=============================================================================
