---------------------------- MODULE ApprovalGate ----------------------------
(***************************************************************************)
(* What the approval gate promises (README.md, "Approval gates": drafted,  *)
(* then approved "before execution"), with none of its mechanism: a text   *)
(* can be changed at any time, which withdraws its clearance; a text that  *)
(* is in force can be cleared or refused; what starts to run is a text in  *)
(* force that is cleared at that moment.  Maintenance may revise texts in  *)
(* place, which leaves them cleared.                                       *)
(***************************************************************************)
CONSTANTS
    Items,
    Texts,
    Nothing,   \* no text, not one of Texts
    Revision   \* Revision[s]: what maintenance makes of a text s

VARIABLES
    text,     \* text[i]: the text in force, or Nothing
    cleared,  \* cleared[i]: may it run?
    started   \* the <<item, text>> pairs that have started to run

gate == <<text, cleared, started>>

GateInit ==
    /\ text = [i \in Items |-> Nothing]
    /\ cleared = [i \in Items |-> FALSE]
    /\ started = {}

Change(i) ==
    /\ \E s \in Texts \cup {Nothing} : text' = [text EXCEPT ![i] = s]
    /\ cleared' = [cleared EXCEPT ![i] = FALSE]
    /\ UNCHANGED started

Decide(i) ==
    /\ text[i] # Nothing
    /\ \E verdict \in BOOLEAN : cleared' = [cleared EXCEPT ![i] = verdict]
    /\ UNCHANGED <<text, started>>

Run(i) ==
    /\ cleared[i]
    /\ started' = started \cup {<<i, text[i]>>}
    /\ UNCHANGED <<text, cleared>>

\* Maintenance replaces texts by their revisions, and clearances stay.
Revise ==
    /\ \E I \in SUBSET {i \in Items : text[i] # Nothing} :
        text' = [i \in Items |-> IF i \in I THEN Revision[text[i]] ELSE text[i]]
    /\ UNCHANGED <<cleared, started>>

GateNext == Revise \/ \E i \in Items : Change(i) \/ Decide(i) \/ Run(i)

GateSpec == GateInit /\ [][GateNext]_gate

=============================================================================
