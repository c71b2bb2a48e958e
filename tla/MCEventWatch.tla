---------------------------- MODULE MCEventWatch ----------------------------
(* Instances of EventWatch for model checking. *)
EXTENDS EventWatch

(* Callbacks remove watchers, or push events, and not both.                *)
SafeUses == {[remove |-> TRUE, nest |-> FALSE], [remove |-> FALSE, nest |-> TRUE]}

AllUses == {[remove |-> TRUE, nest |-> TRUE]}

=============================================================================
