---------------------------- MODULE Confinement ----------------------------
(***************************************************************************)
(* What a live sandbox session promises about the file system.  A child    *)
(* that runs has exactly the rights of the policy, which change only while *)
(* there is no child, only by what was promised to a client, and then by   *)
(* all of it, and beyond them only what belongs to its own launch.  A      *)
(* session that is over has no child and starts no other.                  *)
(***************************************************************************)
EXTENDS Naturals

CONSTANTS
  Rights,   \* what can be granted: a path and a mode
  Initial,  \* what the session is launched with
  Own       \* the rights that belong to one launch alone, for every launch

VARIABLES
  rights,    \* of the policy
  promised,  \* acknowledged, and not in the policy yet
  running,   \* whether there is a child
  held,      \* what the last child was launched with
  launches,  \* the number of children so far
  over       \* whether the session is on its way out

confinementVars == <<rights, promised, running, held, launches, over>>

Init ==
  /\ rights = Initial /\ promised = {}
  /\ running = FALSE /\ held = {} /\ launches = 0 /\ over = FALSE

\* A client may be promised more at any time.
Promise(more) ==
  /\ promised' = promised \cup more
  /\ UNCHANGED <<rights, running, held, launches, over>>

\* What was promised is granted as a whole, between two children.
Grant ==
  /\ ~running /\ ~over
  /\ rights' = rights \cup promised /\ promised' = {}
  /\ UNCHANGED <<running, held, launches, over>>

Start ==
  /\ ~running /\ ~over
  /\ launches' = launches + 1
  /\ running' = TRUE /\ held' = rights \cup Own[launches']
  /\ UNCHANGED <<rights, promised, over>>

Stop ==
  /\ running' = FALSE
  /\ UNCHANGED <<rights, promised, held, launches, over>>

\* The child of a session that ends goes with it, at the latest.
End ==
  /\ running' = FALSE /\ over' = TRUE
  /\ UNCHANGED <<rights, promised, held, launches>>

Next == (\E more \in SUBSET Rights : Promise(more)) \/ Grant \/ Start \/ Stop \/ End

Spec == Init /\ [][Next]_confinementVars

=============================================================================
