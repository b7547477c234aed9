--------------------------- MODULE AccessControl ---------------------------
(***************************************************************************)
(* Who may write which category (acl.rs).  The names of categories and of  *)
(* devices are values without letters; what authorize_write asks of their  *)
(* spelling is given as relations between them.                            *)
(***************************************************************************)
EXTENDS Naturals

CONSTANTS
  Name,        \* names of categories and of devices
  Reserved,    \* RESERVED_CATEGORIES
  Base,        \* BASE_CATEGORIES
  Registered,  \* acl.device_categories
  Admins,      \* acl.admin_devices
  Global,      \* "global"
  Suffix,      \* of every name "workflow_X" the X
  Scope        \* of a device "X-agent" the names "X_...", of others none

ASSUME NamesAssumption ==
  /\ Reserved \subseteq Name /\ Base \subseteq Name
  /\ Registered \subseteq Name /\ Admins \subseteq Name
  /\ DOMAIN Suffix \subseteq Name
  /\ \A m, n \in DOMAIN Suffix : Suffix[m] = Suffix[n] => m = n
  /\ Scope \in [Name -> SUBSET Name]

-----------------------------------------------------------------------------

Workflow == DOMAIN Suffix

\* workflow_X on the registered device X; workflow_global and the projects are not.
OwnWorkflow(c, d) ==
  c \in Workflow /\ Suffix[c] # Global /\ Suffix[c] \in Registered /\ Suffix[c] = d

\* authorize_write(c) on device d, rule by rule.
Rules(c, d) == <<
  [if |-> c \in Reserved,   allow |-> FALSE],
  [if |-> d \in Admins,     allow |-> TRUE],
  [if |-> c \in Base,       allow |-> FALSE],
  [if |-> c \in Registered, allow |-> c = d],
  [if |-> c \in Workflow,   allow |-> OwnWorkflow(c, d)],
  [if |-> c \in Scope[d],   allow |-> TRUE],
  [if |-> TRUE,             allow |-> FALSE] >>

\* The first rule that applies decides.
Deciding(c, d) ==
  CHOOSE i \in 1 .. 7 : Rules(c, d)[i].if /\ \A j \in 1 .. i - 1 : ~Rules(c, d)[j].if

Authorized(c, d) == Rules(c, d)[Deciding(c, d)].allow
=============================================================================
