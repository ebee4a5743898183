--------------------------- MODULE OneUsePermission ---------------------------
(***************************************************************************)
(* What a side-effect approval promises: an action runs only on the          *)
(* strength of a permission the user granted for that very input, and a      *)
(* permission serves one run.                                               *)
(***************************************************************************)
CONSTANT Runs  \* the executions of an action

VARIABLES
  granted,  \* the permissions given: pairs of a request and an input
  based     \* pairs of a run and the permission it was based on

permissionVars == <<granted, based>>

PermissionInit == granted = {} /\ based = {}

Grant ==
  /\ \E p \in granted' : granted' = granted \cup {p}
  /\ UNCHANGED based

\* A run that has no permission yet takes one that served no other run.
Run(x, p) ==
  /\ \A b \in based : b[1] # x /\ b[2] # p
  /\ based' = based \cup {<<x, p>>}
  /\ UNCHANGED granted

PermissionNext == Grant \/ \E x \in Runs, p \in granted : Run(x, p)

PermissionSpec == PermissionInit /\ [][PermissionNext]_permissionVars

\* What follows for whoever relies on it: each run has one permission, which was
\* granted, and no two runs share one.
OneUse ==
  /\ \A b \in based : b[2] \in granted
  /\ \A b, c \in based : b[1] = c[1] \/ b[2] = c[2] => b = c

===============================================================================
