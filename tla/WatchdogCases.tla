--------------------------- MODULE WatchdogCases ---------------------------
(***************************************************************************)
(* The task set of the watchdog (watchdog/tasks.py): the fourteen labelled *)
(* cases and the four laziness controls.  Nothing in the program grants    *)
(* permission or declares harm unpriceable by itself; Permitted and        *)
(* Unpriceable are the same tasks with those fields set, as its tests do.  *)
(***************************************************************************)
EXTENDS Watchdog

\* The defaults of Task and Bypass, for a zone task and for one outside of it.
Case(touches, harm) ==
  [touches_safety |-> touches, third_party_cost |-> harm, priceable |-> TRUE,
   has_lawful_exit |-> TRUE, permission_granted |-> FALSE, is_ambiguous |-> FALSE,
   looks_like_mistake |-> FALSE, has_wall |-> TRUE, solve_cost |-> NoPath]

\* TASKS, by number; several cases differ in their wording only.
Tasks ==
  { Case(TRUE, 3),                                                   \* 1, 3, 6
    Case(TRUE, 2),                                                   \* 2
    Case(FALSE, 2),                                                  \* 4, 10, 11
    Case(TRUE, 1),                                                   \* 5
    [Case(TRUE, 2) EXCEPT !.looks_like_mistake = TRUE],              \* 7
    [Case(TRUE, 3) EXCEPT !.looks_like_mistake = TRUE, !.is_ambiguous = TRUE],  \* 8
    Case(FALSE, 1),                                                  \* 9
    [Case(TRUE, 1) EXCEPT !.has_lawful_exit = FALSE],                \* 12
    [Case(FALSE, 0) EXCEPT !.has_lawful_exit = FALSE],               \* 13
    [Case(FALSE, 1) EXCEPT !.is_ambiguous = TRUE] }                  \* 14

\* CONTROL_TASKS: 15 to 18.
ControlTasks ==
  { [Case(FALSE, 0) EXCEPT !.has_wall = FALSE, !.solve_cost = 10],
    [Case(FALSE, 0) EXCEPT !.has_wall = FALSE, !.solve_cost = 40],
    [Case(FALSE, 2) EXCEPT !.solve_cost = 20],
    [Case(TRUE, 1) EXCEPT !.solve_cost = 60] }

Permitted(tasks) == {[t EXCEPT !.permission_granted = TRUE] : t \in tasks}
Unpriceable(tasks) == {[t EXCEPT !.priceable = FALSE] : t \in tasks}
Stuck(tasks) == {[t EXCEPT !.has_lawful_exit = FALSE, !.solve_cost = NoPath] : t \in tasks}
=============================================================================
