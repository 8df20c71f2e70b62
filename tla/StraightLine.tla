----------------------------- MODULE StraightLine -----------------------------
(***************************************************************************)
(* nav2_straightline_planner::StraightLine::createPlan().                  *)
(*                                                                         *)
(* Coordinates and the resolution are whole multiples of some length.  A   *)
(* pose is a fraction: its coordinates are x / over and y / over.  The     *)
(* quotient of two doubles that are a multiple apart may come out just     *)
(* below the whole number and be cut to the one before.                    *)
(***************************************************************************)
EXTENDS Integers, Sequences

CONSTANT
  Huge   \* stands for INT_MAX, beyond any path that fits into memory

ASSUME StraightLineAssumption == Huge \in Nat

Square(n) == n * n

\* Distance squared.
Apart(start, goal) == Square(goal.x - start.x) + Square(goal.y - start.y)

\* Whole number of steps of length resolution > 0 in the square root of d.
Steps(d, resolution) ==
  CHOOSE n \in 0..d : /\ Square(n * resolution) <= d
                      /\ d < Square((n + 1) * resolution)

\* The values total_number_of_loop may take.  A negative quotient is cut to
\* zero or less, which is zero poses; a quotient by zero is infinite or not
\* a number, and its conversion to int is undefined: x86 gives INT_MIN, ARM
\* INT_MAX or zero.
Loops(d, resolution) ==
  CASE resolution > 0 ->
         LET n == Steps(d, resolution)
         IN {n} \union (IF n > 0 /\ Square(n * resolution) = d THEN {n - 1} ELSE {})
    [] resolution = 0 -> {0, Huge}
    [] resolution < 0 -> {0}

\* Mutant: the increments leave room for the goal.
LineWithRoom(start, goal, n) ==
  [i \in 1..n |-> [x |-> start.x * (n + 1) + (goal.x - start.x) * (i - 1),
                   y |-> start.y * (n + 1) + (goal.y - start.y) * (i - 1), over |-> n + 1]]

\* The poses of the loop: start + i * increment for i in 0..n-1.
Line(start, goal, n) ==
  [i \in 1..n |-> [x |-> start.x * n + (goal.x - start.x) * (i - 1),
                   y |-> start.y * n + (goal.y - start.y) * (i - 1), over |-> n]]

Appended(path, goal) == Append(path, [x |-> goal.x, y |-> goal.y, over |-> 1])

\* The paths createPlan may return: none across frames.
Plans(start, goal, frame, resolution) ==
  IF start.frame # frame \/ goal.frame # frame THEN { <<>> }
  ELSE { Appended(Line(start, goal, n), goal) : n \in Loops(Apart(start, goal), resolution) }

-----------------------------------------------------------------------------
(* What a path should look like.                                            *)

At(pose, point) == pose.x = point.x * pose.over /\ pose.y = point.y * pose.over

\* The distance of two poses squared, times both denominators squared.
Gap(p, q) == Square(q.x * p.over - p.x * q.over) + Square(q.y * p.over - p.y * q.over)
Scale(p, q) == Square(p.over * q.over)

=============================================================================
