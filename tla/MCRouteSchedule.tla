--------------------------- MODULE MCRouteSchedule --------------------------
(* Two branches of one line and a loop, also with a list missing, and a ring; *)
(* the trains call at every station of their line.                            *)
EXTENDS RouteSchedule, TLC

CONSTANTS a, b, c, d, e, line1, line2, n1, n2

MCReal == <<line1, line1, line2>>
Full == << <<a, b, c>>, <<b, d>>, <<c, d, e>> >>
Ring == << <<a, b>>, <<b, c, d, e>>, <<a, e>> >>
MCNetworks == {Full, Ring} \cup {[Full EXCEPT ![l] = <<>>] : l \in {1, 2, 3}}

(* A train of a line that leaves its first station at `start` *)
Train(l, dir, no, start, step) ==
    LET order == IF dir = "UP" THEN Full[l] ELSE Reverse(Full[l])
        at(i) == (start + (i - 1) * step) % Day
    IN  {[station |-> order[i], line |-> l, dir |-> dir, train |-> no,
          arr |-> IF i = 1 THEN NoTime ELSE at(i),
          dep |-> IF i = Len(order) THEN NoTime ELSE at(i)] : i \in DOMAIN order}

Runs(l, dir, no, starts, steps) ==
    {{}} \cup {Train(l, dir, no, p[1], p[2]) : p \in starts \X steps}

MCTimetables ==
    {x \cup y \cup z : x \in Runs(1, "UP", n1, {0, 1, 3, 5}, {1, 2}),
                       y \in Runs(1, "UP", n2, {1, 2}, {1}) \cup Runs(1, "UP", n1, {2}, {1}),
                       z \in {p \cup q : p \in Runs(2, "UP", n1, {2, 3}, {1, 2}),
                                         q \in Runs(3, "UP", n1, {3, 4}, {1})
                                               \cup Runs(3, "DOWN", NoTrain, {4}, {1})}}

MCRoutes == {<<a, c>>, <<a, d>>, <<a, e>>, <<a, b, d>>, <<c, a, e>>, <<a, c, e>>, <<a, a>>}
=============================================================================
