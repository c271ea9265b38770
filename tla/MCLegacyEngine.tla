--------------------------- MODULE MCLegacyEngine ---------------------------
(* Small workflows: each has a shape that one part of the engine is for.   *)
EXTENDS LegacyEngine

CONSTANTS T, L, A, B, C, M

Wire(from, output, to) == [from |-> from, output |-> output, to |-> to, error |-> FALSE]
ErrorWire(from, to) == [from |-> from, output |-> 0, to |-> to, error |-> TRUE]

Plain ==
  [nodes |-> {T, A, B, M}, connections |-> <<>>, loops |-> {}, batch |-> 0, disabled |-> {},
   ports |-> [n \in Nodes |-> {0}], risky |-> {}, perItem |-> {}, continues |-> {}]

\* An If (A) whose branches meet again. B may fail item by item, and M takes
\* the errors too.
Branches ==
  [Plain EXCEPT !.nodes = {T, A, B, C, M},
                !.connections = <<Wire(T, 0, A), Wire(A, 1, C), Wire(A, 0, B), Wire(B, 0, M),
                                  Wire(C, 0, M), ErrorWire(B, M)>>,
                !.ports = [@ EXCEPT ![A] = {0, 1}],
                !.risky = {B, C}, !.perItem = {B}, !.continues = {C}]

\* A disabled node next to one that fails the run.
Disabled ==
  [Plain EXCEPT !.connections = <<Wire(T, 0, A), Wire(T, 0, B), Wire(A, 0, M), Wire(B, 0, M)>>,
                !.disabled = {A}, !.risky = {B}]

\* A loop whose body is an If (A) and a node after one of its branches (B).
Loop ==
  [Plain EXCEPT !.nodes = {T, L, A, B, M},
                !.connections = <<Wire(T, 0, L), Wire(L, 1, A), Wire(A, 0, B), Wire(A, 1, L),
                                  Wire(B, 0, L), Wire(L, 0, M)>>,
                !.loops = {L}, !.ports = [@ EXCEPT ![A] = {0, 1}]]

\* Batches of two, and an error route inside the body.
Batches ==
  [Plain EXCEPT !.nodes = {T, L, A, B, M},
                !.connections = <<Wire(T, 0, L), Wire(L, 1, A), ErrorWire(A, B), Wire(A, 0, L),
                                  Wire(B, 0, L), Wire(L, 0, M)>>,
                !.loops = {L}, !.batch = 2, !.risky = {A}, !.perItem = {A}]

\* A loop (C) in the body of a loop.
Nested ==
  [Plain EXCEPT !.nodes = {T, L, A, B, C, M},
                !.connections = <<Wire(T, 0, L), Wire(L, 1, A), Wire(A, 0, C), Wire(A, 1, L),
                                  Wire(C, 1, B), Wire(B, 0, C), Wire(C, 0, L), Wire(L, 0, M)>>,
                !.loops = {L, C}, !.batch = 2, !.ports = [@ EXCEPT ![A] = {0, 1}]]

\* A node in a loop that also takes items from outside it, and may send back
\* an error in place of a result.
Fed ==
  [Plain EXCEPT !.nodes = {T, L, A, M},
                !.connections = <<Wire(T, 0, L), Wire(T, 0, A), Wire(L, 1, A), Wire(A, 0, L),
                                  ErrorWire(A, L), Wire(L, 0, M)>>,
                !.loops = {L}, !.risky = {A}]

\* Two start nodes: not accepted.
TwoStarts == [Plain EXCEPT !.connections = <<Wire(T, 0, M), Wire(A, 0, M), Wire(M, 0, B)>>]

MCNodes == {T, L, A, B, C, M}

MCWorkflows ==
  [branches |-> Branches, disabled |-> Disabled, loop |-> Loop, batches |-> Batches,
   nested |-> Nested, fed |-> Fed, twoStarts |-> TwoStarts]
=============================================================================
